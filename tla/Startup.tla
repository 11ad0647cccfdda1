------------------------------ MODULE Startup ------------------------------
(***************************************************************************)
(* From main to daemon_main: main.c, the command pool (command.c),         *)
(* init_masterserver (daemon.c), and Config.                               *)
(*                                                                         *)
(* pc is the function that main calls next: "parse_args", "load_config"    *)
(* and, in it, "parse_config" and "check_config", "init_command_pool",     *)
(* "init_core_commands", "init_masterserver", "daemon_main"; or "returned" *)
(* at its end, "exit" for exit status 1, "crashed" when a signal ended the *)
(* process.                                                                *)
(***************************************************************************)
EXTENDS Config, Functions

CONSTANTS
  CommandList,      \* core_command_list, as ranks in the order of the names
  DEFAULT_CMD_SIZE, \* the initial size, 16, of the command pool
  Faults            \* what may go wrong, see AllFaults

AllFaults == {"args", "open", "malloc", "realloc", "server"}

ASSUME StartupAssumption ==
  /\ CommandList \in Seq(Nat)
  /\ DEFAULT_CMD_SIZE \in Nat \ {0}
  /\ Faults \subseteq AllFaults

VARIABLES
  pc,
  command_pool,      \* what has been added to the pool, in memory order
  command_pool_size  \* how many would fit

mainVars == <<command_pool, command_pool_size>>
vars == <<fileVars, config, parseVars, pc, mainVars>>

Init ==
  /\ file \in UNION {[1..n -> Lines] : n \in 0..MaxLines}
  /\ newline \in BOOLEAN
  /\ file = <<>> => ~newline
  /\ config = Defaults
  /\ linenum = 0 /\ start = 0 /\ end = -1 /\ tmplen = TMP_SIZE /\ written = 0
  /\ pc = "parse_args"
  /\ command_pool = <<>> /\ command_pool_size = 0

-----------------------------------------------------------------------------

\* main returns 1.
Fail == pc' = "exit" /\ UNCHANGED mainVars

\* parse_args, which may complain.
ParseArgs ==
  /\ pc = "parse_args"
  /\ \/ pc' = "load_config" /\ UNCHANGED mainVars
     \/ "args" \in Faults /\ Fail
  /\ UNCHANGED <<fileVars, config, parseVars>>

\* load_config: an empty file is as good as none, and is not checked.
LoadConfig ==
  /\ pc = "load_config"
  /\ pc' = IF length = 0 THEN "init_command_pool" ELSE "parse_config"
  /\ UNCHANGED <<fileVars, config, parseVars, mainVars>>

\* The file cannot be opened, examined or mapped, or it is not regular.
LoadConfigFails ==
  /\ pc = "load_config" /\ "open" \in Faults
  /\ Fail
  /\ UNCHANGED <<fileVars, config, parseVars>>

Skip ==
  /\ pc = "parse_config" /\ SkipLine
  /\ UNCHANGED <<pc, mainVars>>

Parse ==
  /\ pc = "parse_config" /\ ParseLine("FTP_PARSER_SUCCESS")
  /\ UNCHANGED <<pc, mainVars>>

\* Mutant of Refuse: a line that cannot be parsed is reported and skipped.
Refuse_continue ==
  /\ pc = "parse_config"
  /\ \E result \in {"FTP_PARSER_MISSING_ARGUMENT", "FTP_PARSER_UNKNOWN_OPTION",
                    "FTP_PARSER_NAN", "FTP_PARSER_RANGE"} : ParseLine(result)
  /\ UNCHANGED <<pc, mainVars>>

\* The first line that cannot be parsed ends the program.
Refuse ==
  /\ pc = "parse_config"
  /\ \E result \in {"FTP_PARSER_MISSING_ARGUMENT", "FTP_PARSER_UNKNOWN_OPTION",
                    "FTP_PARSER_NAN", "FTP_PARSER_RANGE"} : ParseLine(result)
  /\ Fail

\* There is no memory for a line, or for a string.
ParseNoMemory ==
  /\ pc = "parse_config" /\ "malloc" \in Faults /\ AtLine
  /\ Fail
  /\ UNCHANGED <<fileVars, config, parseVars>>

\* Behind the mapping there may be another one.
LookPast ==
  /\ pc = "parse_config" /\ LookPastEnd
  /\ UNCHANGED <<pc, mainVars>>

LookPastMapping ==
  /\ pc = "parse_config" /\ More /\ end + 1 >= Mapped
  /\ pc' = "crashed"
  /\ UNCHANGED <<fileVars, config, parseVars, mainVars>>

ParsedAll ==
  /\ pc = "parse_config" /\ ~More
  /\ pc' = "check_config"
  /\ UNCHANGED <<fileVars, config, parseVars, mainVars>>

CheckConfig ==
  /\ pc = "check_config"
  /\ IF check_config(config) THEN pc' = "init_command_pool" /\ UNCHANGED mainVars
     ELSE Fail
  /\ UNCHANGED <<fileVars, config, parseVars>>

\* After init_signals and start_log, which never fail.
init_command_pool ==
  /\ pc = "init_command_pool"
  /\ command_pool_size' = DEFAULT_CMD_SIZE
  /\ pc' = "init_core_commands"
  /\ UNCHANGED <<fileVars, config, parseVars, command_pool>>

init_command_pool_fails ==
  /\ pc = "init_command_pool" /\ "malloc" \in Faults
  /\ Fail
  /\ UNCHANGED <<fileVars, config, parseVars>>

Full(this_cmd, size) == this_cmd >= size

\* add_command, for the next command of the list.
add_command ==
  /\ pc = "init_core_commands" /\ Len(command_pool) < Len(CommandList)
  /\ LET this_cmd == Len(command_pool) IN
     /\ command_pool_size' = IF Full(this_cmd, command_pool_size)
                             THEN 2 * command_pool_size
                             ELSE command_pool_size
     /\ command_pool' = Append(command_pool, CommandList[this_cmd + 1])
  /\ UNCHANGED <<fileVars, config, parseVars, pc>>

add_command_fails ==
  /\ pc = "init_core_commands" /\ Len(command_pool) < Len(CommandList)
  /\ Full(Len(command_pool), command_pool_size) /\ "realloc" \in Faults
  /\ Fail
  /\ UNCHANGED <<fileVars, config, parseVars>>

\* The orders that qsort() may leave the commands in.
Orders == Bijection(DOMAIN CommandList, DOMAIN CommandList)

\* The end of add_command_list: bsearch() will want the pool in order.
sort_commands ==
  /\ pc = "init_core_commands" /\ Len(command_pool) = Len(CommandList)
  /\ \E order \in Orders :
       /\ \A i, j \in DOMAIN order :
            i < j => command_pool[order[i]] <= command_pool[order[j]]
       /\ command_pool' = [i \in DOMAIN order |-> command_pool[order[i]]]
  /\ pc' = "init_masterserver"
  /\ UNCHANGED <<fileVars, config, parseVars, command_pool_size>>

\* init_masterserver: socket(), bind(), listen() and pipe().
init_masterserver ==
  /\ pc = "init_masterserver"
  /\ pc' = "daemon_main"
  /\ UNCHANGED <<fileVars, config, parseVars, mainVars>>

\* One of them fails, and the socket, if there is one, is closed.
init_masterserver_fails ==
  /\ pc = "init_masterserver" /\ "server" \in Faults
  /\ Fail
  /\ UNCHANGED <<fileVars, config, parseVars>>

\* The rest of main, when daemon_main returns: destroy_command_pool and
\* unload_config.  Every session process comes by here, too.
Shutdown ==
  /\ pc = "daemon_main"
  /\ pc' = "returned"
  /\ config' = [opt \in Options |->
                  IF opt \in StrOptions THEN "NULL" ELSE config[opt]]
  /\ command_pool' = <<>> /\ command_pool_size' = 0
  /\ UNCHANGED <<fileVars, parseVars>>

Done ==
  /\ pc \in {"returned", "exit", "crashed"}
  /\ UNCHANGED vars

-----------------------------------------------------------------------------

LoadStep ==
  \/ LoadConfig \/ Skip \/ Parse \/ Refuse \/ LookPast \/ LookPastMapping
  \/ ParsedAll \/ CheckConfig

Fault ==
  \/ LoadConfigFails \/ ParseNoMemory \/ init_command_pool_fails
  \/ add_command_fails \/ init_masterserver_fails

Next ==
  \/ ParseArgs \/ LoadStep \/ init_command_pool \/ add_command
  \/ sort_commands \/ init_masterserver \/ Shutdown \/ Fault \/ Done

Spec == Init /\ [][Next]_vars

-----------------------------------------------------------------------------
(***************************************************************************)
(* Properties                                                              *)
(***************************************************************************)

\* The type invariant, with the sizes of the buffers: the copy of a line fits
\* the one in parse_config, whatever lines that was resized for, and add_command
\* stays inside the pool.
TypeOK ==
  /\ pc \in {"parse_args", "load_config", "parse_config", "check_config",
             "init_command_pool", "init_core_commands", "init_masterserver",
             "daemon_main", "returned", "exit", "crashed"}
  /\ file \in Seq(Lines) /\ newline \in BOOLEAN
  /\ DOMAIN config = Options
  /\ \A opt \in IntOptions : config[opt] \in (-INT_MAX - 1)..INT_MAX
  /\ \A opt \in BoolOptions : config[opt] \in BOOLEAN
  /\ linenum \in 0..(Len(file) + 1)
  /\ start \in 0..(length + 1) /\ end \in (-1)..(length + 1)
  /\ tmplen \in Nat \ {0} /\ written \in 0..tmplen
  /\ command_pool \in Seq(Range(CommandList))
  /\ command_pool_size \in Nat /\ Len(command_pool) <= command_pool_size

\* A line that says something is an assignment with a value of its type.
Meaningful(line) ==
  LineSize(line) > 0 /\ line.size > 0 /\ ~(line.name = "#" /\ line.indent = 0) =>
    /\ line.name \in Options /\ line.kind \in {"value", "junk"}
    /\ line.name \in IntOptions => line.kind = "value" /\ InRange(line.value)

\* What the file says of an option: its last assignment counts.
Said(opt) ==
  LET at == {k \in 1..Len(file) : file[k].name = opt}
  IN  IF at = {} THEN Defaults[opt] ELSE Value(file[Max(at)])

\* No ports out of range, and no anonymous users without a directory.
Sane(cfg) ==
  /\ cfg.LocalPort \in 0..MAX_PORT
  /\ 0 <= cfg.PasvPortStart /\ cfg.PasvPortStart <= cfg.PasvPortEnd
  /\ cfg.PasvPortEnd <= MAX_PORT
  /\ cfg.AllowAnonymous => cfg.AnonRootDir # "NULL"

\* The daemon runs with what the file says, down to its last line, whether or
\* not that has a newline, only if every line means something, and only if
\* all of them together make sense.  Unless the file is empty: the defaults
\* would not pass check_config.
ConfigMeansFile ==
  pc = "daemon_main" =>
    /\ \A k \in 1..Len(file) : Meaningful(file[k])
    /\ config = [opt \in Options |-> Said(opt)]
    /\ length > 0 => Sane(config)

\* Looking for one more line behind the end of the file goes wrong only if
\* the file fills its last page, or lacks one newline character to do so.
CrashesOnlyAtPageEnd ==
  pc = "crashed" =>
    \/ length % PAGE_SIZE = 0
    \/ ~newline /\ (length + 1) % PAGE_SIZE = 0

=============================================================================
