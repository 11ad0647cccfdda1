------------------------------ MODULE Config ------------------------------
(***************************************************************************)
(* Reading the configuration file (config.c, trim_whitespace in util.c).   *)
(*                                                                         *)
(* The file is a sequence of lines, the last of which may lack its newline *)
(* character.  A line is leading blanks, a body and perhaps a carriage     *)
(* return; a body is nothing, a text that begins with #, a word without =, *)
(* or an assignment.  Positions in the file are numbers, because           *)
(* parse_config looks at the character behind a newline before it knows    *)
(* that there is one: the file is mapped into memory in pages, and behind  *)
(* the last page there may be nothing.                                     *)
(***************************************************************************)
EXTENDS Integers, Sequences, FiniteSetsExt

CONSTANTS
  Lines,     \* the lines a file may be made of
  MaxLines,  \* bound on their number
  PAGE_SIZE, \* of the memory mapping
  TMP_SIZE,  \* the initial size, 81, of parse_config's line buffer
  INT_MAX,   \* the range of an int is -INT_MAX-1..INT_MAX
  MAX_PORT   \* 65535

\* The options that check_config looks at, and one that it does not.
IntOptions == {"LocalPort", "PasvPortStart", "PasvPortEnd", "TransferRate"}
BoolOptions == {"AllowAnonymous", "LogToSyslog"}
StrOptions == {"AnonRootDir"}
Options == IntOptions \cup BoolOptions \cup StrOptions

\* The name and the argument of a line's body.  The name "" with a body of
\* size 0 is an empty body, "#" is a text that begins with #.  The argument
\* is of kind "none" if there is no =, "blank" if nothing follows it, "junk"
\* if it is not a number, or "value".
LineType(line) ==
  /\ line.indent \in Nat /\ line.cr \in {0, 1} /\ line.size \in Nat
  /\ line.kind \in {"none", "blank", "junk", "value"}
  /\ line.name \in IntOptions /\ line.kind = "value" => line.value \in Int
  /\ line.name \in BoolOptions /\ line.kind = "value" => line.value \in BOOLEAN
  /\ line.size = 0 <=> line.name = ""
  /\ line.name \in {"", "#"} => line.kind = "none"

ASSUME ConfigAssumption ==
  /\ \A line \in Lines : LineType(line)
  /\ MaxLines \in Nat /\ TMP_SIZE \in Nat \ {0}
  /\ PAGE_SIZE \in Nat \ {0}
  /\ INT_MAX \in Nat \ {0} /\ MAX_PORT \in 0..INT_MAX

VARIABLES
  file,    \* the lines of the file
  newline, \* does the last line end with a newline character?
  config,  \* the global variable
  linenum, \* the lines parse_config is done with
  start,   \* its variables: the start and the end of the current line,
  end,
  tmplen,  \*   and the size of the buffer for the line's copy
  written  \* how much of that buffer the last line needed

fileVars == <<file, newline>>
parseVars == <<linenum, start, end, tmplen, written>>

LineSize(line) == line.indent + line.size + line.cr

\* Where the line behind the first k lines of f starts.
Starts(f) ==
  LET upTo[k \in 0..Len(f)] == IF k = 0 THEN 0 ELSE upTo[k - 1] + LineSize(f[k]) + 1
  IN  upTo

\* The size of the file.
length ==
  IF newline \/ file = <<>> THEN Starts(file)[Len(file)] ELSE Starts(file)[Len(file)] - 1

\* load_defaults.
Defaults == [LocalPort |-> MAX_PORT, PasvPortStart |-> 1,
             PasvPortEnd |-> MAX_PORT, TransferRate |-> -1,
             AllowAnonymous |-> TRUE, LogToSyslog |-> FALSE,
             AnonRootDir |-> "NULL"]

-----------------------------------------------------------------------------

\* Whether trim_whitespace leaves nothing.  It skips blanks from the left,
\* which a carriage return is not, then whitespace from the right: when the
\* line is blanks and a carriage return, it passes over the whole line and
\* puts the 0 before the carriage return that is taken for the line's text.
\* When the line is a carriage return alone, it looks at the byte in front of
\* the buffer, the last one of the size that malloc() keeps there: not a blank.
Blank(line) == line.size = 0 /\ (line.cr = 0 \/ line.indent = 0)

InRange(v) == -INT_MAX - 1 <= v /\ v <= INT_MAX

\* What parse_attribute returns.
parse_attribute(line) ==
  CASE Blank(line) -> "FTP_PARSER_SUCCESS"
    [] ~Blank(line) /\ line.kind \in {"none", "blank"} ->
         "FTP_PARSER_MISSING_ARGUMENT"
    [] line.kind \in {"junk", "value"} /\ line.name \notin Options ->
         "FTP_PARSER_UNKNOWN_OPTION"
    [] line.name \in IntOptions /\ line.kind = "junk" -> "FTP_PARSER_NAN"
    [] line.name \in IntOptions /\ line.kind = "value" ->
         IF InRange(line.value) THEN "FTP_PARSER_SUCCESS"
         ELSE "FTP_PARSER_RANGE"
    [] OTHER -> "FTP_PARSER_SUCCESS"

\* What it assigns.  Any text but that of a true value makes a bool false.
Value(line) ==
  IF line.kind = "junk" /\ line.name \in BoolOptions THEN FALSE
  ELSE line.value

Assigned(cfg, line) ==
  IF line.name \in Options /\ parse_attribute(line) = "FTP_PARSER_SUCCESS"
  THEN [cfg EXCEPT ![line.name] = Value(line)]
  ELSE cfg

\* check_config: may the daemon run with this?
check_config(cfg) ==
  /\ cfg.LocalPort \in 0..MAX_PORT
  /\ cfg.TransferRate >= -1
  /\ cfg.PasvPortStart \in 0..MAX_PORT /\ cfg.PasvPortEnd \in 0..MAX_PORT
  /\ cfg.PasvPortStart <= cfg.PasvPortEnd
  /\ cfg.AllowAnonymous => cfg.AnonRootDir # "NULL"

-----------------------------------------------------------------------------
(***************************************************************************)
(* The loop of parse_config.  Its condition is on the start of the line it *)
(* has just finished.                                                      *)
(***************************************************************************)

\* Mutant of More: off by one.
More_off_by_one == start <= length

More == start < length

\* The end of the mapping, to the page.
Mapped == ((length + PAGE_SIZE - 1) \div PAGE_SIZE) * PAGE_SIZE

Comment(line) == line.name = "#" /\ line.indent = 0

\* Mutant of Grow: no room for the 0 at the end.
Grow_exact(size, n) == IF size < n THEN n ELSE size

\* The buffer for a line of n characters.
Grow(size, n) == IF size <= n THEN n + 1 ELSE size

\* Where the next turn of the loop starts, one behind the end of the line.
NextStart == end + 1

\* The line that the next turn of the loop is about.
Current == file[linenum + 1]
AtLine == More /\ NextStart < length

NextLine ==
  /\ start' = NextStart
  /\ end' = NextStart + LineSize(Current)
  /\ linenum' = linenum + 1
  /\ UNCHANGED fileVars

\* An empty line, or a comment.
SkipLine ==
  /\ AtLine
  /\ LineSize(Current) = 0 \/ Comment(Current)
  /\ NextLine
  /\ UNCHANGED <<config, tmplen, written>>

\* A line that is copied to the buffer and handed to parse_attribute, with
\* this result.
ParseLine(result) ==
  /\ AtLine
  /\ LineSize(Current) > 0 /\ ~Comment(Current)
  /\ NextLine
  /\ tmplen' = Grow(tmplen, LineSize(Current))
  /\ written' = LineSize(Current) + 1
  /\ result = parse_attribute(Current)
  /\ config' = Assigned(config, Current)

\* The last turn of the loop, which finds no line: it looks at the character
\* at NextStart, one or two behind the last of the file.
LookPastEnd ==
  /\ More /\ NextStart >= length
  /\ start' = NextStart /\ end' = NextStart
  /\ linenum' = linenum + 1
  /\ UNCHANGED <<fileVars, config, tmplen, written>>

=============================================================================
