--------------------------- MODULE CommandBuffer ---------------------------
(***************************************************************************)
(* The buffer between the control connection and the command handlers      *)
(* (read_cmd, parse_cmd and remove_cmd in server.c).  It holds dirty_len   *)
(* bytes that were received and not yet executed; what lies behind them is *)
(* left over from malloc() or from earlier commands.  parse_cmd writes     *)
(* into the buffer, and remove_cmd moves the rest to the front.            *)
(***************************************************************************)
EXTENDS Naturals, Sequences

CONSTANTS
  Bytes,     \* what the client sends: "NL", "CR", "SP" and others
  Stale,     \* what malloc() may leave in the buffer
  line_len,  \* COMMAND_BUFFER_SIZE
  MaxSent    \* bound on the bytes the client sends

ASSUME BufferAssumption ==
  /\ line_len \in Nat \ {0} /\ MaxSent \in Nat
  /\ "NUL" \notin Bytes /\ Stale \subseteq Bytes \cup {"NUL"}

VARIABLES
  pc,        \* "read", "execute", "left" (while executing), "closed" or "too_long"
  line,      \* the buffer
  dirty_len, \* how much of it has not been executed
  len,       \* the length of the command at its front, when executing
  net,       \* bytes on their way from the client
  sent,      \* how many bytes the client has sent
  command,   \* the command that was parsed last: [name, arg]
  count      \* how many were parsed

vars == <<pc, line, dirty_len, len, net, sent, command, count>>

Init ==
  /\ pc = "read"
  /\ line \in [1..line_len -> Stale]
  /\ dirty_len = 0 /\ len = 0
  /\ net = <<>> /\ sent = 0
  /\ command = [name |-> <<>>, arg |-> <<>>] /\ count = 0

\* memchr( line, '\n', n ) finds the i-th byte.
memchr(n, i) == i \in 1..n /\ line[i] = "NL" /\ \A j \in 1..(i - 1) : line[j] # "NL"

Complete == \E i \in 1..dirty_len : line[i] = "NL"

\* The C string at the i-th byte of the buffer b.
CString(b, i) ==
  LET end == CHOOSE k \in i..line_len : b[k] = "NUL" /\ \A j \in i..(k - 1) : b[j] # "NUL"
  IN  [k \in 1..(end - i) |-> b[i + k - 1]]

-----------------------------------------------------------------------------

\* The client sends a byte.
Send(c) ==
  /\ pc \in {"read", "execute"} /\ sent < MaxSent
  /\ net' = Append(net, c)
  /\ sent' = sent + 1
  /\ UNCHANGED <<pc, line, dirty_len, len, command, count>>

\* Mutant of read_cmd: one byte too many is accepted.
read_cmd_past_end ==
  /\ pc = "read" /\ ~Complete
  /\ \E n \in 1..Len(net) :
       /\ n <= line_len - dirty_len
       /\ line' = [i \in 1..line_len |->
                     IF i \in (dirty_len + 1)..(dirty_len + n) THEN net[i - dirty_len] ELSE line[i]]
       /\ dirty_len' = dirty_len + n
       /\ net' = SubSeq(net, n + 1, Len(net))
       /\ pc' = IF dirty_len' > line_len THEN "too_long" ELSE "read"
  /\ UNCHANGED <<len, sent, command, count>>

\* read_cmd, until there is a newline: recv() brings as much as there is and
\* fits, or less.  When the buffer is full the session ends with a 421,
\* whatever is in it.
read_cmd ==
  /\ pc = "read" /\ ~Complete
  /\ \E n \in 1..Len(net) :
       /\ n <= line_len - dirty_len
       /\ line' = [i \in 1..line_len |->
                     IF i \in (dirty_len + 1)..(dirty_len + n) THEN net[i - dirty_len] ELSE line[i]]
       /\ dirty_len' = dirty_len + n
       /\ net' = SubSeq(net, n + 1, Len(net))
       /\ pc' = IF dirty_len' >= line_len THEN "too_long" ELSE "read"
  /\ UNCHANGED <<len, sent, command, count>>

\* read_cmd returns FTP_QUIT or FTP_ERROR: the client is gone or timed out,
\* or a terminating signal came.
Quit ==
  /\ pc = "read" /\ ~Complete
  /\ pc' = "closed"
  /\ UNCHANGED <<line, dirty_len, len, net, sent, command, count>>

\* parse_cmd searches the whole buffer for the newline, ends the line and the
\* name with zeros in the buffer, and skips the blanks before the argument.
parse_cmd ==
  /\ pc = "read" /\ Complete
  /\ \E bufend \in 1..line_len :
       LET ended == [i \in 1..line_len |->
                       IF i = bufend \/ (i = bufend - 1 /\ line[i] = "CR") THEN "NUL" ELSE line[i]]
           text == CString(ended, 1)
           Spaces == {i \in 1..Len(text) : text[i] = "SP"}
           cmdend == CHOOSE i \in Spaces : \A j \in Spaces : i <= j
           Solid == {i \in (cmdend + 1)..Len(text) : text[i] \notin {"SP", "CR"}}
           argument == IF Solid = {} THEN Len(text) + 1
                       ELSE CHOOSE i \in Solid : \A j \in Solid : i <= j
       IN  /\ memchr(line_len, bufend)
           /\ len' = bufend
           /\ line' = IF Spaces = {} THEN ended ELSE [ended EXCEPT ![cmdend] = "NUL"]
           /\ command' = [name |-> CString(line', 1),
                          arg |-> IF Spaces = {} THEN <<>> ELSE CString(line', argument)]
  /\ count' = count + 1
  /\ pc' = "execute"
  /\ UNCHANGED <<dirty_len, net, sent>>

\* Mutant of remove_cmd: the newline stays behind.
remove_cmd_newline_left ==
  /\ pc = "execute"
  /\ line' = [i \in 1..line_len |-> IF i + len - 1 <= line_len THEN line[i + len - 1] ELSE line[i]]
  /\ dirty_len' = dirty_len - len + 1
  /\ pc' = "read"
  /\ UNCHANGED <<len, net, sent, command, count>>

\* The command was executed; remove_cmd moves the rest of the buffer, the
\* part that is not dirty included, to the front.
remove_cmd ==
  /\ pc = "execute"
  /\ IF len = dirty_len
     THEN /\ dirty_len' = 0
          /\ UNCHANGED line
     ELSE /\ line' = [i \in 1..line_len |->
                        IF i + len <= line_len THEN line[i + len] ELSE line[i]]
          /\ dirty_len' = dirty_len - len
  /\ pc' = "read"
  /\ UNCHANGED <<len, net, sent, command, count>>

\* do_cmd returned something else than FTP_SUCCESS: the session ends.
Leave ==
  /\ pc = "execute"
  /\ pc' = "left"
  /\ UNCHANGED <<line, dirty_len, len, net, sent, command, count>>

Next == read_cmd \/ Quit \/ parse_cmd \/ remove_cmd \/ Leave \/ \E c \in Bytes : Send(c)

Spec == Init /\ [][Next]_vars

-----------------------------------------------------------------------------
(***************************************************************************)
(* Properties                                                              *)
(***************************************************************************)

\* The received bytes and the command at hand lie within the buffer, and
\* recv() is never asked for zero bytes, which would look like the end of the
\* connection.
BufferInBounds ==
  /\ line \in [1..line_len -> Bytes \cup {"NUL"}]
  /\ dirty_len \in 0..line_len
  /\ pc = "read" => dirty_len < line_len
  /\ pc = "execute" => 0 < len /\ len <= dirty_len

\* The bytes the session has not executed yet.
Unexecuted ==
  (IF pc \in {"execute", "left"} 
   THEN SubSeq([i \in 1..dirty_len |-> line[i]], len + 1, dirty_len)
   ELSE [i \in 1..dirty_len |-> line[i]]) \o net

\* The buffer implements a queue of lines, however the bytes arrive and
\* whatever the buffer held before.
Q == INSTANCE LineQueue WITH stream <- Unexecuted, taken <- command, count <- count
ImplementsLineQueue == Q!Spec

=============================================================================
