---------------------------- MODULE ClientList ----------------------------
(***************************************************************************)
(* The daemon's list of client processes (child.c).  The C list is singly  *)
(* linked behind a dummy head node; here it is the sequence of the pids of *)
(* its nodes, head excluded.  What a node records about its client is kept *)
(* beside the list, in a function from pids to records.                    *)
(***************************************************************************)
EXTENDS Naturals, Sequences

\* The pids that occur in the list.
PidsOf(list) == {list[i] : i \in 1..Len(list)}

\* No pid has two nodes.
Distinct(list) == \A i, j \in 1..Len(list) : list[i] = list[j] => i = j

\* The list with its i-th node unlinked (prev->next = list->next).
Unlink(list, i) ==
  [j \in 1..(Len(list) - 1) |-> IF j < i THEN list[j] ELSE list[j + 1]]

\* add_client walks to the end and links the new node there.
add_client(list, pid) == Append(list, pid)

\* find_client returns the node with this pid, or NULL when there is none.
find_client(list, pid) == pid \in PidsOf(list)

\* Mutant of remove_client: the walk stops at the end of the list.
remove_client_last(list, pid) == Unlink(list, Len(list))

\* remove_client unlinks the first node with this pid.  When no node has it,
\* the loop steps past the last node and reads list->pid through NULL: the
\* warning after the loop is never reached (see Daemon!daemon_handle_signal).
remove_client(list, pid) ==
  LET first == CHOOSE i \in 1..Len(list) :
                 /\ list[i] = pid
                 /\ \A j \in 1..(i - 1) : list[j] # pid
  IN  Unlink(list, first)

count_clients(list) == Len(list)

\* The pids that remove_all_clients sends SIGTERM to; it frees every node.
remove_all_clients(list, kill_clients) ==
  IF kill_clients THEN PidsOf(list) ELSE {}

=============================================================================
