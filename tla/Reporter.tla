----------------------------- MODULE Reporter -----------------------------
(***************************************************************************)
(* What the daemon may rely on about the reports of one session: a login   *)
(* comes first or not at all, and progress and the end of a transfer are   *)
(* reported after the start of that transfer, during which nothing else is *)
(* reported.  recv_xfer_stop reads the file name and the start time that   *)
(* earlier reports have left behind (state.c), and Daemon takes its        *)
(* environment to behave like this (Daemon!NextReports).  Nothing counts   *)
(* as a report once the daemon is gone.                                    *)
(***************************************************************************)
EXTENDS Naturals

VARIABLES
  last,    \* type of the last report, "none" before the first, "unread"
           \*   without the daemon
  toggle   \* changes with every report

Init == last = "none" /\ toggle = 0

Report(type) == last' = type /\ toggle' = 1 - toggle

InTransfer == last \in {"T_XFER_START", "T_XFER"}

Login == last = "none" /\ Report("T_LOGIN")
Chdir == ~InTransfer /\ last # "unread" /\ Report("T_CHDIR")
Start == ~InTransfer /\ last # "unread" /\ Report("T_XFER_START")
Progress == InTransfer /\ Report("T_XFER")
Stop == InTransfer /\ Report("T_XFER_STOP")

ReaderGone == last' = "unread" /\ toggle' = 0

Next == Login \/ Chdir \/ Start \/ Progress \/ Stop \/ ReaderGone

Spec == Init /\ [][Next]_<<last, toggle>>

=============================================================================
