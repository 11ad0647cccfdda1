---------------------------- MODULE MCTransfer ----------------------------
(* Instances of Transfer for TLC. *)
EXTENDS Transfer

\* The clock is set forward or back by less and by more than a window.
MCJumps == {-3, -1, 1, 3}

=============================================================================
