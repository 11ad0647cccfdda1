---------------------------- MODULE MCCalendar ----------------------------
(* An instance of Calendar for TLC. *)
EXTENDS Calendar

\* A month of every year until 2002, at the end of February.
MCInputs == {366 * n + 59 : n \in 0..32}

=============================================================================
