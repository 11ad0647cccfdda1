----------------------------- MODULE Calendar -----------------------------
(***************************************************************************)
(* From a number of days since 1970 to a date: is_leap and convert_time in *)
(* util.c, which MDTM and LIST use.  The time of the day is left out.  One *)
(* step is one turn of a loop; pc says which: "year", "month" or "done".   *)
(***************************************************************************)
EXTENDS Integers, Sequences

CONSTANT Inputs \* numbers of days since January 1, 1970

VARIABLES
  pc,
  input, \* the argument, in days
  days,  \* what is left of it
  year,
  month  \* 0 for January

vars == <<pc, input, days, year, month>>

Init ==
  /\ pc = "year" /\ input \in Inputs /\ days = input
  /\ year = 1970 /\ month = 0

\* What a call of is_leap can return.  A year that 400 divides fails all three
\* tests, and the function ends without a return statement.
is_leap(y) == IF y % 400 # 0 THEN {TRUE} ELSE BOOLEAN

days_in_month == <<31, 28, 31, 30, 31, 30, 31, 31, 30, 31, 30, 31>>

YearDays(leap) == IF leap THEN 366 ELSE 365

\* The loop over the years calls is_leap twice, in its condition and in its
\* body.
NextYear ==
  /\ pc = "year"
  /\ \E cond, body \in is_leap(year) :
       /\ days >= YearDays(cond)
       /\ days' = days - YearDays(body)
  /\ year' = year + 1
  /\ UNCHANGED <<pc, input, month>>

YearFound ==
  /\ pc = "year"
  /\ \E cond \in is_leap(year) : days < YearDays(cond)
  /\ pc' = "month"
  /\ UNCHANGED <<input, days, year, month>>

\* The length of the current month, which may depend on a call of is_leap.
MonthDays == {days_in_month[month + 1] + (IF month = 1 /\ leap THEN 1 ELSE 0) :
                leap \in is_leap(year)}

NextMonth ==
  /\ pc = "month"
  /\ \E n \in MonthDays : days >= n /\ days' = days - n
  /\ month' = month + 1
  /\ UNCHANGED <<pc, input, year>>

MonthFound ==
  /\ pc = "month"
  /\ \E n \in MonthDays : days < n
  /\ pc' = "done"
  /\ UNCHANGED <<input, days, year, month>>

Next == NextYear \/ YearFound \/ NextMonth \/ MonthFound

Spec == Init /\ [][Next]_vars

-----------------------------------------------------------------------------
(***************************************************************************)
(* What a comment in the source says, and the code does not do             *)
(***************************************************************************)

\* The years with a February 29, which the three tests of is_leap, with their
\* senses inverted, would find.
LeapYear(y) == y % 400 = 0 \/ (y % 100 # 0 /\ y % 4 = 0)

\* util.c:60 "Februari of course sometimes has 29 days": in leap years, that
\* is, and in no other.
FebruarySometimes29 ==
  pc = "done" /\ month = 1 /\ days + 1 = 29 => LeapYear(year)

=============================================================================
