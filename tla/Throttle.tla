----------------------------- MODULE Throttle -----------------------------
(***************************************************************************)
(* The bandwidth cap on a transfer (throttle.c, msecdiff in util.c).  Time *)
(* is counted from the start of the transfer, in milliseconds; sizes are   *)
(* in units of the model.  throttle_pause measures with gettimeofday(),    *)
(* whose clock may be set while a transfer runs, but sleeps in real time.  *)
(* What it reports to the daemon is part of Session.                       *)
(***************************************************************************)
EXTENDS Integers

CONSTANTS
  throttle_rate,  \* config.throttle_rate: size per millisecond, < 1 for no cap
  PROBE_INTERVAL  \* the literal 500 in throttle_pause

ASSUME ThrottleAssumption ==
  /\ throttle_rate \in Nat \cup {-1}
  /\ PROBE_INTERVAL \in Nat

VARIABLES
  now,        \* real time since the transfer started
  skew,       \* what the clock has been set forward by since then
  xfer_probe, \* session->info.xfer_probe: when, by the clock, the window began
  probe_len   \* session->info.probe_len: what was sent in the window

throttleVars == <<now, skew, xfer_probe, probe_len>>

\* What gettimeofday() returns.
Clock == now + skew

\* msecdiff( &now, &then ).
diff == Clock - xfer_probe

\* The start of a transfer, when the time is taken.
ResetProbe ==
  /\ now' = 0 /\ skew' = 0 /\ xfer_probe' = 0 /\ probe_len' = 0

\* Time passes outside of throttle_pause, and something was sent.
Probe(delay, size) ==
  /\ now' = now + delay
  /\ probe_len' = probe_len + size
  /\ UNCHANGED <<skew, xfer_probe>>

\* The system's clock is set.
SetClock(jump) ==
  /\ skew' = skew + jump
  /\ UNCHANGED <<now, xfer_probe, probe_len>>

\* Mutant of Sleep: nothing is paid for before the window is over.
Sleep_late(size, elapsed) ==
  IF throttle_rate < 1 \/ elapsed <= PROBE_INTERVAL
     \/ size \div throttle_rate < elapsed
  THEN 0 ELSE size \div throttle_rate - elapsed

\* How long nanosleep() is called for, its resumptions included, when size
\* was sent since the window began.
Sleep(size, elapsed) ==
  IF throttle_rate < 1 \/ size \div throttle_rate < elapsed
  THEN 0 ELSE size \div throttle_rate - elapsed

\* throttle_pause.  A clock that runs backwards only begins the window anew,
\* what was sent in it included.  Otherwise a window that has lasted long
\* enough ends before the sleep that pays for it, and the sleep is part of
\* the next window.
throttle_pause ==
  \/ /\ diff < 0
     /\ xfer_probe' = Clock
     /\ UNCHANGED <<now, skew, probe_len>>
  \/ /\ diff >= 0
     /\ xfer_probe' = IF diff > PROBE_INTERVAL THEN Clock ELSE xfer_probe
     /\ probe_len' = IF diff > PROBE_INTERVAL THEN 0 ELSE probe_len
     /\ now' = now + Sleep(probe_len, diff)
     /\ UNCHANGED skew

=============================================================================
