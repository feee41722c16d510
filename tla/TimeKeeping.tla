----------------------------- MODULE TimeKeeping -----------------------------
(***************************************************************************)
(* What uiso_sntp_request (src/uiso_ntp.c) promises the rest of the system *)
(* about the local clock, without packets, timestamps, servers and         *)
(* network: how far a request may move the clock, when it may say that the *)
(* time is synchronised, and that it leaves no socket behind.              *)
(***************************************************************************)
EXTENDS Naturals

CONSTANTS
  BootTime,  \* true time at which the device starts for the first time
  EraEnd     \* first second a timestamp cannot tell from 1900

VARIABLES
  time,    \* true time
  clock,   \* the local clock
  half,    \* 1 from where a second of clock begins to where one of time does
  phase,   \* of the request in progress
  asked,   \* true time at which the last request asked for the time
  inEra,   \* the request carries a reading of the clock
  open,    \* a socket is open
  synced,  \* the last request has set the clock
  resets   \* resets of the device so far

vars == <<time, clock, half, phase, asked, inEra, open, synced, resets>>

Init ==
  /\ time = BootTime /\ clock = 0 /\ half \in 0..1
  /\ phase = "idle" /\ asked = 0 /\ inEra = FALSE
  /\ open = FALSE /\ synced = FALSE /\ resets = 0

\* A second of true time begins.
Second ==
  /\ half = 1
  /\ time' = time + 1 /\ half' = 0
  /\ UNCHANGED <<clock, phase, asked, inEra, open, synced, resets>>

\* A second of the local clock begins, between two of true time.
LocalSecond ==
  /\ half = 0
  /\ clock' = clock + 1 /\ half' = 1
  /\ UNCHANGED <<time, phase, asked, inEra, open, synced, resets>>

\* A request begins.
Begin ==
  /\ phase = "idle"
  /\ phase' = "begun"
  /\ UNCHANGED <<time, clock, half, asked, inEra, open, synced, resets>>

\* It asks for the time.
Ask ==
  /\ phase = "begun"
  /\ phase' = "asked"
  /\ asked' = time
  /\ inEra' = (clock < EraEnd)
  /\ open' = TRUE
  /\ UNCHANGED <<time, clock, half, synced, resets>>

\* It fails, possibly with a socket to close.
Fail ==
  /\ phase \in {"begun", "asked"}
  /\ phase' = "failed"
  /\ open' \in BOOLEAN
  /\ UNCHANGED <<time, clock, half, asked, inEra, synced, resets>>

\* How far a request may move the clock.  Never ahead of true time; back by no
\* more than the time since it asked, but for the two seconds that rounding two
\* timestamps can make; in the first boot to an error of no more than that time.
\* A request after the end of the era cannot tell its answer from others of the
\* new era.
Sound(t) ==
  /\ t \in 0..time
  /\ inEra => clock + asked <= t + time + 2
  /\ inEra /\ resets = 0 => asked <= t
  /\ ~inEra => EraEnd <= t + 1

\* The clock is set; the socket is closed by then.
Set(t) ==
  /\ phase = "asked"
  /\ Sound(t)
  /\ clock' = t
  /\ phase' = "set"
  /\ open' = FALSE
  /\ UNCHANGED <<time, half, asked, inEra, synced, resets>>

\* The request ends without setting the clock: the time counts as not
\* synchronised from then on.
GiveUp ==
  /\ phase \in {"begun", "asked", "failed"}
  /\ phase' = "idle" /\ inEra' = FALSE
  /\ open' = FALSE
  /\ synced' = FALSE
  /\ UNCHANGED <<time, clock, half, asked, resets>>

\* The request ends after it has set the clock, with success or without.
Done ==
  /\ phase = "set"
  /\ phase' = "idle" /\ inEra' = FALSE
  /\ synced' \in BOOLEAN
  /\ UNCHANGED <<time, clock, half, asked, open, resets>>

\* The device is reset, and its clock with it.
Restart ==
  /\ resets' = resets + 1
  /\ clock' = 0 /\ half' \in 0..1
  /\ phase' = "idle" /\ inEra' = FALSE
  /\ open' = FALSE /\ synced' = FALSE
  /\ UNCHANGED <<time, asked>>

Next ==
  \/ Second \/ LocalSecond \/ Begin \/ Ask \/ Fail
  \/ \E t \in 0..time : Set(t)
  \/ GiveUp \/ Done \/ Restart

Spec == Init /\ [][Next]_vars

=============================================================================
