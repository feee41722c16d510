--------------------------- MODULE ReadinessWait ---------------------------
(***************************************************************************)
(* What enqueue_select_rx and enqueue_select_tx (src/network.c) promise    *)
(* their callers, without mutex, deadlines, semaphores and select_task: a  *)
(* call is armed, may be reported to, may lose its report, and returns 0   *)
(* exactly when it ends with a report.                                     *)
(***************************************************************************)
CONSTANT Callers   \* tasks that wait for a socket

VARIABLES
  phase,   \* of the call in progress of each caller
  result   \* what its last call returned

vars == <<phase, result>>

Init ==
  /\ phase = [c \in Callers |-> "idle"]
  /\ result = [c \in Callers |-> "none"]

\* A call is entered; the result of the one before is forgotten.
Enter(c) ==
  /\ phase[c] = "idle"
  /\ result' = [result EXCEPT ![c] = "none"]
  /\ UNCHANGED phase

\* It has registered.
Arm(c) ==
  /\ phase[c] = "idle" /\ result[c] = "none"
  /\ phase' = [phase EXCEPT ![c] = "armed"]
  /\ UNCHANGED result

\* Calls that are armed move on together: some are reported to.
Report(C) ==
  /\ \A c \in C : phase[c] = "armed"
  /\ phase' = [c \in Callers |-> IF c \in C THEN "reported" ELSE phase[c]]
  /\ UNCHANGED result

\* Or they are dropped, or a report is lost before the caller has seen it.
Lose(C) ==
  /\ \A c \in C : phase[c] \in {"armed", "reported"}
  /\ phase' = [c \in Callers |-> IF c \in C THEN "lost" ELSE phase[c]]
  /\ UNCHANGED result

\* The call returns 0, and only on a report.
EndOk(c) ==
  /\ phase[c] = "reported"
  /\ phase' = [phase EXCEPT ![c] = "idle"]
  /\ result' = [result EXCEPT ![c] = "ok"]

\* The call returns -1, and never over a report it still has.
EndTimeout(c) ==
  /\ phase[c] \in {"armed", "lost"}
  /\ phase' = [phase EXCEPT ![c] = "idle"]
  /\ result' = [result EXCEPT ![c] = "timeout"]

\* The device restarts.
Restart ==
  /\ phase' = [c \in Callers |-> "idle"]
  /\ result' = [c \in Callers |-> "none"]

Next ==
  \/ \E c \in Callers : Enter(c) \/ Arm(c) \/ EndOk(c) \/ EndTimeout(c)
  \/ \E C \in SUBSET Callers : Report(C) \/ Lose(C)
  \/ Restart

Spec == Init /\ [][Next]_vars

=============================================================================
