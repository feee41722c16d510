------------------------------ MODULE Lwm2mClient ------------------------------
(***************************************************************************)
(* The LWM2M client: user_task (user.c) and lwm2m_client_task_runner        *)
(* (uiso_lightclient.c) over the connection of NetworkConnection.  The      *)
(* wakaama library is not part of the repository: within lwm2m_step,        *)
(* lwm2m_handle_packet and lwm2m_close it may open a connection if it has   *)
(* none, and send on it or close it if it has one.  The hardcoded security  *)
(* object has one server, so there is one connection at a time.             *)
(***************************************************************************)
EXTENDS NetworkConnection

CONSTANTS MaxClockSets   \* bound on settings of the clock since the reset

ASSUME ClientAssumption == MaxClockSets \in Nat

VARIABLES
  cpc,       \* where the client task is
  conn,      \* data.connList # NULL: the session handle of wakaama
  rxBit,     \* lwm2m_notify_message_reception is notified
  caller,    \* the library function a send returns to
  clockSets  \* settings of the clock so far

clientVars == <<cpc, conn, rxBit, caller, clockSets>>
vars == <<networkVars, clientVars>>

ClientPositions == {"delay", "loop", "reading", "step", "connecting",
                    "sending", "wait", "close", "failed", "fault"}

TypeOK ==
  /\ NetworkTypeOK
  /\ cpc \in ClientPositions
  /\ conn \in BOOLEAN
  /\ rxBit \in BOOLEAN
  /\ caller \in {"step", "close"}
  /\ clockSets \in 0..MaxClockSets

\* wifi_task has resumed user_task for the first time.
Init ==
  /\ NetworkInit
  /\ cpc = "delay" /\ conn = FALSE /\ rxBit = FALSE /\ caller = "step"
  /\ clockSets = 0

ClientGoto(from, to) == cpc = from /\ cpc' = to

-----------------------------------------------------------------------------
(* lwm2m_client_task_runner.                                               *)

\* user_task calls the runner, which clears its data and makes the objects;
\* it can fail for lack of memory.
StartClient ==
  /\ ClientGoto("delay", "loop")
  /\ conn' = FALSE
  /\ UNCHANGED <<networkVars, rxBit, caller, clockSets>>
StartFails ==
  /\ ClientGoto("delay", "failed")
  /\ conn' = FALSE
  /\ UNCHANGED <<networkVars, rxBit, caller, clockSets>>

\* xTaskNotifyWait without a reception bit.  The other bits (registration,
\* timestamp, temperature, accelerometer) only make the library send later.
NoReception ==
  /\ ClientGoto("loop", "step")
  /\ ~rxBit
  /\ UNCHANGED <<networkVars, conn, rxBit, caller, clockSets>>

\* With the reception bit the packet is read through data.connList.
Reception ==
  /\ ClientGoto("loop", "reading")
  /\ rxBit /\ conn
  /\ Read
  /\ rxBit' = FALSE
  /\ UNCHANGED <<conn, caller, clockSets>>

\* data.connList is NULL: the read function is taken from an arbitrary place.
ReceptionWithoutConnection ==
  /\ ClientGoto("loop", "fault")
  /\ rxBit /\ ~conn
  /\ rxBit' = FALSE
  /\ UNCHANGED <<networkVars, conn, caller, clockSets>>

\* The packet goes to the library if there is one; what the library does with
\* it is a part of the step.
ReadReturns ==
  /\ ClientGoto("reading", "step")
  /\ npc = "idle"
  /\ UNCHANGED <<networkVars, conn, rxBit, caller, clockSets>>

\* lwm2m_step has done what it had to do.
StepDone ==
  /\ ClientGoto("step", "wait")
  /\ UNCHANGED <<networkVars, conn, rxBit, caller, clockSets>>
StepFails ==
  /\ ClientGoto("step", "close")
  /\ UNCHANGED <<networkVars, conn, rxBit, caller, clockSets>>

\* wait_for_rx: the mediator reports the descriptor of the context, which it
\* watches if it is positive, or the time is over.
WaitReports ==
  /\ ClientGoto("wait", "loop")
  /\ sd > 0
  /\ rxBit' = TRUE
  /\ UNCHANGED <<networkVars, conn, caller, clockSets>>
WaitEnds ==
  /\ ClientGoto("wait", "loop")
  /\ UNCHANGED <<networkVars, conn, rxBit, caller, clockSets>>

\* connection_free and the end of the runner; a connection the library has
\* left is closed.  user_task waits for a minute.
EndClient ==
  /\ ClientGoto("close", "delay")
  /\ IF conn THEN CloseConnection ELSE UNCHANGED <<sd, open>>
  /\ UNCHANGED <<protocol, age, tlsVars, npc, ret, message, conn, rxBit,
                 caller, clockSets>>

-----------------------------------------------------------------------------
(* The functions wakaama calls.                                            *)

\* lwm2m_connect_server
Connect ==
  /\ ClientGoto("step", "connecting")
  /\ ~conn
  /\ CreateConnection \/ CreateFails
  /\ UNCHANGED <<conn, rxBit, caller, clockSets>>

\* Mutated form: whatever the handshake returns, there is a connection.
CreatedAnyway == sd # NoSd

\* connection_create gives a connection if all went well.
Created == ret = "ok"

\* Its end: a connection, or mbedtls_cleanup.
ConnectReturns ==
  /\ ClientGoto("connecting", "step")
  /\ npc = "idle"
  /\ conn' = Created
  /\ session' = IF Created THEN session ELSE "freed"
  /\ UNCHANGED <<ctxVars, bio, blind, npc, ret, message, rxBit, caller,
                 clockSets>>

\* lwm2m_buffer_send
SendMessage(m) ==
  /\ cpc \in {"step", "close"} /\ cpc' = "sending"
  /\ conn
  /\ Send(m)
  /\ caller' = cpc
  /\ UNCHANGED <<conn, rxBit, clockSets>>
SendMessageReturns ==
  /\ ClientGoto("sending", caller)
  /\ npc = "idle"
  /\ UNCHANGED <<networkVars, conn, rxBit, caller, clockSets>>

\* lwm2m_close_connection: ssl_context is freed, the connection forgotten; the
\* descriptor stays open, and in ctx->sd.
CloseSession ==
  /\ cpc \in {"step", "close"} /\ UNCHANGED cpc
  /\ conn /\ conn' = FALSE
  /\ session' = "freed"
  /\ UNCHANGED <<ctxVars, bio, blind, npc, ret, message, rxBit, caller,
                 clockSets>>

-----------------------------------------------------------------------------
(* The rest of the system.                                                 *)

\* uiso_reset of user_task after a failed start; the watchdog after a fault.
Reset ==
  /\ cpc \in {"failed", "fault"}
  /\ sd' = NoSd /\ protocol' = "none" /\ open' = {} /\ age' = 0
  /\ session' = "freed" /\ bio' = FALSE /\ blind' = 0
  /\ npc' = "idle" /\ ret' = "ok" /\ message' = "fits"
  /\ cpc' = "delay" /\ conn' = FALSE /\ rxBit' = FALSE /\ caller' = "step"
  /\ clockSets' = 0

TimePasses == Tick /\ UNCHANGED clientVars

ClockIsSet ==
  /\ clockSets < MaxClockSets /\ clockSets' = clockSets + 1
  /\ \E a \in 0..(IdleLimit + 1) : SetClock(a)
  /\ UNCHANGED <<cpc, conn, rxBit, caller>>

InConnection == NetworkStep /\ UNCHANGED clientVars

Next ==
  \/ StartClient \/ StartFails
  \/ NoReception \/ Reception \/ ReceptionWithoutConnection \/ ReadReturns
  \/ StepDone \/ StepFails \/ WaitReports \/ WaitEnds \/ EndClient
  \/ Connect \/ ConnectReturns
  \/ \E m \in Messages : SendMessage(m)
  \/ SendMessageReturns
  \/ CloseSession
  \/ InConnection
  \/ Reset \/ TimePasses \/ ClockIsSet

Spec == Init /\ [][Next]_vars

(***************************************************************************)
(* Fairness.  The task runs, and time passes.  The registration timer makes *)
(* the library send again and again while it has a connection (user.c).     *)
(* Of a network that is tried again and again: a handshake, a reset and a   *)
(* write succeed at some time.                                              *)
(***************************************************************************)
Task ==
  \/ StartClient \/ NoReception \/ Reception \/ ReceptionWithoutConnection
  \/ ReadReturns \/ StepDone \/ WaitEnds \/ EndClient
  \/ ConnectReturns \/ SendMessageReturns
  \/ InConnection /\ networkVars' # networkVars

Fairness ==
  /\ WF_vars(Task)
  /\ WF_vars(TimePasses)
  /\ SF_vars(SendMessage("fits"))
  /\ SF_vars(RenegReset(TRUE, TRUE) /\ UNCHANGED clientVars)
  /\ SF_vars(RenegHandshake(TRUE) /\ UNCHANGED clientVars)
  /\ SF_vars(Write /\ UNCHANGED clientVars)

FairSpec == Spec /\ Fairness

-----------------------------------------------------------------------------
(* Properties.                                                             *)

\* The session handle wakaama has stands for an open descriptor and a live
\* ssl_context with a transport, at every call and between the calls: no path
\* of lwm2m_connect_server gives a handle and then frees what is behind it.
ConnectionIsUsable ==
  conn /\ cpc # "delay" => sd \in open /\ bio /\ session # "freed"

\* mbedtls_ssl_write is only called in an established session, on whatever
\* path _send_dtls comes to it (else it would start a handshake of its own
\* outside the code's error handling).
WritesInSession == npc = "write" => session = "up" /\ conn

\* The transport is missing in one handshake after a reset at most: the first
\* connection is made before ctx->protocol is set, every later one after.
BlindHandshakeOnce == blind <= 1

\* A send of a message that fits a record returns, however often the write
\* fails and the session is made anew.
SendsReturn ==
  (cpc = "sending" /\ message = "fits") ~> (cpc # "sending")

\* A connection whose session was lost, by a failed read, send or
\* renegotiation, has a session again in the end or is given up: sends are
\* refused until the pause is long enough for a new handshake, and refused
\* sends do not shorten the pause.
SessionRecovers ==
  (conn /\ session # "up") ~> (session = "up" \/ ~conn)

\* "Retry in 1m" (user.c): a retry can succeed, so the network processor has
\* a descriptor for it.
RetryFindsSocket == npc = "socket" => open # Sds

=============================================================================
