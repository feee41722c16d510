----------------------------- MODULE WifiService -----------------------------
(***************************************************************************)
(* The connection manager of src/wifi_service.c: wifi_task, the SimpleLink *)
(* event handlers and the SNTP timer.                                      *)
(*                                                                         *)
(* The handlers run in the SimpleLink spawn task and the timer callback in *)
(* the timer daemon; both reach wifi_task only through the bits of its     *)
(* task notification.  Bits are OR-ed: when wifi_task is busy, most of all *)
(* in uiso_sntp_request, events pile up in one value and their order is    *)
(* lost.                                                                   *)
(***************************************************************************)
EXTENDS Naturals

CONSTANT MaxEvents  \* bound: events of the network processor in a behaviour

ASSUME WifiAssumption == MaxEvents \in Nat

VARIABLES
  link,       \* the access point association the network processor has
  connection, \* wifi_status.connection
  ip,         \* wifi_status.ip
  pending,    \* wifi_task has a notification it has not received
  bits,       \* its notification value, without WIFI_PENDING_STATE
  wpc,        \* where wifi_task is
  val,        \* its local ulNotifiedValue
  timer,      \* sntp_sync_timer: "off", or the period it is active with
  synced,     \* sntp_sync_state
  suspended,  \* tasks wifi_task keeps suspended
  events,     \* events so far (bounded)
  everSynced, \* history: some SNTP request succeeded
  mixed       \* history: the last link bits came as connected + disconnected

vars == <<link, connection, ip, pending, bits, wpc, val, timer, synced,
          suspended, events, everSynced, mixed>>
statusVars  == <<link, connection, ip>>
managerVars == <<wpc, val, timer, synced, suspended, everSynced, mixed>>

Connections == {"disconnected", "connecting", "connected"}
IpStates    == {"none", "ip_acquired", "ip_released"}
Bits == Connections \cup {"ip_acquired", "ip_released", "ntp_timer",
                          "ntp_synced"}
Periods   == {"5s", "16s", "long"}
UserTasks == {"user", "monitor", "mqtt"}

\* In uiso_sntp_request: looking up the server and sending, in sl_RecvFrom
\* with the answer to come or lost, and with the answer.
RequestPcs == {"ntp", "asked", "lost", "answered"}

TypeOK ==
  /\ link \in BOOLEAN /\ connection \in Connections /\ ip \in IpStates
  /\ pending \in BOOLEAN /\ bits \subseteq Bits
  /\ wpc \in {"setup", "wait", "handle"} \cup RequestPcs /\ val \subseteq Bits
  /\ timer \in Periods \cup {"off"}
  /\ synced \in BOOLEAN /\ suspended \subseteq UserTasks
  /\ events \in Nat
  /\ everSynced \in BOOLEAN /\ mixed \in BOOLEAN

\* wifi_task begins; the other tasks have suspended themselves.
Init ==
  /\ link = FALSE /\ connection = "disconnected" /\ ip = "none"
  /\ pending = FALSE /\ bits = {}
  /\ wpc = "setup" /\ val = {}
  /\ timer = "off" /\ synced = FALSE
  /\ suspended = UserTasks
  /\ events = 0
  /\ everSynced = FALSE /\ mixed = FALSE

\* xTaskNotify(wifi_task_handle, value | WIFI_PENDING_STATE, eSetBits)
Notify(value) ==
  /\ pending' = TRUE
  /\ bits' = bits \cup value

-----------------------------------------------------------------------------
(* SimpleLink events.                                                      *)

Event ==
  /\ events < MaxEvents
  /\ events' = events + 1
  /\ UNCHANGED managerVars

\* CC3100_WlanEvtHdlr: whatever the event, the status is notified.
WlanEvent(up, status) ==
  /\ Event
  /\ link' = up
  /\ connection' = status
  /\ Notify({status})
  /\ UNCHANGED ip

\* SL_WLAN_CONNECT_EVENT, SL_WLAN_DISCONNECT_EVENT,
\* SL_WLAN_CONNECTION_FAILED_EVENT, and any other WLAN event.
WlanConnected     == ~link /\ WlanEvent(TRUE, "connected")
WlanDisconnected  == link /\ WlanEvent(FALSE, "disconnected")
WlanConnectFailed == ~link /\ WlanEvent(FALSE, "disconnected")
WlanOther         == WlanEvent(link, connection)

\* CC3100_NetAppEvtHdlr
NetAppEvent(status) ==
  /\ Event
  /\ ip' = status
  /\ Notify({status} \ {"none"})
  /\ UNCHANGED <<link, connection>>

IpAcquired  == link /\ NetAppEvent("ip_acquired")
IpReleased  == NetAppEvent("ip_released")
NetAppOther == NetAppEvent(ip)

\* sntp_sync_timer_callback; the timer reloads itself.
TimerFires ==
  /\ timer # "off"
  /\ Notify({"ntp_timer"})
  /\ UNCHANGED <<statusVars, managerVars, events>>

-----------------------------------------------------------------------------
(* wifi_task.                                                              *)

\* The setup of the network processor disconnects, stops and starts it again,
\* which ends an association its own policy had made, and then connects.
StartConnection ==
  /\ wpc = "setup"
  /\ wpc' = "wait"
  /\ link' = FALSE
  /\ connection' = "connecting"
  /\ UNCHANGED <<ip, pending, bits, val, timer, synced, suspended,
                 events, everSynced, mixed>>

\* xTaskNotifyWait(WIFI_PENDING_STATE, UINT32_MAX, &ulNotifiedValue, ...)
\* returns pdTRUE: every bit is taken and cleared.
Receive ==
  /\ wpc = "wait" /\ pending
  /\ wpc' = "handle"
  /\ val' = bits
  /\ bits' = {} /\ pending' = FALSE
  /\ UNCHANGED <<statusVars, timer, synced, suspended, events, everSynced,
                 mixed>>

\* It returns pdFALSE after WIFI_EVENT_MANAGER_TIMEOUT: "No event".
NoEvent ==
  /\ wpc = "wait" /\ ~pending
  /\ UNCHANGED vars

\* The connected branch: start the SNTP timer, 5 s or 16 s.
AfterConnected(t) ==
  IF "connected" \notin val THEN t ELSE IF synced THEN "16s" ELSE "5s"

\* The disconnected branch: stop the timer, suspend the tasks.
AfterDisconnected(t) == IF "disconnected" \in val THEN "off" ELSE t
Suspend(s) == IF "disconnected" \in val THEN UserTasks ELSE s

\* The IP acquired branch: resume the network monitor task.
ResumeMonitor(s) == IF "ip_acquired" \in val THEN s \ {"monitor"} ELSE s

\* Mutated form: the user task is resumed as soon as there is an address.
ResumeUserOnIp(s) == IF "ip_acquired" \in val THEN s \ {"user"} ELSE s

\* Mutated form: the synced branch is nested in the IP acquired branch.
ResumeUserWithIp(s) ==
  IF {"ntp_synced", "ip_acquired"} \subseteq val THEN s \ {"user"} ELSE s

\* The synced branch: resume the user task (the MQTT task is not resumed).
ResumeUser(s) == IF "ntp_synced" \in val THEN s \ {"user"} ELSE s

\* The branches of one pass in the order of the code, up to the SNTP request
\* if the timer bit is set, else to the end of the pass.
Handle ==
  /\ wpc = "handle"
  /\ mixed' = IF val \cap {"connected", "disconnected"} # {}
              THEN {"connected", "disconnected"} \subseteq val
              ELSE mixed
  /\ LET t == AfterDisconnected(AfterConnected(timer))
         s == ResumeMonitor(Suspend(suspended))
     IN  IF "ntp_timer" \in val
         THEN /\ wpc' = "ntp"
              /\ timer' = "off"
              /\ suspended' = s
              /\ UNCHANGED val
         ELSE /\ wpc' = "wait"
              /\ timer' = t
              /\ suspended' = ResumeUser(s)
              /\ val' = {}
  /\ UNCHANGED <<statusVars, pending, bits, synced, events, everSynced>>

\* Mutated form: after a failed request the timer stays stopped.
NextPeriodOnlyOnSuccess(ok) == IF ok THEN "long" ELSE "off"

\* Mutated form: time_to_next_sync is used as it comes, 0 after a failure.
NextPeriodZero(ok) == IF ok THEN "long" ELSE "0s"

\* xTimerChangePeriod after the request: time_to_next_sync, or 16 s.
NextPeriod(ok) == IF ok THEN "long" ELSE "16s"

RequestStep(from, to) ==
  /\ wpc = from
  /\ wpc' = to
  /\ UNCHANGED <<statusVars, pending, bits, val, timer, synced, suspended,
                 events, everSynced, mixed>>

\* uiso_sntp_request finds the server over the link and sends; then it blocks
\* in sl_RecvFrom, which has no timeout.
Ask == link /\ RequestStep("ntp", "asked")

\* The answer arrives, or it is lost, and then nothing ends the wait.
ReplyArrives == link /\ RequestStep("asked", "answered")
ReplyLost == RequestStep("asked", "lost")

\* uiso_sntp_request returns.  It succeeds only with an answer, whether or not
\* the link is still there; it fails when the lookup, the sending or the
\* receiving do, or when it does not accept the answer.  The timer is
\* restarted, success is announced to wifi_task itself, and the pass ends with
\* the synced branch of the value it began with.
NtpDone(ok) ==
  /\ wpc \in RequestPcs
  /\ ok => wpc = "answered"
  /\ wpc' = "wait"
  /\ synced' = ok
  /\ everSynced' = (everSynced \/ ok)
  /\ timer' = NextPeriod(ok)
  /\ IF ok THEN Notify({"ntp_synced"}) ELSE UNCHANGED <<pending, bits>>
  /\ suspended' = ResumeUser(suspended)
  /\ val' = {}
  /\ UNCHANGED <<statusVars, events, mixed>>

Next ==
  \/ WlanConnected \/ WlanDisconnected \/ WlanConnectFailed \/ WlanOther
  \/ IpAcquired \/ IpReleased \/ NetAppOther
  \/ TimerFires
  \/ StartConnection \/ Receive \/ NoEvent \/ Handle
  \/ Ask \/ ReplyArrives \/ ReplyLost
  \/ \E ok \in BOOLEAN : NtpDone(ok)

Spec == Init /\ [][Next]_vars

(***************************************************************************)
(* Fairness.  wifi_task is scheduled and an active timer expires.  Among   *)
(* requests tried again and again over a link some are sent, some of those *)
(* are answered, and some of the answers are accepted.  Nothing is assumed *)
(* of the events, nor of any one request: once its datagram is lost it     *)
(* stays in sl_RecvFrom, unless that returns an error.                     *)
(***************************************************************************)
WifiTask ==
  \/ StartConnection \/ Receive \/ Handle
  \/ wpc \notin {"asked", "lost"} /\ NtpDone(FALSE)

Fairness ==
  /\ WF_vars(WifiTask)
  /\ WF_vars(TimerFires)
  /\ SF_vars(Ask)
  /\ SF_vars(ReplyArrives)
  /\ SF_vars(NtpDone(TRUE))

FairSpec == Spec /\ Fairness

-----------------------------------------------------------------------------
(* Properties.                                                             *)

\* wifi_task waits and no notification is outstanding.
Quiescent == wpc = "wait" /\ ~pending

\* The LWM2M client needs the time to check certificates: the user task is
\* not resumed before some SNTP request has succeeded, however the bits of
\* timer, synced and link events are combined.
UserRunsOnlyAfterSync == "user" \notin suspended => everSynced

\* Once wifi_task has handled everything while the link is up, the next SNTP
\* request is scheduled, provided that connected and disconnected did not
\* reach it in one value.
SyncIsScheduled == Quiescent /\ link /\ ~mixed => timer # "off"

\* If the link comes up for good, and not in one value with a disconnection,
\* then the user task is resumed and stays so, or wifi_task is stuck in one
\* request: whatever was combined or lost before, the only thing that can keep
\* the user task suspended is an answer that is lost (uiso_ntp.c:142).
UserRunsInTheEnd ==
  <>[](link /\ ~mixed)
    => <>[]("user" \notin suspended) \/ <>[](wpc = "lost")

\* "Start NTP Syncing in 5s" (wifi_service.c, connected branch): once the
\* events of a link that is up are handled, the timer runs.
ConnectedStartsTimer == Quiescent /\ link => timer # "off"

\* "Suspend LWM2M Task" (wifi_service.c, disconnected branch): once the
\* events are handled, the user task does not run without a link.
DisconnectedSuspendsUser ==
  Quiescent /\ connection = "disconnected" => "user" \in suspended

=============================================================================
