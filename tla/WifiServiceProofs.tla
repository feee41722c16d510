-------------------------- MODULE WifiServiceProofs --------------------------
(***************************************************************************)
(* Proofs about WifiService, for any number of network events.             *)
(***************************************************************************)
EXTENDS WifiService, TLAPS

\* The link and NetApp events of the SimpleLink handlers.
NetworkEvent ==
  \/ WlanConnected \/ WlanDisconnected \/ WlanConnectFailed \/ WlanOther
  \/ IpAcquired \/ IpReleased \/ NetAppOther

\* Every variable keeps its type; notification values hold known bits only.
THEOREM TypeCorrect == Spec => []TypeOK
<1> USE DEF TypeOK
<1>1. Init => TypeOK
  <2> SUFFICES ASSUME Init PROVE TypeOK
    OBVIOUS
  <2>1. connection \in Connections /\ ip \in IpStates
    BY DEF Init, Connections, IpStates
  <2>2. bits \subseteq Bits /\ val \subseteq Bits /\ suspended \subseteq UserTasks
    BY DEF Init
  <2>3. link \in BOOLEAN /\ pending \in BOOLEAN /\ synced \in BOOLEAN
        /\ everSynced \in BOOLEAN /\ mixed \in BOOLEAN
    BY DEF Init
  <2>4. wpc \in {"setup", "wait", "handle"} \cup RequestPcs
        /\ timer \in Periods \cup {"off"}
        /\ events \in Nat
    BY DEF Init
  <2>5. QED
    BY <2>1, <2>2, <2>3, <2>4
<1>2. TypeOK /\ [Next]_vars => TypeOK'
  <2> SUFFICES ASSUME TypeOK, [Next]_vars PROVE TypeOK'
    OBVIOUS
  <2>1. ASSUME NEW up \in BOOLEAN, NEW status \in Connections,
               WlanEvent(up, status)
        PROVE  TypeOK'
    <3>1. bits' \subseteq Bits /\ pending' \in BOOLEAN
      BY <2>1 DEF WlanEvent, Notify, Bits
    <3>2. link' \in BOOLEAN /\ connection' \in Connections /\ ip' \in IpStates
          /\ events' \in Nat
      BY <2>1 DEF WlanEvent, Event
    <3>3. QED
      BY <2>1, <3>1, <3>2 DEF WlanEvent, Event, managerVars
  <2>2. ASSUME NEW status \in IpStates, NetAppEvent(status)
        PROVE  TypeOK'
    <3>1. bits' \subseteq Bits /\ pending' \in BOOLEAN
      BY <2>2 DEF NetAppEvent, Notify, Bits, IpStates
    <3>2. ip' \in IpStates /\ events' \in Nat
      BY <2>2 DEF NetAppEvent, Event
    <3>3. QED
      BY <2>2, <3>1, <3>2 DEF NetAppEvent, Event, managerVars
  <2>3. CASE NetworkEvent
    <3>1. "connected" \in Connections /\ "disconnected" \in Connections
          /\ "ip_acquired" \in IpStates /\ "ip_released" \in IpStates
      BY DEF Connections, IpStates
    <3>2. CASE WlanConnected
      BY <2>1, <3>1, <3>2 DEF WlanConnected
    <3>3. CASE WlanDisconnected \/ WlanConnectFailed
      BY <2>1, <3>1, <3>3 DEF WlanDisconnected, WlanConnectFailed
    <3>4. CASE WlanOther
      BY <2>1, <3>4 DEF WlanOther
    <3>5. CASE IpAcquired \/ IpReleased \/ NetAppOther
      BY <2>2, <3>1, <3>5 DEF IpAcquired, IpReleased, NetAppOther
    <3>6. QED
      BY <2>3, <3>2, <3>3, <3>4, <3>5 DEF NetworkEvent
  <2>4. CASE TimerFires
    <3>1. bits' \subseteq Bits
      BY <2>4 DEF TimerFires, Notify, Bits
    <3>2. QED
      BY <2>4, <3>1 DEF TimerFires, Notify, statusVars, managerVars
  <2>5. CASE StartConnection
    BY <2>5 DEF StartConnection, Connections
  <2>6. CASE Receive
    BY <2>6 DEF Receive, statusVars
  <2>7. CASE Handle
    <3>1. suspended' \subseteq UserTasks
      BY <2>7 DEF Handle, Suspend, ResumeMonitor, ResumeUser
    <3>2. timer' \in Periods \cup {"off"} /\ val' \subseteq Bits
      BY <2>7 DEF Handle, AfterConnected, AfterDisconnected, Periods
    <3>3. mixed' \in BOOLEAN
      BY <2>7 DEF Handle
    <3>4. QED
      BY <2>7, <3>1, <3>2, <3>3 DEF Handle, statusVars, RequestPcs
  <2>step. CASE Ask \/ ReplyArrives \/ ReplyLost
    BY <2>step DEF Ask, ReplyArrives, ReplyLost, RequestStep, statusVars,
                   RequestPcs
  <2>8. ASSUME NEW ok \in BOOLEAN, NtpDone(ok) PROVE TypeOK'
    <3>1. bits' \subseteq Bits /\ pending' \in BOOLEAN
      BY <2>8 DEF NtpDone, Notify, Bits
    <3>2. suspended' \subseteq UserTasks /\ val' \subseteq Bits
      BY <2>8 DEF NtpDone, ResumeUser
    <3>3. timer' \in Periods \cup {"off"}
      BY <2>8 DEF NtpDone, NextPeriod, Periods
    <3>4. everSynced' \in BOOLEAN /\ synced' \in BOOLEAN
      BY <2>8 DEF NtpDone
    <3>5. QED
      BY <2>8, <3>1, <3>2, <3>3, <3>4 DEF NtpDone, statusVars
  <2>9. CASE NoEvent \/ UNCHANGED vars
    BY <2>9 DEF NoEvent, vars
  <2>10. QED
    BY <2>3, <2>4, <2>5, <2>6, <2>7, <2>step, <2>8, <2>9
       DEF Next, NetworkEvent
<1>3. QED
  BY <1>1, <1>2, PTL DEF Spec

-----------------------------------------------------------------------------
\* A synced bit, notified or being handled, comes from a request that
\* succeeded.
SyncedBitIsTrue == "ntp_synced" \in bits \cup val => everSynced

\* The user task is resumed only after a successful SNTP request.
THEOREM UserWaitsForTime == Spec => []UserRunsOnlyAfterSync
<1> DEFINE Inv == SyncedBitIsTrue /\ UserRunsOnlyAfterSync
<1> USE DEF SyncedBitIsTrue, UserRunsOnlyAfterSync, UserTasks
<1>1. Init => Inv
  BY DEF Init
<1>2. TypeOK /\ Inv /\ [Next]_vars => Inv'
  <2> SUFFICES ASSUME TypeOK, Inv, [Next]_vars PROVE Inv'
    OBVIOUS
  <2> USE DEF TypeOK, Connections, IpStates, statusVars, managerVars, Notify
  <2>1. CASE NetworkEvent
    BY <2>1 DEF NetworkEvent, WlanConnected, WlanDisconnected, WlanOther,
                WlanConnectFailed, IpAcquired, IpReleased, NetAppOther,
                WlanEvent, NetAppEvent, Event
  <2>2. CASE TimerFires
    BY <2>2 DEF TimerFires
  <2>3. CASE StartConnection
    BY <2>3 DEF StartConnection
  <2>4. CASE Receive
    BY <2>4 DEF Receive
  <2>5. CASE Handle
    BY <2>5 DEF Handle, Suspend, ResumeMonitor, ResumeUser
  <2>step. CASE Ask \/ ReplyArrives \/ ReplyLost
    BY <2>step DEF Ask, ReplyArrives, ReplyLost, RequestStep
  <2>6. ASSUME NEW ok \in BOOLEAN, NtpDone(ok) PROVE Inv'
    BY <2>6 DEF NtpDone, ResumeUser
  <2>7. CASE NoEvent \/ UNCHANGED vars
    BY <2>7 DEF NoEvent, vars
  <2>8. QED
    BY <2>1, <2>2, <2>3, <2>4, <2>5, <2>step, <2>6, <2>7
       DEF Next, NetworkEvent
<1>3. QED
  BY <1>1, <1>2, TypeCorrect, PTL DEF Spec

-----------------------------------------------------------------------------
\* wifi_status never says disconnected while there is a link.
StatusKnowsLink == link => connection # "disconnected"

\* While there is a link, a disconnected bit that is not handled yet has a
\* connected bit with it or after it.
LinkBitsOrdered ==
  link => /\ "disconnected" \in bits => "connected" \in bits
          /\ wpc = "handle" /\ "disconnected" \in val
               => "connected" \in val \cup bits

\* While there is a link, a request is scheduled, under way or about to be
\* scheduled, unless the last link bits came mixed.
ScheduleOwed ==
  link => \/ timer # "off" \/ wpc \in RequestPcs \/ mixed
          \/ "connected" \in bits
          \/ wpc = "handle" /\ "connected" \in val

\* Bits are there only with a notification to receive them.
BitsArePending == bits # {} => pending

ScheduleInv ==
  StatusKnowsLink /\ LinkBitsOrdered /\ ScheduleOwed /\ BitsArePending

\* With a link and nothing left to handle the SNTP timer is active, unless
\* connected and disconnected were coalesced.
THEOREM SyncScheduled == Spec => []SyncIsScheduled
<1> USE DEF ScheduleInv, StatusKnowsLink, LinkBitsOrdered, ScheduleOwed,
            BitsArePending, RequestPcs
<1>1. Init => ScheduleInv
  BY DEF Init
<1>2. TypeOK /\ ScheduleInv /\ [Next]_vars => ScheduleInv'
  <2> SUFFICES ASSUME TypeOK, ScheduleInv, [Next]_vars PROVE ScheduleInv'
    OBVIOUS
  <2> USE DEF TypeOK, Connections, IpStates, statusVars, managerVars, Notify
  <2>1. CASE NetworkEvent
    <3>1. CASE WlanConnected \/ WlanDisconnected \/ WlanConnectFailed
      BY <3>1 DEF WlanConnected, WlanDisconnected, WlanConnectFailed,
                  WlanEvent, Event
    <3>2. CASE WlanOther
      BY <3>2 DEF WlanOther, WlanEvent, Event
    <3>3. CASE IpAcquired \/ IpReleased \/ NetAppOther
      BY <3>3 DEF IpAcquired, IpReleased, NetAppOther, NetAppEvent, Event
    <3>4. QED
      BY <2>1, <3>1, <3>2, <3>3 DEF NetworkEvent
  <2>2. CASE TimerFires
    BY <2>2 DEF TimerFires
  <2>3. CASE StartConnection
    BY <2>3 DEF StartConnection
  <2>4. CASE Receive
    BY <2>4 DEF Receive
  <2>5. CASE Handle
    <3>1. CASE "ntp_timer" \in val
      BY <2>5, <3>1 DEF Handle
    <3>2. CASE "ntp_timer" \notin val
      BY <2>5, <3>2 DEF Handle, AfterConnected, AfterDisconnected
    <3>3. QED
      BY <3>1, <3>2
  <2>step. CASE Ask \/ ReplyArrives \/ ReplyLost
    BY <2>step DEF Ask, ReplyArrives, ReplyLost, RequestStep
  <2>6. ASSUME NEW ok \in BOOLEAN, NtpDone(ok) PROVE ScheduleInv'
    BY <2>6 DEF NtpDone, NextPeriod
  <2>7. CASE NoEvent \/ UNCHANGED vars
    BY <2>7 DEF NoEvent, vars
  <2>8. QED
    BY <2>1, <2>2, <2>3, <2>4, <2>5, <2>step, <2>6, <2>7
       DEF Next, NetworkEvent
<1>3. ScheduleInv => SyncIsScheduled
  BY DEF SyncIsScheduled, Quiescent
<1>4. QED
  BY <1>1, <1>2, <1>3, TypeCorrect, PTL DEF Spec

=============================================================================
