---------------------------- MODULE MqttSession ----------------------------
(***************************************************************************)
(* What a caller of src/mqtt/MQTTClient.c sees, without packets, timers    *)
(* and the connection: one call after the other, what each returns, and    *)
(* what it leaves of the session and of the message handlers.  There is    *)
(* one session; once it is closed it stays closed, as this client connects *)
(* once.                                                                   *)
(***************************************************************************)
CONSTANTS
  Filters,   \* topic filters
  NoFilter   \* the filter of a call without one

VARIABLES
  session,   \* none before the end of MQTTConnect, then open or closed
  call,      \* the call in progress
  filter,    \* its topic filter
  subs,      \* filters that have a message handler
  result     \* what the last call returned, between calls

vars == <<session, call, filter, subs, result>>

Init ==
  /\ session = "none" /\ call = "none" /\ filter = NoFilter
  /\ subs = {} /\ result = "none"

\* A call is entered.  On a closed session only MQTTYield is.
Begin(k, f) ==
  /\ call = "none" /\ (k = "connect") = (session = "none")
  /\ session = "closed" => k = "yield"
  /\ call' = k /\ filter' = f /\ result' = "none"
  /\ UNCHANGED <<session, subs>>

\* The others return at once, and clean the session again.
Refuse ==
  /\ call = "none" /\ session = "closed"
  /\ subs' = {} /\ result' = "FAILURE"
  /\ UNCHANGED <<session, call, filter>>

\* The session closes under a call that goes on: cycle has met a packet it
\* has no case for.
Close ==
  /\ call \in {"subscribe", "unsubscribe", "publish", "yield"}
  /\ session = "open" /\ session' = "closed" /\ subs' = {}
  /\ UNCHANGED <<call, filter, result>>

End(r) == call' = "none" /\ filter' = NoFilter /\ result' = r

ConnectEnds(r) ==
  /\ call = "connect" /\ End(r)
  /\ session' = IF r = "SUCCESS" THEN "open" ELSE "closed"
  /\ UNCHANGED subs

\* MQTTPublish and MQTTYield succeed, or the broker refuses a subscription.
Succeed ==
  /\ call \in {"publish", "yield", "subscribe"} /\ End("SUCCESS")
  /\ UNCHANGED <<session, subs>>

\* A subscription takes no handler from another one.
SubscribeSucceeds ==
  /\ call = "subscribe" /\ End("SUCCESS")
  /\ subs' = subs \cup {filter}
  /\ UNCHANGED session

\* The UNSUBACK has closed the session before MQTTUnsubscribe succeeds.
UnsubscribeSucceeds ==
  /\ call = "unsubscribe" /\ End("SUCCESS")
  /\ session = "closed"
  /\ subs' = subs \ {filter}
  /\ UNCHANGED session

DisconnectSucceeds ==
  /\ call = "disconnect" /\ End("SUCCESS")
  /\ session' = "closed" /\ subs' = {}

\* A call fails, and with it the session and every handler go; MQTTYield
\* leaves a session alone that has been closed before.
Fail ==
  /\ call \notin {"none", "connect"} /\ End("FAILURE")
  /\ session' = "closed"
  /\ subs' = IF call = "yield" /\ session = "closed" THEN subs ELSE {}

Calls == {"connect", "subscribe", "unsubscribe", "publish", "yield",
          "disconnect"}

Next ==
  \/ \E k \in Calls, f \in Filters \cup {NoFilter} : Begin(k, f)
  \/ \E r \in {"SUCCESS", "FAILURE", "REFUSED"} : ConnectEnds(r)
  \/ Refuse \/ Close \/ Succeed \/ SubscribeSucceeds \/ UnsubscribeSucceeds
  \/ DisconnectSucceeds \/ Fail

Spec == Init /\ [][Next]_vars

=============================================================================
