--------------------------- MODULE MqttClientProofs ---------------------------
(***************************************************************************)
(* Theorems about MqttClient.                                              *)
(***************************************************************************)
EXTENDS MqttClient, SequenceTheorems, TLAPS

(***************************************************************************)
(* Types.  They are not inductive alone: a write starts with bytes left to *)
(* send, which bounds sent, and what the broker grants is the topic of a   *)
(* SUBSCRIBE, which is a filter.                                           *)
(***************************************************************************)
Outgoing == {p \in Packets : p.type = "SUBSCRIBE" => p.topic \in Filters}
Sendings == [why : {"request", "ack", "ping"}, packet : Outgoing]

CallType ==
  /\ app \in {"suspended", "net", "connect", "subscribe", "poll", "work"}
  /\ pc \in {"idle", "send", "write", "read", "keepalive", "loop"}
  /\ op \in Ops
  /\ sending \in Sendings
  /\ sent \in 0..(2 * PacketLen) /\ (pc = "write" => sent < PacketLen)
  /\ readbuf \in Packets
  /\ expired \subseteq Timers
  /\ rc \in {"none", "SUCCESS", "FAILURE", "REFUSED"}

SessionType ==
  /\ conn \in BOOLEAN /\ ping \in BOOLEAN /\ pingFresh \in BOOLEAN
  /\ handlers \in [Slots -> Filters \cup {NoFilter}]

RestType ==
  /\ reported \in BOOLEAN /\ todo \subseteq {"yield", "publish"}
  /\ nextId \in 1..MaxPacketId

NetType ==
  /\ sock \in {"none", "up", "down"}
  /\ inbox \in Seq(Packets) /\ outbox \in Seq(Outgoing)
  /\ aligned \in BOOLEAN
  /\ granted \subseteq Filters /\ messages \in 0..MaxMessages

TypeInv == CallType /\ SessionType /\ RestType /\ NetType

\* Packet makes packets.
LEMMA PacketType ==
  ASSUME NEW t \in Types, NEW i \in Ids
  PROVE  Packet(t, i) \in Packets /\ (t # "SUBSCRIBE" => Packet(t, i) \in Outgoing)
BY DEF Packet, Packets, Outgoing

\* So are the values of a client without a call in progress.
LEMMA NothingType ==
  /\ Nothing \in Packets /\ Nothing \in Outgoing
  /\ NoOp \in Ops /\ NotSending \in Sendings
<1>1. 0 \in Ids
  BY MqttAssumption DEF Ids
<1>2. Nothing \in Packets /\ Nothing \in Outgoing /\ NoOp \in Ops
  BY <1>1, PacketType DEF Nothing, NoOp, Ops, Types, Kinds
<1> QED
  BY <1>2 DEF NotSending, Sendings

\* A message the broker publishes.
LEMMA MessageType ==
  ASSUME NEW t \in Topics, NEW q \in 0..2, NEW b \in {"ok", "long"}
  PROVE  LET p == [Packet("PUBLISH", 1) EXCEPT !.topic = t, !.qos = q, !.body = b]
         IN  p \in Packets /\ p.type = "PUBLISH" /\ p.topic = t /\ p.body = b
<1> DEFINE p == Packet("PUBLISH", 1)
<1>1. p \in Packets /\ p.type = "PUBLISH"
  BY PacketType, MqttAssumption DEF Packet, Types, Ids
<1> HIDE DEF p
<1>2. LET r == [p EXCEPT !.topic = t, !.qos = q, !.body = b]
      IN  r \in Packets /\ r.type = "PUBLISH" /\ r.topic = t /\ r.body = b
  BY <1>1 DEF Packets
<1> QED
  BY <1>2 DEF p

\* A call returns to a state of the right types,
LEMMA ReturnType ==
  ASSUME CallType, NEW r \in {"SUCCESS", "FAILURE", "REFUSED"},
         NEW late \in SUBSET Timers, Return(r, late)
  PROVE  CallType'
<1>1. sent' \in 0..(2 * PacketLen) /\ pc' = "idle"
  BY MqttAssumption DEF Return
<1> QED
  BY <1>1, NothingType DEF Return, CallType

\* and so it does when the session is closed
LEMMA CloseType ==
  ASSUME SessionType, CloseSession \/ UNCHANGED sessionVars
  PROVE  SessionType'
BY DEF CloseSession, sessionVars, SessionType

\* or the call fails.
LEMMA FailType ==
  ASSUME CallType, SessionType, NEW late \in SUBSET Timers, Fail(late)
  PROVE  CallType' /\ SessionType'
BY ReturnType, CloseType DEF Fail

\* sendPacket begins with a packet in c->buf.
LEMMA StartSendType ==
  ASSUME NEW why \in {"request", "ack", "ping"}, NEW p \in Outgoing,
         StartSend(why, p)
  PROVE  /\ pc' = "send" /\ sending' \in Sendings /\ sent' \in 0..(2 * PacketLen)
BY MqttAssumption DEF StartSend, Sendings

\* MQTTSubscribe, MQTTUnsubscribe and MQTTPublish: getNextPacketId stays in
\* range.
LEMMA RequestType ==
  ASSUME TypeInv, NEW kind \in {"subscribe", "unsubscribe", "publish"},
         NEW type \in Types, NEW f \in Filters \cup {NoFilter}, NEW q \in 0..2,
         type = "SUBSCRIBE" => f \in Filters, Request(kind, type, f, q)
  PROVE  CallType' /\ SessionType' /\ nextId' \in 1..MaxPacketId
<1> DEFINE id == IF kind = "publish" /\ q = 0 THEN 0 ELSE NextId
           p  == [Packet(type, id) EXCEPT !.topic = f, !.qos = q]
           o  == [kind |-> kind, id |-> id, filter |-> f, qos |-> q]
<1>1. NextId \in 1..MaxPacketId
  BY MqttAssumption DEF NextId, TypeInv, RestType
<1>2. id \in Ids
  BY <1>1, MqttAssumption DEF Ids
<1>3. CASE conn
  <2>1. p \in Outgoing /\ o \in Ops
    BY <1>2 DEF Outgoing, Packets, Packet, Ops, Kinds
  <2>2. /\ op' = o /\ nextId' = (IF id = 0 THEN nextId ELSE id)
        /\ StartSend("request", p) /\ rc' = "none"
        /\ UNCHANGED <<app, sessionVars, readbuf, expired>>
    BY <1>3 DEF Request
  <2>3. CallType'
    BY <2>1, <2>2, StartSendType DEF CallType, TypeInv
  <2>4. SessionType'
    BY <2>2, CloseType DEF TypeInv
  <2>5. nextId' \in 1..MaxPacketId
    BY <2>2, <1>1 DEF TypeInv, RestType
  <2> QED BY <2>3, <2>4, <2>5
<1>4. CASE ~conn
  BY <1>4, ReturnType, CloseType DEF Request, TypeInv, RestType, CallType
<1> QED BY <1>3, <1>4

\* TypeInv is inductive.
LEMMA TypeInvInductive == TypeInv /\ [Next]_vars => TypeInv'
<1> SUFFICES ASSUME TypeInv, [Next]_vars PROVE TypeInv'
  OBVIOUS
<1> USE DEF TypeInv
<1>0. UNCHANGED netVars => NetType'
  BY DEF netVars, NetType
<1>1. CASE Resume
  BY <1>1 DEF Resume, CallType, SessionType, RestType, NetType, sendVars, clientVars,
              sessionVars, netVars
<1>2. ASSUME NEW ok \in BOOLEAN, NetworkConnect(ok) PROVE TypeInv'
  BY <1>2 DEF NetworkConnect, CallType, SessionType, RestType, NetType, sendVars,
              clientVars, sessionVars
<1>3. CASE Connect
  <2>1. Packet("CONNECT", 0) \in Outgoing
    BY PacketType, MqttAssumption DEF Types, Ids
  <2>2. op' \in Ops
    BY <1>3, NothingType DEF Connect, Ops, Kinds
  <2> QED
    BY <1>3, <2>1, <2>2, StartSendType DEF Connect, CallType, SessionType, RestType,
       NetType, appVars, clientVars, sessionVars, netVars
<1>4. CASE Subscribe
  BY <1>0, <1>4, RequestType, MqttAssumption DEF Subscribe, RestType, Types
<1>5. ASSUME NEW ok \in BOOLEAN, Poll(ok) PROVE TypeInv'
  BY <1>5 DEF Poll, CallType, SessionType, RestType, NetType, sendVars, clientVars,
              sessionVars, netVars
<1>6. CASE Yield
  <2> op' \in Ops
    BY <1>6, NothingType DEF Yield, Ops, Kinds
  <2> QED
    BY <1>6 DEF Yield, Working, CallType, SessionType, RestType, NetType, sendVars,
                clientVars, sessionVars, netVars
<1>7. ASSUME NEW q \in Qos, Publish(q) PROVE TypeInv'
  BY <1>0, <1>7, RequestType, MqttAssumption DEF Publish, RestType, Types
<1>8. ASSUME NEW ok \in BOOLEAN, SelectReturns(ok) PROVE TypeInv'
  BY <1>8 DEF SelectReturns, CallType, SessionType, RestType, NetType, sendVars,
              clientVars, sessionVars, netVars
<1>9. ASSUME NEW f \in Filters, SubscribeMore(f) PROVE TypeInv'
  BY <1>0, <1>9, RequestType DEF SubscribeMore, RestType, Types
<1>10. CASE Unsubscribe
  BY <1>0, <1>10, RequestType, MqttAssumption DEF Unsubscribe, RestType, Types
<1>11. CASE Disconnect
  <2>1. Packet("DISCONNECT", 0) \in Outgoing
    BY PacketType, MqttAssumption DEF Types, Ids
  <2>2. op' \in Ops
    BY <1>11, NothingType DEF Disconnect, Ops, Kinds
  <2> QED
    BY <1>11, <2>1, <2>2, StartSendType DEF Disconnect, CallType, SessionType,
       RestType, NetType, appVars, clientVars, sessionVars, netVars
<1>12. CASE EnterWrite
  BY <1>12 DEF EnterWrite, CallType, SessionType, RestType, NetType, appVars, sendVars,
               clientVars, sessionVars, netVars
<1>13. ASSUME NEW n \in 0..PacketLen, Write(n) PROVE TypeInv'
  BY <1>13, MqttAssumption DEF Write, CallType, SessionType, RestType, NetType, appVars,
     clientVars, sessionVars, netVars
<1>14. ASSUME Sent PROVE NetType'
  <2>1. sending.packet \in Outgoing
    BY DEF CallType, Sendings
  <2>2. outbox' \in Seq(Outgoing)
    BY <1>14, <2>1 DEF Sent, NetType
  <2> QED
    BY <1>14, <2>2 DEF Sent, NetType
<1>15. CASE WriteFails
  BY <1>14, <1>15, FailType DEF WriteFails, RestType, CallType
<1>16. CASE SendFails
  BY <1>14, <1>16, FailType DEF SendFails, RestType, CallType
<1>17. CASE SendSucceeds
  <2> DEFINE late == expired \ {"sent"}
  <2>1. NetType' /\ RestType'
    BY <1>14, <1>17 DEF SendSucceeds, RestType
  <2>2. ASSUME NEW to \in {"loop", "keepalive"}, NEW l \in SUBSET Timers,
               EndSend(to, l)
        PROVE  CallType'
    BY <2>2, NothingType, MqttAssumption DEF EndSend, CallType
  <2>3. CASE sending.why = "request" /\ Awaited(op) = "none"
    <3>1. Return("SUCCESS", late) /\ (CloseSession \/ UNCHANGED sessionVars)
      BY <1>17, <2>3 DEF SendSucceeds
    <3> QED BY <2>1, <3>1, ReturnType, CloseType DEF CallType
  <2>4. CASE ~(sending.why = "request" /\ Awaited(op) = "none")
    <3>1. \/ EndSend("loop", late) /\ UNCHANGED sessionVars
          \/ EndSend("keepalive", late) /\ UNCHANGED sessionVars
          \/ /\ EndSend("loop", late \ {"ping"})
             /\ ping' = TRUE /\ pingFresh' = TRUE /\ UNCHANGED <<conn, handlers>>
      BY <1>17, <2>4 DEF SendSucceeds
    <3>2. CallType'
      BY <2>2, <3>1 DEF CallType
    <3>3. SessionType'
      BY <3>1, CloseType DEF SessionType
    <3> QED BY <2>1, <3>2, <3>3
  <2> QED BY <2>3, <2>4
<1>18. CASE EnterRead
  BY <1>18, NothingType DEF EnterRead, CallType, SessionType, RestType, NetType, appVars,
     sendVars, clientVars, sessionVars, netVars
<1>19. CASE WaitExpires
  BY <1>0, <1>19, ReturnType, FailType, CloseType DEF WaitExpires, RestType, CallType
<1>20. CASE ReadPacket
  <2> DEFINE p == Head(inbox)
  <2>1. p \in Packets /\ inbox' \in Seq(Packets)
    BY <1>20, HeadTailProperties DEF ReadPacket, NetType
  <2>2. NetType' /\ RestType'
    BY <1>20, <2>1 DEF ReadPacket, NetType, RestType
  <2>3. ReceivedTimer \in SUBSET Timers
    BY DEF ReceivedTimer, CallType
  <2>4. CASE HandleAck(p)
    BY <2>1, <2>2, <2>3, <2>4 DEF HandleAck, Read, Untouched, CallType, SessionType,
       sendVars
  <2>5. ASSUME Acknowledge(p)
        PROVE  pc' = "send" /\ sending' \in Sendings /\ sent' \in 0..(2 * PacketLen)
    <3>1. AnswerType(p) \in Types \ {"SUBSCRIBE"} /\ IdsOf(p) \subseteq Ids
      BY <2>1 DEF AnswerType, IdsOf, Packets, Types
    <3>2. PICK i \in IdsOf(p) : StartSend("ack", Packet(AnswerType(p), i))
      BY <2>5 DEF Acknowledge
    <3> QED
      BY <3>1, <3>2, PacketType, StartSendType
  <2>6. CASE HandlePublish(p)
    BY <2>1, <2>2, <2>3, <2>5, <2>6 DEF HandlePublish, Read, Untouched, CallType,
       SessionType, sendVars
  <2>7. CASE HandleExchange(p)
    BY <2>1, <2>2, <2>3, <2>5, <2>7 DEF HandleExchange, Read, Untouched, CallType,
       SessionType
  <2>8. CASE HandleOther(p)
    BY <2>1, <2>2, <2>3, <2>8, CloseType DEF HandleOther, Read, CallType, sendVars
  <2> QED
    BY <1>20, <2>4, <2>6, <2>7, <2>8 DEF ReadPacket
<1>21. CASE ReadNothing
  <2>1. inbox' \in Seq(Packets)
    BY <1>21, HeadTailProperties DEF ReadNothing, NetType
  <2> QED
    BY <1>21, <2>1, NothingType DEF ReadNothing, CallType, SessionType, RestType, NetType,
       appVars, sendVars, clientVars, sessionVars
<1>22. ASSUME NEW t \in Leftovers, ReadOverflow(t) PROVE TypeInv'
  <2>1. Packet(t, 0) \in Packets
    BY PacketType, MqttAssumption DEF Leftovers, Types, Ids
  <2>2. Tail(inbox) \in Seq(Packets) /\ <<Packet(t, 0)>> \in Seq(Packets)
    BY <1>22, <2>1, HeadTailProperties DEF ReadOverflow, NetType
  <2>3. inbox' \in Seq(Packets)
    BY <1>22, <2>2, ConcatProperties DEF ReadOverflow
  <2> QED
    BY <1>22, <2>3, FailType DEF ReadOverflow, RestType, NetType, CallType
<1>23. CASE KeepaliveNotDue
  BY <1>23 DEF KeepaliveNotDue, CallType, SessionType, RestType, NetType, appVars,
     sendVars, clientVars, sessionVars, netVars
<1>24. CASE KeepalivePings
  <2>1. Packet("PINGREQ", 0) \in Outgoing
    BY PacketType, MqttAssumption DEF Types, Ids
  <2> QED
    BY <1>24, <2>1, StartSendType DEF KeepalivePings, CallType, SessionType, RestType,
       NetType, appVars, clientVars, sessionVars, netVars
<1>25. CASE KeepaliveFails
  BY <1>0, <1>25, FailType DEF KeepaliveFails, RestType, CallType
<1>26. CASE Finish
  <2>1. NetType' /\ RestType'
    BY <1>0, <1>26 DEF Finish, RestType
  <2>2. CASE Connected
    <3>1. CallType'
      BY <2>2, ReturnType DEF Connected, CallType
    <3>2. SessionType'
      BY <2>2 DEF Connected, SessionType
    <3> QED BY <2>1, <3>1, <3>2
  <2>3. CASE Subscribed
    <3>1. CallType'
      BY <2>3, ReturnType, FailType DEF Subscribed, CallType
    <3>2. op.filter \in Filters \cup {NoFilter}
      BY DEF CallType, Ops
    <3>3. SessionType'
      BY <2>3, <3>2, FailType, CloseType DEF Subscribed, SessionType, CallType
    <3> QED BY <2>1, <3>1, <3>3
  <2>4. CASE Unsubscribed
    <3>1. CallType'
      BY <2>4, ReturnType DEF Unsubscribed, CallType
    <3>2. SessionType'
      BY <2>4 DEF Unsubscribed, SessionType
    <3> QED BY <2>1, <3>1, <3>2
  <2>5. CASE Published
    BY <2>1, <2>5, ReturnType, CloseType DEF Published, CallType
  <2> QED BY <1>26, <2>2, <2>3, <2>4, <2>5 DEF Finish
<1>27. CASE Environment
  <2>1. ASSUME NEW t \in Timers, Expire(t) PROVE TypeInv'
    BY <2>1 DEF Expire, CallType, SessionType, RestType, NetType, appVars, sendVars,
                netVars
  <2>2. ASSUME UNCHANGED <<appVars, pc, op, sendVars, readbuf, expired, clientVars, rc>>
        PROVE  CallType' /\ SessionType' /\ RestType'
    BY <2>2 DEF CallType, SessionType, RestType, appVars, sendVars, clientVars,
                sessionVars
  <2>3. CASE BrokerGrants
    <3>1. Head(outbox) \in Outgoing
      BY <2>3, HeadTailProperties DEF BrokerGrants, NetType
    <3> QED
      BY <2>2, <2>3, <3>1 DEF BrokerGrants, NetType, Outgoing
  <2>4. ASSUME NEW ok \in BOOLEAN, BrokerReads(ok) PROVE TypeInv'
    <3> DEFINE p == Head(outbox)
               r(t) == [Packet(t, p.id) EXCEPT !.body = IF ok THEN "ok" ELSE "refused"]
    <3>1. p \in Outgoing /\ outbox' \in Seq(Outgoing)
      BY <2>4, HeadTailProperties DEF BrokerReads, NetType
    <3>2. granted' \subseteq Filters
      <4>1. granted' \subseteq granted
              \cup (IF p.type = "SUBSCRIBE" THEN {p.topic} ELSE {})
        BY <2>4, Zenon DEF BrokerReads
      <4> QED
        BY <3>1, <4>1 DEF NetType, Outgoing
    <3>3. inbox' \in Seq(Packets)
      <4>1. ASSUME NEW t \in ReplyTypes(p) PROVE r(t) \in Packets
        BY <3>1, <4>1 DEF ReplyTypes, Packet, Outgoing, Packets, Types
      <4>2. inbox' = inbox \/ \E t \in ReplyTypes(p) : inbox' = Append(inbox, r(t))
        BY <2>4 DEF BrokerReads
      <4> HIDE DEF r
      <4> QED BY <4>1, <4>2, AppendProperties DEF NetType
    <3> QED
      BY <2>2, <2>4, <3>1, <3>2, <3>3, Zenon DEF BrokerReads, NetType
  <2>5. ASSUME NEW t \in Topics, NEW q \in 0..2, NEW b \in {"ok", "long"},
               BrokerPublishes(t, q, b)
        PROVE  TypeInv'
    <3> DEFINE p == [Packet("PUBLISH", 1) EXCEPT !.topic = t, !.qos = q, !.body = b]
    <3>1. p \in Packets
      BY MessageType
    <3>2. inbox' = Append(inbox, p)
      BY <2>5 DEF BrokerPublishes
    <3>3. inbox' \in Seq(Packets)
      <4> HIDE DEF p
      <4> QED BY <3>1, <3>2, AppendProperties DEF NetType
    <3> QED
      BY <2>2, <2>5, <3>3, MqttAssumption DEF BrokerPublishes, NetType
  <2>6. ASSUME NEW k \in 0..Len(inbox), NEW cut \in BOOLEAN, ConnectionEnds(k, cut)
        PROVE  TypeInv'
    <3>1. \A i \in 1..k : inbox[i] \in Packets
      BY DEF NetType
    <3>2. \A i \in 1..k : [inbox[i] EXCEPT !.body = "cut"] \in Packets
      BY <3>1 DEF Packets
    <3>3. inbox' \in Seq(Packets)
      BY <2>6, <3>1, <3>2 DEF ConnectionEnds, NetType
    <3> QED
      BY <2>2, <2>6, <3>3 DEF ConnectionEnds, NetType
  <2> QED
    BY <1>27, <2>1, <2>3, <2>4, <2>5, <2>6, Zenon DEF Environment
<1>28. CASE UNCHANGED vars
  BY <1>28 DEF vars, CallType, SessionType, RestType, NetType, appVars, sendVars,
     clientVars, sessionVars, netVars
<1>29. CASE Task
  BY <1>29, <1>1, <1>2, <1>3, <1>4, <1>5, <1>6, <1>7, <1>8, <1>9, <1>10, <1>11,
     Zenon DEF Task
<1>30. CASE Library
  BY <1>30, <1>12, <1>13, <1>15, <1>16, <1>17, <1>18, <1>19, <1>20, <1>21, <1>22,
     <1>23, <1>24, <1>25, <1>26, Zenon DEF Library, Runs
<1> QED
  BY <1>27, <1>28, <1>29, <1>30 DEF Next

\* The types hold initially.
LEMMA TypeInvInit == Init => TypeInv
<1> SUFFICES ASSUME Init PROVE TypeInv
  OBVIOUS
<1>1. CallType
  BY NothingType, MqttAssumption DEF Init, CallType, Timers
<1>2. SessionType
  BY DEF Init, SessionType
<1>3. RestType
  <2>1. reported \in BOOLEAN /\ todo \subseteq {"yield", "publish"} /\ nextId = 1
    BY DEF Init
  <2> QED BY <2>1, MqttAssumption DEF RestType
<1>4. NetType
  BY EmptySeq, MqttAssumption DEF Init, NetType
<1> QED
  BY <1>1, <1>2, <1>3, <1>4 DEF TypeInv

\* Every variable keeps its type.  In particular the bytes sendPacket writes
\* from &buf[sent] on end before twice the length of the packet, and
\* identifiers stay between 1 and MAX_PACKET_ID.
THEOREM TypeCorrect == Spec => []TypeOK
<1>1. TypeInv => TypeOK
  <2> SUFFICES ASSUME TypeInv PROVE TypeOK
    OBVIOUS
  <2>1. outbox \in Seq(Packets)
    BY DEF TypeInv, NetType, Outgoing
  <2>2. sending \in [why : {"request", "ack", "ping"}, packet : Packets]
    BY DEF TypeInv, CallType, Sendings, Outgoing
  <2> QED
    BY <2>1, <2>2 DEF TypeInv, CallType, SessionType, RestType, NetType, TypeOK
<1> QED
  BY <1>1, TypeInvInit, TypeInvInductive, PTL DEF Spec

(***************************************************************************)
(* The session and the stream of bytes.  MQTTConnect is the one call that  *)
(* may fail without closing the session, so the proof needs that it runs   *)
(* only before there is one, and that nothing has gone wrong with the      *)
(* stream until then.                                                      *)
(***************************************************************************)
Early == app \in {"suspended", "net", "connect"}

SessionInv ==
  /\ conn => aligned
  /\ Early => aligned /\ ~conn
  /\ pc # "idle" => (op.kind = "connect" <=> app = "connect")
  /\ app \in {"suspended", "net"} => pc = "idle" /\ ~ping
  /\ rc = "FAILURE" /\ pc = "idle" => ~conn

\* SessionInv is inductive.
LEMMA SessionInvInductive == SessionInv /\ [Next]_vars => SessionInv'
<1> SUFFICES ASSUME SessionInv, [Next]_vars PROVE SessionInv'
  OBVIOUS
<1> USE DEF SessionInv, Early
<1>1. CASE Resume
  BY <1>1 DEF Resume, sendVars, clientVars, sessionVars, netVars
<1>2. ASSUME NEW ok \in BOOLEAN, NetworkConnect(ok) PROVE SessionInv'
  BY <1>2 DEF NetworkConnect, sendVars, clientVars, sessionVars
<1>3. CASE Connect
  BY <1>3 DEF Connect, StartSend, NoOp, appVars, clientVars, sessionVars, netVars
<1>4. CASE Subscribe
  BY <1>4 DEF Subscribe, Request, Return, StartSend, CloseSession, NoOp,
              sessionVars, netVars
<1>5. ASSUME NEW ok \in BOOLEAN, Poll(ok) PROVE SessionInv'
  BY <1>5 DEF Poll, sendVars, clientVars, sessionVars, netVars
<1>6. CASE Yield
  BY <1>6 DEF Yield, Working, NoOp, sendVars, clientVars, sessionVars, netVars
<1>7. ASSUME NEW q \in Qos, Publish(q) PROVE SessionInv'
  BY <1>7 DEF Publish, Working, Request, Return, StartSend, CloseSession, NoOp,
              sessionVars, netVars
<1>8. ASSUME NEW ok \in BOOLEAN, SelectReturns(ok) PROVE SessionInv'
  BY <1>8 DEF SelectReturns, sendVars, clientVars, sessionVars, netVars
<1>9. ASSUME NEW f \in Filters, SubscribeMore(f) PROVE SessionInv'
  BY <1>9 DEF SubscribeMore, Working, Request, Return, StartSend,
              CloseSession, NoOp, sessionVars, netVars
<1>10. CASE Unsubscribe
  BY <1>10 DEF Unsubscribe, Working, Request, Return, StartSend,
               CloseSession, NoOp, sessionVars, netVars
<1>11. CASE Disconnect
  BY <1>11 DEF Disconnect, Working, StartSend, NoOp, appVars, clientVars,
               sessionVars, netVars
<1>12. CASE EnterWrite
  BY <1>12 DEF EnterWrite, appVars, sendVars, clientVars, sessionVars, netVars
<1>13. ASSUME NEW n \in 0..PacketLen, Write(n) PROVE SessionInv'
  BY <1>13 DEF Write, appVars, clientVars, sessionVars, netVars
<1>14. CASE SendFails
  BY <1>14 DEF SendFails, Sent, Fail, Return, CloseSession, sessionVars
<1>15. CASE WriteFails
  BY <1>15 DEF WriteFails, Sent, Fail, Return, CloseSession, sessionVars
<1>16. CASE SendSucceeds
  <2>3. aligned => aligned'
    BY <1>16 DEF SendSucceeds, SentWhole, Sent
  <2>1. CASE sending.why = "request" /\ Awaited(op) = "none"
    BY <1>16, <2>1, <2>3 DEF SendSucceeds, EndSend, Return, CloseSession, Awaited,
                       sessionVars
  <2>2. CASE ~(sending.why = "request" /\ Awaited(op) = "none")
    BY <1>16, <2>2, <2>3 DEF SendSucceeds, EndSend, sessionVars
  <2> QED BY <2>1, <2>2
<1>17. CASE EnterRead
  BY <1>17 DEF EnterRead, appVars, clientVars, sessionVars, netVars
<1>18. CASE WaitExpires
  BY <1>18 DEF WaitExpires, Fail, Return, CloseSession, sessionVars, netVars
<1>19. CASE ReadPacket
  BY <1>19 DEF ReadPacket, HandleAck, HandlePublish, HandleExchange, HandleOther,
               Untouched, Acknowledge, StartSend, CloseSession, sessionVars
<1>20. CASE ReadNothing
  BY <1>20 DEF ReadNothing, appVars, clientVars, sessionVars
<1>21. ASSUME NEW t \in Leftovers, ReadOverflow(t) PROVE SessionInv'
  BY <1>21 DEF ReadOverflow, Fail, Return, CloseSession, sessionVars
<1>22. CASE KeepaliveNotDue
  BY <1>22 DEF KeepaliveNotDue, appVars, clientVars, sessionVars, netVars
<1>23. CASE KeepalivePings
  BY <1>23 DEF KeepalivePings, StartSend, appVars, clientVars, sessionVars, netVars
<1>24. CASE KeepaliveFails
  BY <1>24 DEF KeepaliveFails, Fail, Return, CloseSession, sessionVars, netVars
<1>25. CASE Finish
  BY <1>25 DEF Finish, Connected, Subscribed, Unsubscribed, Published, Fail, Return,
               CloseSession, sessionVars, netVars
<1>26. CASE Environment
  <2> USE DEF appVars, clientVars, sessionVars, netVars
  <2>1. ASSUME NEW t \in Timers, Expire(t) PROVE SessionInv'
    BY <2>1 DEF Expire
  <2>2. CASE BrokerGrants
    BY <2>2 DEF BrokerGrants
  <2>3. ASSUME NEW ok \in BOOLEAN, BrokerReads(ok) PROVE SessionInv'
    BY <2>3 DEF BrokerReads
  <2>4. ASSUME NEW t \in Topics, NEW q \in 0..2, NEW b \in {"ok", "long"},
               BrokerPublishes(t, q, b)
        PROVE  SessionInv'
    BY <2>4 DEF BrokerPublishes
  <2>5. ASSUME NEW k \in 0..Len(inbox), NEW cut \in BOOLEAN, ConnectionEnds(k, cut)
        PROVE  SessionInv'
    BY <2>5 DEF ConnectionEnds
  <2> QED
    BY <1>26, <2>1, <2>2, <2>3, <2>4, <2>5, Zenon DEF Environment
<1>27. CASE UNCHANGED vars
  BY <1>27 DEF vars, appVars, clientVars, sessionVars, netVars
<1>28. CASE Task
  BY <1>28, <1>1, <1>2, <1>3, <1>4, <1>5, <1>6, <1>7, <1>8, <1>9, <1>10, <1>11,
     Zenon DEF Task
<1>29. CASE Library
  BY <1>29, <1>12, <1>13, <1>14, <1>15, <1>16, <1>17, <1>18, <1>19, <1>20, <1>21,
     <1>22, <1>23, <1>24, <1>25, Zenon DEF Library, Runs
<1> QED
  BY <1>26, <1>27, <1>28, <1>29 DEF Next

\* What has been sent is whole packets while the session is open.
THEOREM SessionStreamIntact == Spec => []StreamIntact
<1>1. Init => SessionInv
  BY DEF Init, SessionInv, Early, NoOp
<1>2. SessionInv => StreamIntact
  BY DEF SessionInv, StreamIntact
<1> QED
  BY <1>1, <1>2, SessionInvInductive, PTL DEF Spec

\* No open session is left behind by a call that returns FAILURE.
THEOREM FailureClosesSession == Spec => []FailureCloses
<1>1. Init => SessionInv
  BY DEF Init, SessionInv, Early, NoOp
<1>2. SessionInv => FailureCloses
  BY DEF SessionInv, FailureCloses
<1> QED
  BY <1>1, <1>2, SessionInvInductive, PTL DEF Spec

(***************************************************************************)
(* The keepalive.  A ping has restarted one of its timers when it was sent;*)
(* the other one is restarted by whatever is read next, and with the       *)
(* connection up nothing but a packet ends a read.                         *)
(***************************************************************************)
Answering == pc = "keepalive" \/ (pc \in {"send", "write"} /\ sending.why = "ack")

PingInv ==
  ping /\ pingFresh /\ sock = "up" =>
    "sent" \notin expired /\ (Answering => "received" \notin expired)

\* PingInv is inductive relative to SessionInv.
LEMMA PingInvInductive == SessionInv /\ PingInv /\ [Next]_vars => PingInv'
<1> SUFFICES ASSUME SessionInv, PingInv, [Next]_vars PROVE PingInv'
  OBVIOUS
<1> USE DEF PingInv, Answering
<1>1. CASE Resume
  BY <1>1 DEF Resume, sendVars, clientVars, sessionVars, netVars
<1>2. ASSUME NEW ok \in BOOLEAN, NetworkConnect(ok) PROVE PingInv'
  BY <1>2 DEF NetworkConnect, SessionInv, sendVars, clientVars, sessionVars
<1>3. CASE Connect
  BY <1>3 DEF Connect, StartSend, appVars, clientVars, sessionVars, netVars
<1>4. ASSUME NEW kind, NEW type, NEW f, NEW q, Request(kind, type, f, q),
             UNCHANGED netVars
      PROVE  PingInv'
  <2>1. CASE conn
    <3>1. pc' = "send" /\ sending'.why = "request"
      BY <1>4, <2>1 DEF Request, StartSend
    <3>2. UNCHANGED <<ping, pingFresh, expired, sock>>
      BY <1>4, <2>1 DEF Request, sessionVars, netVars
    <3> QED BY <3>1, <3>2
  <2>2. CASE ~conn
    <3> ~ping'
      BY <1>4, <2>2 DEF Request, CloseSession
    <3> QED OBVIOUS
  <2> QED BY <2>1, <2>2
<1>5. ASSUME NEW ok \in BOOLEAN, Poll(ok) PROVE PingInv'
  BY <1>5 DEF Poll, sendVars, clientVars, sessionVars, netVars
<1>6. CASE Yield
  BY <1>6 DEF Yield, sendVars, clientVars, sessionVars, netVars
<1>7. ASSUME NEW q \in Qos, Publish(q) PROVE PingInv'
  BY <1>7, <1>4 DEF Publish
<1>8. ASSUME NEW ok \in BOOLEAN, SelectReturns(ok) PROVE PingInv'
  BY <1>8 DEF SelectReturns, sendVars, clientVars, sessionVars, netVars
<1>9. ASSUME NEW f \in Filters, SubscribeMore(f) PROVE PingInv'
  BY <1>9, <1>4 DEF SubscribeMore
<1>10. CASE Subscribe
  BY <1>10, <1>4 DEF Subscribe
<1>11. CASE Unsubscribe
  BY <1>11, <1>4 DEF Unsubscribe
<1>12. CASE Disconnect
  BY <1>12 DEF Disconnect, StartSend, clientVars, sessionVars, netVars
<1>13. CASE EnterWrite
  BY <1>13 DEF EnterWrite, sendVars, clientVars, sessionVars, netVars
<1>14. ASSUME NEW n \in 0..PacketLen, Write(n) PROVE PingInv'
  BY <1>14 DEF Write, clientVars, sessionVars, netVars
<1>15. ASSUME NEW late, late \subseteq expired, Fail(late), UNCHANGED sock
       PROVE  PingInv'
  BY <1>15 DEF Fail, Return, CloseSession, sessionVars
<1>16. CASE SendFails \/ WriteFails
  BY <1>16, <1>15 DEF SendFails, WriteFails, Sent
<1>17. CASE SendSucceeds
  <2> sock' = sock
    BY <1>17 DEF SendSucceeds, Sent
  <2>1. CASE sending.why = "request" /\ Awaited(op) = "none"
    BY <1>17, <2>1 DEF SendSucceeds, EndSend, Return, CloseSession, sessionVars
  <2>2. CASE ~(sending.why = "request" /\ Awaited(op) = "none")
    BY <1>17, <2>2 DEF SendSucceeds, EndSend, sessionVars
  <2> QED BY <2>1, <2>2
<1>18. CASE EnterRead
  BY <1>18 DEF EnterRead, sendVars, clientVars, sessionVars, netVars
<1>19. CASE WaitExpires
  BY <1>19, <1>15 DEF WaitExpires, Return, sessionVars, netVars
<1>20. CASE ReadPacket
  <2> DEFINE p == Head(inbox)
  <2>1. CASE HandleAck(p)
    BY <1>20, <2>1 DEF ReadPacket, HandleAck, Read, ReceivedTimer, sendVars
  <2>2. CASE HandlePublish(p)
    BY <1>20, <2>2 DEF ReadPacket, HandlePublish, Read, ReceivedTimer, Acknowledge,
                       StartSend, sendVars
  <2>3. CASE HandleExchange(p)
    BY <1>20, <2>3 DEF ReadPacket, HandleExchange, Read, ReceivedTimer, Acknowledge,
                       StartSend
  <2>4. CASE HandleOther(p)
    BY <1>20, <2>4 DEF ReadPacket, HandleOther, Read, ReceivedTimer, CloseSession,
                       sendVars, sessionVars
  <2> QED
    BY <1>20, <2>1, <2>2, <2>3, <2>4 DEF ReadPacket
<1>21. CASE ReadNothing
  BY <1>21 DEF ReadNothing
<1>22. ASSUME NEW t \in Leftovers, ReadOverflow(t) PROVE PingInv'
  BY <1>22, <1>15 DEF ReadOverflow
<1>23. CASE KeepaliveNotDue
  BY <1>23 DEF KeepaliveNotDue, sendVars, clientVars, sessionVars, netVars
<1>24. CASE KeepalivePings
  BY <1>24 DEF KeepalivePings, clientVars, sessionVars
<1>25. CASE KeepaliveFails
  BY <1>25, <1>15 DEF KeepaliveFails, netVars
<1>26. CASE Finish
  BY <1>26, <1>15 DEF Finish, Connected, Subscribed, Unsubscribed, Published, Return,
               sessionVars, netVars
<1>27. CASE Environment
  <2> USE DEF appVars, sendVars, clientVars, sessionVars, netVars
  <2>1. ASSUME NEW t \in Timers, Expire(t) PROVE PingInv'
    BY <2>1 DEF Expire
  <2>2. CASE BrokerGrants
    BY <2>2 DEF BrokerGrants
  <2>3. ASSUME NEW ok \in BOOLEAN, BrokerReads(ok) PROVE PingInv'
    BY <2>3 DEF BrokerReads
  <2>4. ASSUME NEW t \in Topics, NEW q \in 0..2, NEW b \in {"ok", "long"},
               BrokerPublishes(t, q, b)
        PROVE  PingInv'
    BY <2>4 DEF BrokerPublishes
  <2>5. ASSUME NEW k \in 0..Len(inbox), NEW cut \in BOOLEAN, ConnectionEnds(k, cut)
        PROVE  PingInv'
    BY <2>5 DEF ConnectionEnds
  <2> QED
    BY <1>27, <2>1, <2>2, <2>3, <2>4, <2>5, Zenon DEF Environment
<1>28. CASE UNCHANGED vars
  BY <1>28 DEF vars, sendVars, clientVars, sessionVars, netVars
<1>29. CASE Task
  BY <1>29, <1>1, <1>2, <1>3, <1>5, <1>6, <1>7, <1>8, <1>9, <1>10, <1>11, <1>12,
     Zenon DEF Task
<1>30. CASE Library
  BY <1>30, <1>13, <1>14, <1>16, <1>17, <1>18, <1>19, <1>20, <1>21, <1>22, <1>23,
     <1>24, <1>25, <1>26, Zenon DEF Library, Runs
<1> QED
  BY <1>27, <1>28, <1>29, <1>30 DEF Next

\* With the connection up, keepalive gives up the session only when one of
\* its timers has run out since the ping.
THEOREM KeepaliveGivesTime == Spec => []KeepaliveNotEarly
<1>1. Init => SessionInv /\ PingInv
  BY DEF Init, SessionInv, Early, NoOp, PingInv
<1>2. PingInv => KeepaliveNotEarly
  BY DEF PingInv, Answering, KeepaliveNotEarly, Due
<1> QED
  BY <1>1, <1>2, SessionInvInductive, PingInvInductive, PTL DEF Spec

=============================================================================
