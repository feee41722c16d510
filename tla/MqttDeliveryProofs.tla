-------------------------- MODULE MqttDeliveryProofs --------------------------
(***************************************************************************)
(* Theorems about the answers, the subscriptions and the messages of       *)
(* MqttClient, and about what its callers see of it.                       *)
(***************************************************************************)
EXTENDS MqttClientProofs, WellFoundedInduction

(***************************************************************************)
(* How often the packets of a set T are in a sequence, and in what order.  *)
(***************************************************************************)
NoneOf(s, T) == \A i \in 1..Len(s) : s[i] \notin T
OneOf(s, T)  == \A i, j \in 1..Len(s) : s[i] \in T /\ s[j] \in T => i = j
Before(s, T, U) == \A i, j \in 1..Len(s) : s[i] \in T /\ s[j] \in U => i < j

\* The empty sequence holds nothing.
LEMMA NoneOfEmpty ==
  ASSUME NEW T, NEW U
  PROVE  NoneOf(<<>>, T) /\ OneOf(<<>>, T) /\ Before(<<>>, T, U)
BY DEF NoneOf, OneOf, Before

\* Where there is none, there is at most one, none of a part and none too late.
LEMMA NoneOfWeaken ==
  ASSUME NEW s \in Seq(Packets), NEW T, NoneOf(s, T)
  PROVE  /\ OneOf(s, T)
         /\ \A U \in SUBSET T : NoneOf(s, U)
         /\ \A U : Before(s, T, U)
BY DEF NoneOf, OneOf, Before

\* The elements of Append(s, x) and of Tail(s).
LEMMA AppendElements ==
  ASSUME NEW s \in Seq(Packets), NEW x \in Packets
  PROVE  /\ Len(s) \in Nat /\ Len(Append(s, x)) = Len(s) + 1
         /\ \A i \in 1..Len(s) : Append(s, x)[i] = s[i]
         /\ Append(s, x)[Len(s) + 1] = x
         /\ \A i \in 1..Len(Append(s, x)) : i \in 1..Len(s) \/ i = Len(s) + 1
BY AppendProperties

LEMMA TailElements ==
  ASSUME NEW s \in Seq(Packets), s # <<>>
  PROVE  /\ Len(s) \in Nat /\ 1 \in 1..Len(s) /\ Head(s) = s[1]
         /\ \A i \in 1..Len(Tail(s)) :
              i \in Nat /\ i + 1 \in 1..Len(s) /\ Tail(s)[i] = s[i + 1]
BY HeadTailProperties

\* A packet that is not of T does not count in Append(s, x); the first that is
\* makes one.
LEMMA AppendCounts ==
  ASSUME NEW s \in Seq(Packets), NEW x \in Packets, NEW T
  PROVE  /\ NoneOf(s, T) /\ x \notin T => NoneOf(Append(s, x), T)
         /\ OneOf(s, T) /\ x \notin T => OneOf(Append(s, x), T)
         /\ NoneOf(s, T) => OneOf(Append(s, x), T)
<1> DEFINE a == Append(s, x)
<1> HIDE DEF a
<1> QED
  BY AppendElements DEF NoneOf, OneOf, a

\* Append puts x behind everything else.
LEMMA AppendOrder ==
  ASSUME NEW s \in Seq(Packets), NEW x \in Packets, NEW T, NEW U
  PROVE  /\ Before(s, T, U) /\ x \notin T => Before(Append(s, x), T, U)
         /\ NoneOf(s, U) /\ x \notin U => Before(Append(s, x), T, U)
BY AppendElements DEF NoneOf, Before

\* Tail takes the first away; where there is one, none is left.
LEMMA TailCounts ==
  ASSUME NEW s \in Seq(Packets), s # <<>>, NEW T
  PROVE  /\ NoneOf(s, T) => Head(s) \notin T /\ NoneOf(Tail(s), T)
         /\ OneOf(s, T) => OneOf(Tail(s), T)
         /\ OneOf(s, T) /\ Head(s) \in T => NoneOf(Tail(s), T)
<1>1. \A i \in 1..Len(Tail(s)) : i + 1 # 1
  BY TailElements
<1> QED
  BY <1>1, TailElements DEF NoneOf, OneOf

\* Tail keeps the order; behind the first of U there is none of T.
LEMMA TailOrder ==
  ASSUME NEW s \in Seq(Packets), s # <<>>, NEW T, NEW U, Before(s, T, U)
  PROVE  /\ Before(Tail(s), T, U)
         /\ Head(s) \in U => NoneOf(Tail(s), T)
<1>1. \A i \in 1..Len(Tail(s)) : ~(i + 1 < 1)
  BY TailElements
<1> QED
  BY <1>1, TailElements DEF NoneOf, Before

\* A beginning of s, with nothing of T in it that s has not.
LEMMA PrefixCounts ==
  ASSUME NEW s \in Seq(Packets), NEW p \in Seq(Packets), Len(p) <= Len(s), NEW T,
         \A i \in 1..Len(p) : p[i] \in T => s[i] \in T
  PROVE  /\ NoneOf(s, T) => NoneOf(p, T)
         /\ OneOf(s, T) => OneOf(p, T)
<1>1. \A i \in 1..Len(p) : i \in 1..Len(s)
  OBVIOUS
<1> QED
  BY <1>1 DEF NoneOf, OneOf

(***************************************************************************)
(* The call in progress.  c->buf and c->readbuf hold what the call has put *)
(* there; the calls that have an identifier are those that wait for it.    *)
(***************************************************************************)
OpInv ==
  /\ pc = "idle" => op = NoOp
  /\ op.id # 0 <=> \/ op.kind \in {"subscribe", "unsubscribe"}
                   \/ op.kind = "publish" /\ op.qos # 0
  /\ pc \notin {"send", "write"} => sending = NotSending
  /\ pc \in {"idle", "read"} => readbuf = Nothing
  /\ readbuf.type = "UNSUBACK" => ~conn

\* A new call, or none.
LEMMA NoOpFields ==
  /\ NoOp.kind = "none" /\ NoOp.id = 0 /\ NoOp.qos = 0
  /\ Nothing.type = "none" /\ NotSending.packet = Nothing
BY DEF NoOp, Nothing, NotSending, Packet

\* Return leaves the library without a call.
LEMMA ReturnOp ==
  ASSUME NEW r, NEW late, Return(r, late)
  PROVE  OpInv'
BY NoOpFields DEF Return, OpInv

\* Request
LEMMA RequestOp ==
  ASSUME TypeInv, OpInv, pc = "idle", NEW type, NEW f, NEW q \in 0..2,
         NEW kind \in {"subscribe", "unsubscribe", "publish"},
         Request(kind, type, f, q)
  PROVE  OpInv'
<1>1. NextId # 0
  BY MqttAssumption DEF NextId, TypeInv, RestType
<1>2. CASE conn
  <2>1. /\ op'.kind = kind /\ op'.qos = q
        /\ op'.id = (IF kind = "publish" /\ q = 0 THEN 0 ELSE NextId)
        /\ pc' = "send" /\ readbuf' = readbuf
    BY <1>2 DEF Request, StartSend
  <2> QED
    BY <1>1, <2>1, NoOpFields DEF OpInv
<1>3. CASE ~conn
  BY <1>3, ReturnOp DEF Request
<1> QED BY <1>2, <1>3

\* OpInv is inductive.
LEMMA OpInvInductive ==
  TypeInv /\ SessionInv /\ OpInv /\ [Next]_vars => OpInv'
<1> SUFFICES ASSUME TypeInv, SessionInv, OpInv, [Next]_vars PROVE OpInv'
  OBVIOUS
<1>0. ASSUME NEW late, Fail(late) PROVE OpInv'
  BY <1>0, ReturnOp DEF Fail
<1>1. CASE Resume
  BY <1>1 DEF Resume, OpInv, sendVars, clientVars, sessionVars
<1>2. ASSUME NEW ok \in BOOLEAN, NetworkConnect(ok) PROVE OpInv'
  BY <1>2 DEF NetworkConnect, OpInv, sendVars, clientVars, sessionVars
<1>3. CASE Connect
  <2>1. op'.kind = "connect" /\ op'.id = 0 /\ pc' = "send" /\ readbuf' = readbuf
    BY <1>3, NoOpFields DEF Connect, StartSend, NoOp
  <2> QED
    BY <1>3, <2>1, NoOpFields DEF Connect, OpInv
<1>4. CASE Subscribe
  BY <1>4, RequestOp DEF Subscribe
<1>5. ASSUME NEW ok \in BOOLEAN, Poll(ok) PROVE OpInv'
  BY <1>5 DEF Poll, OpInv, sendVars, clientVars, sessionVars
<1>6. CASE Yield
  <2>1. op'.kind = "yield" /\ op'.id = 0 /\ pc' = "loop" /\ readbuf' = readbuf
    BY <1>6 DEF Yield, NoOp
  <2> QED
    BY <1>6, <2>1, NoOpFields DEF Yield, Working, OpInv, sendVars
<1>7. ASSUME NEW q \in Qos, Publish(q) PROVE OpInv'
  BY <1>7, RequestOp, MqttAssumption DEF Publish, Working
<1>8. ASSUME NEW ok \in BOOLEAN, SelectReturns(ok) PROVE OpInv'
  BY <1>8 DEF SelectReturns, OpInv, sendVars, clientVars, sessionVars
<1>9. ASSUME NEW f \in Filters, SubscribeMore(f) PROVE OpInv'
  BY <1>9, RequestOp DEF SubscribeMore, Working
<1>10. CASE Unsubscribe
  BY <1>10, RequestOp DEF Unsubscribe, Working
<1>11. CASE Disconnect
  <2>1. op'.kind = "disconnect" /\ op'.id = 0 /\ pc' = "send" /\ readbuf' = readbuf
    BY <1>11 DEF Disconnect, StartSend, NoOp
  <2> QED
    BY <1>11, <2>1, NoOpFields DEF Disconnect, Working, OpInv
<1>12. CASE EnterWrite
  BY <1>12 DEF EnterWrite, OpInv, sendVars, clientVars, sessionVars
<1>13. ASSUME NEW n \in 0..PacketLen, Write(n) PROVE OpInv'
  BY <1>13 DEF Write, OpInv, clientVars, sessionVars
<1>14. CASE SendFails \/ WriteFails
  BY <1>0, <1>14 DEF SendFails, WriteFails
<1>15. CASE SendSucceeds
  <2> DEFINE late == expired \ {"sent"}
  <2>1. \/ Return("SUCCESS", late)
        \/ /\ UNCHANGED conn
           /\ \/ EndSend("loop", late) \/ EndSend("keepalive", late)
              \/ EndSend("loop", late \ {"ping"})
    BY <1>15, Zenon DEF SendSucceeds, sessionVars
  <2> QED
    BY <2>1, ReturnOp DEF EndSend, OpInv
<1>16. CASE EnterRead
  BY <1>16, NoOpFields DEF EnterRead, OpInv, sendVars, clientVars, sessionVars
<1>17. CASE WaitExpires
  BY <1>0, <1>17, ReturnOp DEF WaitExpires
<1>18. CASE ReadPacket
  <2> DEFINE p == Head(inbox)
  <2>1. CASE HandleAck(p)
    BY <1>18, <2>1 DEF ReadPacket, HandleAck, Read, Untouched, OpInv, sendVars
  <2>2. CASE HandlePublish(p)
    BY <1>18, <2>2 DEF ReadPacket, HandlePublish, Read, Untouched, Acknowledge,
                       StartSend, OpInv, sendVars
  <2>3. CASE HandleExchange(p)
    BY <1>18, <2>3 DEF ReadPacket, HandleExchange, Read, Untouched, Acknowledge,
                       StartSend, OpInv
  <2>4. CASE HandleOther(p)
    BY <1>18, <2>4 DEF ReadPacket, HandleOther, Read, CloseSession, OpInv, sendVars,
                       sessionVars, TypeInv, SessionType
  <2> QED
    BY <1>18, <2>1, <2>2, <2>3, <2>4 DEF ReadPacket
<1>19. CASE ReadNothing
  BY <1>19, NoOpFields DEF ReadNothing, OpInv, sendVars, clientVars, sessionVars
<1>20. ASSUME NEW t \in Leftovers, ReadOverflow(t) PROVE OpInv'
  BY <1>0, <1>20 DEF ReadOverflow
<1>21. CASE KeepaliveNotDue
  BY <1>21 DEF KeepaliveNotDue, OpInv, sendVars, clientVars, sessionVars
<1>22. CASE KeepalivePings
  BY <1>22 DEF KeepalivePings, StartSend, OpInv, clientVars, sessionVars
<1>23. CASE KeepaliveFails
  BY <1>0, <1>23 DEF KeepaliveFails
<1>24. CASE Finish
  BY <1>0, <1>24, ReturnOp DEF Finish, Connected, Subscribed, Unsubscribed, Published
<1>25. CASE Environment
  <2> SUFFICES UNCHANGED <<pc, op, sendVars, readbuf, conn>>
    BY DEF OpInv, sendVars
  <2>1. ASSUME NEW t \in Timers, Expire(t) PROVE UNCHANGED <<pc, op, sendVars, readbuf, conn>>
    BY <2>1 DEF Expire
  <2>2. CASE BrokerGrants
    BY <2>2 DEF BrokerGrants, clientVars, sessionVars
  <2>3. ASSUME NEW ok \in BOOLEAN, BrokerReads(ok)
        PROVE  UNCHANGED <<pc, op, sendVars, readbuf, conn>>
    BY <2>3, Zenon DEF BrokerReads, clientVars, sessionVars
  <2>4. ASSUME NEW t \in Topics, NEW q \in 0..2, NEW b \in {"ok", "long"},
               BrokerPublishes(t, q, b)
        PROVE  UNCHANGED <<pc, op, sendVars, readbuf, conn>>
    BY <2>4 DEF BrokerPublishes, clientVars, sessionVars
  <2>5. ASSUME NEW k \in 0..Len(inbox), NEW cut \in BOOLEAN, ConnectionEnds(k, cut)
        PROVE  UNCHANGED <<pc, op, sendVars, readbuf, conn>>
    BY <2>5 DEF ConnectionEnds, clientVars, sessionVars
  <2> QED
    BY <1>25, <2>1, <2>2, <2>3, <2>4, <2>5, Zenon DEF Environment
<1>26. CASE UNCHANGED vars
  BY <1>26 DEF vars, OpInv, sendVars, clientVars, sessionVars
<1>27. CASE Task
  BY <1>27, <1>1, <1>2, <1>3, <1>4, <1>5, <1>6, <1>7, <1>8, <1>9, <1>10, <1>11,
     Zenon DEF Task
<1>28. CASE Library
  BY <1>28, <1>12, <1>13, <1>14, <1>15, <1>16, <1>17, <1>18, <1>19, <1>20, <1>21,
     <1>22, <1>23, <1>24, Zenon DEF Library, Runs
<1> QED
  BY <1>25, <1>26, <1>27, <1>28 DEF Next

(***************************************************************************)
(* What a step does to the exchange of a call with an identifier: the      *)
(* request the client sends (again as PUBREL), the reply that comes back,  *)
(* and the reply in readbuf that the call takes for its answer.            *)
(***************************************************************************)
Requests == {p \in Packets : \/ p.type \in {"SUBSCRIBE", "UNSUBSCRIBE", "PUBREL"}
                             \/ p.type = "PUBLISH" /\ p.qos # 0}
Acks     == {p \in Packets : p.type \in {"SUBACK", "UNSUBACK", "PUBACK", "PUBCOMP"}}
Replies  == Acks \cup {p \in Packets : p.type = "PUBREC"}

\* The session is open, or may still be opened; or a call with an identifier
\* is in progress.  Otherwise there will be no such call again.
Open == conn \/ Early
Live == Open \/ op.id # 0

\* The step has no part in the exchange.
Plain ==
  /\ (Live' => Live) /\ (Open' => Open) /\ (Early' => Early)
  /\ op' = op \/ (op.id = 0 /\ op'.id = 0)
  /\ sending'.packet \in Requests => sending' = sending
  /\ readbuf' \in Acks => readbuf' = readbuf
  /\ \/ outbox' = outbox
     \/ /\ op.id = 0 \/ sending.packet \notin Requests
        /\ outbox' = Append(outbox, sending.packet)
  /\ \/ inbox' = inbox
     \/ inbox # <<>> /\ inbox' = Tail(inbox)
  /\ ~Open' \/ UNCHANGED handlers
  /\ UNCHANGED granted
  /\ sock' = sock \/ Early

\* The client is done with the connection.
Closes == ~Live' /\ UNCHANGED <<granted, sock>>

\* The call begins
Begins ==
  /\ pc = "idle" /\ conn /\ op'.id # 0
  /\ sending'.packet.id = op'.id
  /\ sending'.packet.type = "SUBSCRIBE" =>
       op'.kind = "subscribe" /\ sending'.packet.topic = op'.filter
  /\ UNCHANGED <<conn, readbuf, outbox, inbox, handlers, granted, sock>>

\* and sends its request;
Sends ==
  /\ sending.packet \in Requests /\ sending' = NotSending
  /\ \/ outbox' = outbox
     \/ sock = "up" /\ outbox' = Append(outbox, sending.packet)
  /\ UNCHANGED <<app, op, conn, readbuf, inbox, handlers, granted, sock>>

\* a reply is read
Takes ==
  /\ pc = "read" /\ inbox # <<>> /\ inbox' = Tail(inbox)
  /\ Head(inbox) \in Replies /\ readbuf' = Head(inbox)
  /\ \/ Head(inbox) \in Acks /\ sending' = sending
     \/ /\ Head(inbox).type = "PUBREC"
        /\ \E i \in IdsOf(Head(inbox)) : sending'.packet = Packet("PUBREL", i)
  /\ ~Open' \/ UNCHANGED <<conn, handlers>>
  /\ UNCHANGED <<app, op, outbox, granted, sock>>

\* and ends the call.
Ends ==
  /\ readbuf \in Acks /\ readbuf.type = Awaited(op)
  /\ op' = NoOp /\ sending' = NotSending /\ readbuf' = Nothing
  /\ \/ op.kind = "publish" /\ UNCHANGED handlers
     \/ op.kind = "subscribe" /\ readbuf.body = "refused" /\ UNCHANGED handlers
     \/ /\ op.kind = "subscribe" /\ SlotFor(op.filter) \in Slots
        /\ handlers' = [handlers EXCEPT ![SlotFor(op.filter)] = op.filter]
     \/ ~Open'
  /\ (Early' => Early)
  /\ UNCHANGED <<conn, outbox, inbox, granted, sock>>

\* A call that fails is done with the connection: it closes the session, or
\* there is none and never will be.
LEMMA FailCloses ==
  ASSUME SessionInv, OpInv, pc # "idle", NEW late, Fail(late)
  PROVE  ~Live'
<1>1. op' = NoOp /\ ~conn'
  BY DEF Fail, Return, CloseSession, sessionVars, SessionInv, Early
<1>2. ~Early'
  BY DEF Fail, Return, SessionInv, Early
<1> QED
  BY <1>1, <1>2, NoOpFields DEF Live, Open

\* Every step of the client is one of these.
ClientStep == Plain \/ Closes \/ Begins \/ Sends \/ Takes \/ Ends

\* The steps that begin a call.
LEMMA TaskSteps ==
  ASSUME TypeInv, SessionInv, OpInv, TypeInv', OpInv', Task PROVE ClientStep
<1> USE DEF Live, Open, Early
<1>1. CASE Resume
  BY <1>1 DEF Resume, Plain, ClientStep, sendVars, clientVars, sessionVars, netVars
<1>2. ASSUME NEW ok \in BOOLEAN, NetworkConnect(ok) PROVE ClientStep
  BY <1>2 DEF NetworkConnect, Plain, ClientStep, sendVars, clientVars, sessionVars
<1>3. ASSUME NEW t \in Types, sending'.packet = Packet(t, 0)
      PROVE  sending'.packet \in Requests =>
               t \in {"SUBSCRIBE", "UNSUBSCRIBE", "PUBREL"}
  BY <1>3 DEF Packet, Requests
<1>4. CASE Connect
  <2>1. sending'.packet \notin Requests /\ op'.id = 0
    BY <1>3, <1>4 DEF Connect, StartSend, NoOp, Types
  <2>2. op.id = 0
    BY <1>4, NoOpFields DEF Connect, OpInv
  <2> QED
    BY <1>4, <2>1, <2>2 DEF Connect, Plain, ClientStep, appVars, clientVars,
       sessionVars, netVars
<1>5. ASSUME NEW ok \in BOOLEAN, Poll(ok) PROVE ClientStep
  BY <1>5 DEF Poll, Plain, ClientStep, sendVars, clientVars, sessionVars, netVars
<1>6. ASSUME NEW ok \in BOOLEAN, SelectReturns(ok) PROVE ClientStep
  BY <1>6 DEF SelectReturns, Plain, ClientStep, sendVars, clientVars, sessionVars,
              netVars
<1>7. CASE Yield
  <2>1. op'.id = 0 /\ op.id = 0
    BY <1>7, NoOpFields DEF Yield, Working, NoOp, OpInv
  <2> QED
    BY <1>7, <2>1 DEF Yield, Plain, ClientStep, sendVars, clientVars, sessionVars,
       netVars
<1>8. CASE Disconnect
  <2>1. sending'.packet \notin Requests /\ op'.id = 0
    BY <1>3, <1>8 DEF Disconnect, StartSend, NoOp, Types
  <2>2. op.id = 0
    BY <1>8, NoOpFields DEF Disconnect, Working, OpInv
  <2> QED
    BY <1>8, <2>1, <2>2 DEF Disconnect, Plain, ClientStep, appVars, clientVars,
       sessionVars, netVars
<1>9. ASSUME pc = "idle", ~(app \in {"suspended", "net", "connect"}),
             NEW kind \in {"subscribe", "unsubscribe", "publish"},
             NEW type \in {"SUBSCRIBE", "UNSUBSCRIBE", "PUBLISH"},
             type = "SUBSCRIBE" => kind = "subscribe",
             type = "PUBLISH" <=> kind = "publish",
             NEW f, NEW q \in 0..2, Request(kind, type, f, q), UNCHANGED netVars
      PROVE  ClientStep
  <2> DEFINE id == IF kind = "publish" /\ q = 0 THEN 0 ELSE NextId
             p  == [Packet(type, id) EXCEPT !.topic = f, !.qos = q]
             o  == [kind |-> kind, id |-> id, filter |-> f, qos |-> q]
  <2>1. CASE ~conn
    <3>1. op' = NoOp /\ ~conn' /\ app' # "connect" /\ ~Early'
      BY <1>9, <2>1 DEF Request, Return, CloseSession
    <3> QED
      BY <1>9, <3>1, NoOpFields DEF Closes, ClientStep, netVars
  <2>2. CASE conn
    <3>1. /\ p.id = id /\ p.type = type /\ p.topic = f /\ p.qos = q
          /\ o.id = id /\ o.kind = kind /\ o.filter = f
      BY DEF Packet
    <3>2. /\ op' = o /\ sending'.packet = p
          /\ UNCHANGED <<app, sessionVars, readbuf, netVars>>
      BY <1>9, <2>2 DEF Request, StartSend
    <3>3. CASE id = 0
      <4>1. kind = "publish" /\ q = 0
        BY <3>3, MqttAssumption DEF NextId, TypeInv, RestType
      <4>2. p \notin Requests
        BY <1>9, <3>1, <4>1 DEF Requests
      <4>3. op.id = 0
        BY <1>9, NoOpFields DEF OpInv
      <4> HIDE DEF p, o
      <4> QED
        BY <3>1, <3>2, <3>3, <4>2, <4>3 DEF Plain, ClientStep, sessionVars, netVars
    <3>4. CASE id # 0
      <4> HIDE DEF p, o, id
      <4> QED
        BY <1>9, <2>2, <3>1, <3>2, <3>4 DEF Begins, ClientStep, sessionVars, netVars
    <3> QED BY <3>3, <3>4
  <2> QED BY <2>1, <2>2
<1>10. CASE Subscribe
  BY <1>9, <1>10 DEF Subscribe
<1>11. ASSUME NEW f \in Filters, SubscribeMore(f) PROVE ClientStep
  BY <1>9, <1>11 DEF SubscribeMore, Working
<1>12. CASE Unsubscribe
  BY <1>9, <1>12 DEF Unsubscribe, Working
<1>13. ASSUME NEW q \in Qos, Publish(q) PROVE ClientStep
  BY <1>9, <1>13, MqttAssumption DEF Publish, Working
<1> QED
  BY <1>1, <1>2, <1>4, <1>5, <1>6, <1>7, <1>8, <1>10, <1>11, <1>12, <1>13, Zenon
  DEF Task

\* The steps of a call in progress.
LEMMA LibrarySteps ==
  ASSUME TypeInv, SessionInv, OpInv, TypeInv', OpInv', Library PROVE ClientStep
<1>1. Nothing \notin Acks /\ Nothing \notin Requests
  BY DEF Nothing, Packet, Acks, Requests
<1>2. ASSUME pc # "idle", NEW late, Fail(late), UNCHANGED <<granted, sock>>
      PROVE  ClientStep
  BY <1>2, FailCloses DEF Closes, ClientStep
<1>3. ASSUME NEW r, NEW late, Return(r, late), op.id = 0, pc # "idle",
             conn' => conn, UNCHANGED <<handlers, inbox, granted, sock>>,
             outbox' \in {outbox, Append(outbox, sending.packet)}
      PROVE  ClientStep
  <2>1. op'.id = 0 /\ sending'.packet = Nothing /\ readbuf' = Nothing /\ ~Early'
    BY <1>3, NoOpFields DEF Return, Early, SessionInv
  <2> QED
    BY <1>1, <1>3, <2>1 DEF Plain, ClientStep, Live, Open
<1>4. CASE EnterWrite
  BY <1>4 DEF EnterWrite, Plain, ClientStep, Live, Open, Early, appVars, sendVars,
              clientVars, sessionVars, netVars
<1>5. ASSUME NEW n \in 0..PacketLen, Write(n) PROVE ClientStep
  BY <1>5 DEF Write, Plain, ClientStep, Live, Open, Early, appVars, clientVars,
              sessionVars, netVars
<1>6. CASE SendFails \/ WriteFails
  BY <1>2, <1>6 DEF SendFails, WriteFails, Sent
<1>7. CASE SendSucceeds
  <2> DEFINE late == expired \ {"sent"}
  <2>1. /\ outbox' \in {outbox, Append(outbox, sending.packet)}
        /\ outbox' = outbox \/ sock = "up"
        /\ UNCHANGED <<sock, inbox, granted>> /\ pc # "idle"
    BY <1>7 DEF SendSucceeds, Sent
  <2>2. CASE sending.why = "request" /\ Awaited(op) = "none"
    <3>1. Return("SUCCESS", late)
      BY <1>7, <2>2 DEF SendSucceeds
    <3>2. op.id = 0
      BY <2>2 DEF OpInv, Awaited, TypeInv, CallType, Ops
    <3>3. CASE op.kind = "disconnect"
      <4>1. ~conn' /\ op' = NoOp /\ ~Early'
        BY <1>7, <2>2, <3>1, <3>3 DEF SendSucceeds, Return, CloseSession, Early, SessionInv
      <4> QED
        BY <2>1, <4>1, NoOpFields DEF Closes, ClientStep, Live, Open
    <3>4. CASE op.kind # "disconnect"
      <4>1. UNCHANGED sessionVars
        BY <1>7, <2>2, <3>4 DEF SendSucceeds
      <4> QED
        BY <1>3, <2>1, <3>1, <3>2, <4>1 DEF sessionVars
    <3> QED BY <3>3, <3>4
  <2>3. CASE ~(sending.why = "request" /\ Awaited(op) = "none")
    <3>1. /\ sending' = NotSending
          /\ UNCHANGED <<app, op, readbuf, conn, handlers>>
      BY <1>7, <2>3 DEF SendSucceeds, EndSend, sessionVars
    <3>2. CASE sending.packet \in Requests
      BY <2>1, <3>1, <3>2 DEF Sends, ClientStep
    <3>3. CASE sending.packet \notin Requests
      BY <1>1, <2>1, <3>1, <3>3, NoOpFields DEF Plain, ClientStep, Live, Open, Early
    <3> QED BY <3>2, <3>3
  <2> QED BY <2>2, <2>3
<1>8. CASE EnterRead
  BY <1>1, <1>8 DEF EnterRead, Plain, ClientStep, Live, Open, Early, appVars, sendVars,
     clientVars, sessionVars, netVars
<1>9. CASE WaitExpires
  <2>1. CASE op.kind = "yield"
    <3>1. op.id = 0
      BY <2>1 DEF OpInv
    <3> QED
      BY <1>3, <1>9, <2>1, <3>1 DEF WaitExpires, sessionVars, netVars
  <2>2. CASE op.kind # "yield"
    BY <1>2, <1>9, <2>2 DEF WaitExpires, netVars
  <2> QED BY <2>1, <2>2
<1>10. CASE ReadPacket
  <2> DEFINE p == Head(inbox)
  <2>1. /\ pc = "read" /\ inbox # <<>> /\ inbox' = Tail(inbox) /\ p \in Packets
        /\ UNCHANGED <<outbox, granted, sock>>
    BY <1>10, HeadTailProperties DEF ReadPacket, TypeInv, NetType
  <2>2. sending.packet \notin Requests
    BY <1>1, <2>1, NoOpFields DEF OpInv
  <2> HIDE DEF p
  <2>3. ASSUME UNCHANGED <<app, op, conn, handlers>>, readbuf' = p,
               p \notin Acks, sending'.packet \notin Requests
        PROVE  ClientStep
    BY <2>1, <2>3 DEF Plain, ClientStep, Live, Open, Early, p
  <2>4. CASE HandleAck(p)
    <3>1. CASE p \in Acks
      BY <2>1, <2>4, <3>1 DEF HandleAck, Read, Untouched, Takes, ClientStep, Replies,
         sendVars, p
    <3>2. CASE p \notin Acks
      BY <2>2, <2>3, <2>4, <3>2 DEF HandleAck, Read, Untouched, sendVars
    <3> QED BY <3>1, <3>2
  <2>5. CASE HandlePublish(p)
    <3>1. p \notin Acks
      BY <2>5 DEF HandlePublish, Acks
    <3>2. Acknowledge(p) => sending'.packet \notin Requests
      BY <2>5 DEF HandlePublish, Acknowledge, StartSend, AnswerType, Packet, Requests
    <3> QED
      BY <2>2, <2>3, <2>5, <3>1, <3>2 DEF HandlePublish, Read, Untouched, sendVars
  <2>6. CASE HandleExchange(p)
    <3>1. readbuf' = p /\ UNCHANGED <<app, op, conn, handlers>>
      BY <2>6 DEF HandleExchange, Read, Untouched
    <3>2. PICK i \in IdsOf(p) : sending'.packet = Packet(AnswerType(p), i)
      BY <2>6 DEF HandleExchange, Acknowledge, StartSend
    <3>3. CASE p.type = "PUBREL"
      <4>1. p \notin Acks /\ sending'.packet \notin Requests
        BY <3>2, <3>3 DEF AnswerType, Packet, Acks, Requests
      <4> QED
        BY <2>3, <3>1, <4>1
    <3>4. CASE p.type = "PUBREC"
      <4>1. p \in Replies /\ sending'.packet = Packet("PUBREL", i)
        BY <2>1, <3>2, <3>4 DEF Replies, AnswerType
      <4> QED
        BY <2>1, <3>1, <3>4, <4>1 DEF Takes, ClientStep, p
    <3> QED
      BY <2>6, <3>3, <3>4 DEF HandleExchange
  <2>7. CASE HandleOther(p)
    <3>1. /\ UNCHANGED <<app, op, sending>> /\ readbuf' = p
          /\ conn => ~conn' /\ ~Early /\ ~Early'
          /\ ~conn => UNCHANGED <<conn, handlers>>
      BY <2>7 DEF HandleOther, Read, CloseSession, sendVars, sessionVars, SessionInv,
         Early
    <3>2. ~Open' \/ UNCHANGED <<conn, handlers>>
      BY <3>1 DEF Open
    <3>3. CASE p \in Acks
      BY <2>1, <3>1, <3>2, <3>3 DEF Takes, ClientStep, Replies, p
    <3>4. CASE p \notin Acks /\ ~conn
      BY <2>2, <2>3, <3>1, <3>4
    <3>5. CASE p \notin Acks /\ conn
      BY <2>1, <2>2, <3>1, <3>5 DEF Plain, ClientStep, Live, Open, p
    <3> QED BY <3>3, <3>4, <3>5
  <2> QED
    BY <1>10, <2>4, <2>5, <2>6, <2>7 DEF ReadPacket, p
<1>11. CASE ReadNothing
  BY <1>1, <1>11 DEF ReadNothing, Plain, ClientStep, Live, Open, Early, appVars,
     sendVars, clientVars, sessionVars
<1>12. ASSUME NEW t \in Leftovers, ReadOverflow(t) PROVE ClientStep
  BY <1>2, <1>12 DEF ReadOverflow
<1>13. CASE KeepaliveNotDue
  BY <1>13 DEF KeepaliveNotDue, Plain, ClientStep, Live, Open, Early, appVars, sendVars,
     clientVars, sessionVars, netVars
<1>14. CASE KeepalivePings
  <2>1. sending'.packet \notin Requests
    BY <1>14 DEF KeepalivePings, StartSend, Packet, Requests
  <2> QED
    BY <1>14, <2>1 DEF KeepalivePings, Plain, ClientStep, Live, Open, Early, appVars,
       clientVars, sessionVars, netVars
<1>15. CASE KeepaliveFails
  BY <1>2, <1>15 DEF KeepaliveFails, netVars
<1>16. CASE Finish
  <2>1. /\ pc = "loop" /\ op.kind # "yield" /\ readbuf.type = Awaited(op)
        /\ UNCHANGED <<sock, inbox, outbox, granted>>
    BY <1>16 DEF Finish, GotAnswer, netVars
  <2>2. op.kind \in {"subscribe", "unsubscribe", "publish"} => ~Early /\ ~Early'
    BY <1>16, <2>1 DEF Finish, Connected, Subscribed, Unsubscribed, Published, Fail,
       Return, SessionInv, Early
  <2>3. CASE Connected
    <3>1. op.id = 0 /\ Early /\ ~conn
      BY <2>1, <2>3 DEF Connected, OpInv, SessionInv, Early
    <3>2. op'.id = 0 /\ sending' = NotSending /\ readbuf' = Nothing /\ ~Early'
      BY <2>1, <2>3, NoOpFields DEF Connected, Return, Early, SessionInv
    <3> QED
      BY <1>1, <2>1, <2>3, <3>1, <3>2, NoOpFields DEF Connected, Plain, ClientStep,
         Live, Open
  <2>4. CASE Subscribed
    <3>1. readbuf \in Acks
      BY <2>1, <2>4 DEF Subscribed, Awaited, Acks, TypeInv, CallType
    <3>2. CASE Fail(expired)
      BY <1>2, <2>1, <3>2
    <3>3. CASE ~Fail(expired)
      <4>1. /\ op' = NoOp /\ sending' = NotSending /\ readbuf' = Nothing
            /\ UNCHANGED conn
        BY <2>4, <3>3 DEF Subscribed, Return, sessionVars
      <4> QED
        BY <2>1, <2>2, <2>4, <3>1, <3>3, <4>1 DEF Subscribed, Ends, ClientStep,
           sessionVars
    <3> QED BY <3>2, <3>3
  <2>5. CASE Unsubscribed
    <3>1. readbuf \in Acks /\ ~conn
      BY <2>1, <2>5 DEF Unsubscribed, Awaited, Acks, TypeInv, CallType, OpInv
    <3> QED
      BY <2>1, <2>2, <2>5, <3>1 DEF Unsubscribed, Return, Ends, ClientStep, Open
  <2>6. CASE Published
    <3>1. readbuf \in Acks \/ op.id = 0
      BY <2>1, <2>6 DEF Published, Awaited, Acks, OpInv, TypeInv, CallType, Ops
    <3>2. CASE op.id = 0
      BY <1>3, <2>1, <2>6, <3>2 DEF Published, sessionVars
    <3>3. CASE op.id # 0
      BY <2>1, <2>2, <2>6, <3>1, <3>3 DEF Published, Return, Ends, ClientStep,
         sessionVars
    <3> QED BY <3>2, <3>3
  <2> QED
    BY <1>16, <2>3, <2>4, <2>5, <2>6 DEF Finish
<1> QED
  BY <1>4, <1>5, <1>6, <1>7, <1>8, <1>9, <1>10, <1>11, <1>12, <1>13, <1>14, <1>15,
     <1>16, Zenon DEF Library, Runs

(***************************************************************************)
(* The answers.  No call compares identifiers, so that the answer is the   *)
(* right one is a matter of the whole exchange: while there may be a call  *)
(* with an identifier, at most one packet of an exchange is under way, in  *)
(* c->buf, to the broker, from the broker or in readbuf, and it is one of  *)
(* the call in progress.  A call that ends without its answer leaves one   *)
(* behind, but closes the session for good.  A PUBREC of which only the    *)
(* type has come is answered with whatever identifier, but it comes from a *)
(* connection that has ended, and the answer goes nowhere.                 *)
(***************************************************************************)
Cut == {p \in Packets : p.body = "cut"}

CutInv ==
  /\ sock # "down" => NoneOf(inbox, Cut)
  /\ app \in {"suspended", "net"} => sock = "none"

Foreign(T, id) == {p \in T : p.id # id}

TokenInv ==
  Live =>
    /\ sending.packet \in Requests =>
         /\ op.id # 0 /\ (sending.packet.id = op.id \/ sock = "down")
         /\ NoneOf(outbox, Requests) /\ NoneOf(inbox, Replies)
         /\ readbuf \notin Acks
    /\ NoneOf(outbox, Foreign(Requests, op.id)) /\ OneOf(outbox, Requests)
    /\ \/ NoneOf(outbox, Requests)
       \/ op.id # 0 /\ NoneOf(inbox, Replies) /\ readbuf \notin Acks
    /\ NoneOf(inbox, Foreign(Replies, op.id)) /\ OneOf(inbox, Replies)
    /\ NoneOf(inbox, Replies) \/ (op.id # 0 /\ readbuf \notin Acks)
    /\ readbuf \in Acks => op.id # 0 /\ readbuf.id = op.id

\* What the broker answers: a packet of an exchange for one of an exchange,
\* with its identifier, and a SUBACK for a SUBSCRIBE.
LEMMA BrokerAnswers ==
  ASSUME TypeInv, NEW ok \in BOOLEAN, BrokerReads(ok)
  PROVE  \/ inbox' = inbox
         \/ \E r \in Packets :
              /\ inbox' = Append(inbox, r)
              /\ r.id = Head(outbox).id /\ r.type # "PUBLISH" /\ r.body # "cut"
              /\ r \in Replies => Head(outbox) \in Requests
              /\ r.type = "SUBACK" =>
                   /\ Head(outbox).type = "SUBSCRIBE"
                   /\ r.body = "ok" \/ (~ok /\ Head(outbox).topic \notin granted)
<1> DEFINE p == Head(outbox)
           r(t) == [Packet(t, p.id) EXCEPT !.body = IF ok THEN "ok" ELSE "refused"]
<1>1. p \in Packets
  BY HeadTailProperties DEF BrokerReads, TypeInv, NetType, Outgoing
<1>2. SUFFICES ASSUME NEW t \in ReplyTypes(p), inbox' = Append(inbox, r(t))
               PROVE  \E x \in Packets :
                        /\ inbox' = Append(inbox, x)
                        /\ x.id = p.id /\ x.type # "PUBLISH" /\ x.body # "cut"
                        /\ x \in Replies => p \in Requests
                        /\ x.type = "SUBACK" =>
                             /\ p.type = "SUBSCRIBE"
                             /\ x.body = "ok" \/ (~ok /\ p.topic \notin granted)
  BY DEF BrokerReads
<1>3. r(t) \in Packets
  BY <1>1, <1>2 DEF ReplyTypes, Packet, Packets, Types
<1>4. /\ r(t).id = p.id /\ r(t).type = t
      /\ r(t).body = IF ok THEN "ok" ELSE "refused"
  BY DEF Packet
<1>5. /\ t # "PUBLISH"
      /\ t \in {"SUBACK", "UNSUBACK", "PUBACK", "PUBCOMP", "PUBREC"} => p \in Requests
      /\ t = "SUBACK" => p.type = "SUBSCRIBE"
  <2> HIDE DEF p
  <2>1. t \in ReplyTypes(p)
    BY <1>2
  <2>2. t # "PUBLISH" /\ (t = "SUBACK" => p.type = "SUBSCRIBE")
    BY <2>1 DEF ReplyTypes
  <2>3. t \in {"SUBACK", "UNSUBACK", "PUBACK", "PUBCOMP", "PUBREC"} =>
          \/ p.type \in {"SUBSCRIBE", "UNSUBSCRIBE", "PUBREL"}
          \/ p.type = "PUBLISH" /\ p.qos # 0
    BY <2>1 DEF ReplyTypes
  <2> QED
    BY <1>1, <2>2, <2>3 DEF Requests
<1>6. p.type = "SUBSCRIBE" => ok \/ p.topic \notin granted
  BY DEF BrokerReads
<1>7. r(t) \in Replies =>
        t \in {"SUBACK", "UNSUBACK", "PUBACK", "PUBCOMP", "PUBREC"}
  BY <1>4 DEF Replies, Acks
<1> HIDE DEF p, r
<1> WITNESS r(t) \in Packets
<1> QED
  BY <1>2, <1>3, <1>4, <1>5, <1>6, <1>7

\* A connection that ends cuts off the queue from the broker and perhaps its
\* last packet, and touches neither types nor identifiers.
LEMMA CutInbox ==
  ASSUME TypeInv, NEW k \in 0..Len(inbox), NEW cut \in BOOLEAN, ConnectionEnds(k, cut)
  PROVE  /\ Len(inbox') = k /\ Len(inbox') <= Len(inbox)
         /\ \A i \in 1..Len(inbox') :
              /\ inbox'[i].type = inbox[i].type /\ inbox'[i].id = inbox[i].id
              /\ inbox'[i].topic = inbox[i].topic
              /\ inbox'[i].body = inbox[i].body \/ inbox'[i].body = "cut"
              /\ inbox[i] \in Packets
<1>1. \A i \in 1..k : inbox[i] \in Packets
  BY DEF TypeInv, NetType
<1> QED
  BY <1>1 DEF ConnectionEnds, Packets

\* What the environment leaves alone.
callVars == <<app, op, sending, readbuf, conn, handlers>>

\* The steps of timers, the broker and the connection.
LEMMA EnvironmentSteps ==
  ASSUME Environment
  PROVE  /\ UNCHANGED callVars
         /\ \/ UNCHANGED netVars
            \/ BrokerGrants
            \/ \E ok \in BOOLEAN : BrokerReads(ok)
            \/ \E t \in Topics, q \in 0..2, b \in {"ok", "long"} :
                 BrokerPublishes(t, q, b)
            \/ \E k \in 0..Len(inbox), cut \in BOOLEAN : ConnectionEnds(k, cut)
<1> USE DEF callVars, appVars, sendVars, clientVars, sessionVars
<1>1. ASSUME NEW t \in Timers, Expire(t) PROVE UNCHANGED <<callVars, netVars>>
  BY <1>1 DEF Expire
<1>2. BrokerGrants => UNCHANGED callVars
  BY DEF BrokerGrants
<1>3. ASSUME NEW ok \in BOOLEAN, BrokerReads(ok) PROVE UNCHANGED callVars
  BY <1>3, Zenon DEF BrokerReads
<1>4. ASSUME NEW t \in Topics, NEW q \in 0..2, NEW b \in {"ok", "long"},
             BrokerPublishes(t, q, b)
      PROVE  UNCHANGED callVars
  BY <1>4 DEF BrokerPublishes
<1>5. ASSUME NEW k \in 0..Len(inbox), NEW cut \in BOOLEAN, ConnectionEnds(k, cut)
      PROVE  UNCHANGED callVars
  BY <1>5 DEF ConnectionEnds
<1> HIDE DEF callVars
<1> QED
  BY <1>1, <1>2, <1>3, <1>4, <1>5, Zenon DEF Environment

\* Before MQTTConnect has returned there is no call with an identifier.
LEMMA EarlyHasNoId ==
  ASSUME SessionInv, OpInv, Early PROVE op.id = 0
BY NoOpFields DEF SessionInv, OpInv, Early

\* What the client does with the connection: it makes it once, reads from it,
\* and may take the rest of a long packet for a packet.
Boot == app \in {"suspended", "net"}

ConnectionStep ==
  /\ Boot' => Boot
  /\ sock' = sock \/ (Boot /\ ~Boot')
  /\ \/ inbox' = inbox
     \/ inbox # <<>> /\ inbox' = Tail(inbox)
     \/ /\ inbox # <<>>
        /\ \E t \in Leftovers : inbox' = <<Packet(t, 0)>> \o Tail(inbox)

LEMMA TaskConnection == ASSUME Task PROVE ConnectionStep
<1> USE DEF ConnectionStep, Boot
<1>1. ASSUME NEW kind, NEW type, NEW f, NEW q, Request(kind, type, f, q)
      PROVE  Boot' => Boot
  BY <1>1 DEF Request, Return
<1>2. CASE Resume
  BY <1>2 DEF Resume, netVars
<1>3. ASSUME NEW ok \in BOOLEAN, NetworkConnect(ok) PROVE ConnectionStep
  BY <1>3 DEF NetworkConnect
<1>4. CASE Connect \/ Yield \/ Disconnect
  BY <1>4 DEF Connect, Yield, Disconnect, appVars, netVars
<1>5. CASE Subscribe \/ Unsubscribe
  BY <1>1, <1>5 DEF Subscribe, Unsubscribe, netVars
<1>6. ASSUME NEW ok \in BOOLEAN, Poll(ok) \/ SelectReturns(ok) PROVE ConnectionStep
  BY <1>6 DEF Poll, SelectReturns, netVars
<1>7. ASSUME NEW f \in Filters, SubscribeMore(f) PROVE ConnectionStep
  BY <1>1, <1>7 DEF SubscribeMore, netVars
<1>8. ASSUME NEW q \in Qos, Publish(q) PROVE ConnectionStep
  BY <1>1, <1>8 DEF Publish, netVars
<1> QED
  BY <1>2, <1>3, <1>4, <1>5, <1>6, <1>7, <1>8, Zenon DEF Task

LEMMA LibraryConnection == ASSUME Library PROVE ConnectionStep
<1> USE DEF ConnectionStep, Boot
<1>1. ASSUME NEW x, NEW late, Return(x, late) PROVE Boot' => Boot
  BY <1>1 DEF Return
<1>2. ASSUME NEW late, Fail(late) PROVE Boot' => Boot
  BY <1>1, <1>2 DEF Fail
<1>3. CASE EnterWrite \/ EnterRead \/ KeepaliveNotDue \/ KeepalivePings
  BY <1>3 DEF EnterWrite, EnterRead, KeepaliveNotDue, KeepalivePings, appVars, netVars
<1>4. ASSUME NEW n \in 0..PacketLen, Write(n) PROVE ConnectionStep
  BY <1>4 DEF Write, appVars, netVars
<1>5. CASE SendFails \/ WriteFails
  BY <1>2, <1>5 DEF SendFails, WriteFails, Sent
<1>6. CASE SendSucceeds
  <2>1. UNCHANGED <<sock, inbox>>
    BY <1>6 DEF SendSucceeds, Sent
  <2>2. app' = app \/ \E late : Return("SUCCESS", late)
    BY <1>6, Zenon DEF SendSucceeds, EndSend
  <2> QED
    BY <1>1, <2>1, <2>2
<1>7. CASE WaitExpires \/ KeepaliveFails
  BY <1>1, <1>2, <1>7 DEF WaitExpires, KeepaliveFails, netVars
<1>8. CASE ReadPacket
  BY <1>8 DEF ReadPacket, HandleAck, HandlePublish, HandleExchange, HandleOther,
     Untouched
<1>9. CASE ReadNothing
  BY <1>9 DEF ReadNothing, appVars
<1>10. ASSUME NEW t \in Leftovers, ReadOverflow(t) PROVE ConnectionStep
  BY <1>2, <1>10 DEF ReadOverflow
<1>11. CASE Finish
  BY <1>1, <1>2, <1>11 DEF Finish, Connected, Subscribed, Unsubscribed, Published,
     netVars
<1> QED
  BY <1>3, <1>4, <1>5, <1>6, <1>7, <1>8, <1>9, <1>10, <1>11, Zenon DEF Library, Runs

\* CutInv is inductive: only a connection that ends breaks packets off, and
\* none is made after it.
LEMMA CutInvInductive ==
  ASSUME TypeInv, CutInv, [Next]_vars
  PROVE  CutInv'
<1>1. inbox \in Seq(Packets)
  BY DEF TypeInv, NetType
<1>2. CASE Task \/ Library
  <2>1. ConnectionStep
    BY <1>2, TaskConnection, LibraryConnection
  <2>2. NoneOf(inbox, Cut) => NoneOf(inbox', Cut)
    <3>1. CASE inbox # <<>> /\ inbox' = Tail(inbox)
      BY <1>1, <3>1, TailCounts
    <3>2. ASSUME inbox # <<>>, NEW t \in Leftovers,
                 inbox' = <<Packet(t, 0)>> \o Tail(inbox)
          PROVE  NoneOf(inbox, Cut) => NoneOf(inbox', Cut)
      <4> DEFINE p == Packet(t, 0)
                 s == Tail(inbox)
      <4>1. p \notin Cut
        BY DEF Packet, Cut
      <4>2. s \in Seq(Packets)
        BY <1>1, <3>2, HeadTailProperties
      <4>3. NoneOf(inbox, Cut) => NoneOf(s, Cut)
        BY <1>1, <3>2, TailCounts
      <4>4. p \in Packets
        BY PacketType, MqttAssumption DEF Leftovers, Types, Ids
      <4> HIDE DEF p, s
      <4>5. Len(inbox') = 1 + Len(s)
            /\ \A i \in 1..Len(inbox') : inbox'[i] = IF i = 1 THEN p ELSE s[i - 1]
        BY <3>2, <4>2, <4>4 DEF p, s
      <4>6. \A i \in 1..Len(inbox') : i = 1 \/ i - 1 \in 1..Len(s)
        BY <4>2, <4>5
      <4> QED
        BY <4>1, <4>3, <4>5, <4>6 DEF NoneOf
    <3> QED
      BY <2>1, <3>1, <3>2 DEF ConnectionStep
  <2> QED
    BY <2>1, <2>2 DEF ConnectionStep, CutInv, Boot
<1>3. CASE Environment
  <2>1. app' = app
    BY <1>3, EnvironmentSteps DEF callVars
  <2>2. ASSUME NEW x \in Packets, inbox' = Append(inbox, x), x.body # "cut",
               sock' = sock
        PROVE  CutInv'
    <3>1. x \notin Cut
      BY <2>2 DEF Cut
    <3>2. NoneOf(inbox, Cut) => NoneOf(inbox', Cut)
      BY <1>1, <2>2, <3>1, AppendCounts
    <3> QED
      BY <2>1, <2>2, <3>2 DEF CutInv
  <2>3. CASE UNCHANGED netVars \/ BrokerGrants
    BY <2>1, <2>3 DEF netVars, BrokerGrants, CutInv
  <2>4. ASSUME NEW ok \in BOOLEAN, BrokerReads(ok) PROVE CutInv'
    <3>1. sock' = sock
      BY <2>4 DEF BrokerReads
    <3>2. CASE inbox' = inbox
      BY <2>1, <3>1, <3>2 DEF CutInv
    <3> QED
      BY <2>2, <2>4, <3>1, <3>2, BrokerAnswers
  <2>5. ASSUME NEW t \in Topics, NEW q \in 0..2, NEW b \in {"ok", "long"},
               BrokerPublishes(t, q, b)
        PROVE  CutInv'
    <3> DEFINE p == [Packet("PUBLISH", 1) EXCEPT !.topic = t, !.qos = q, !.body = b]
    <3>1. inbox' = Append(inbox, p) /\ sock' = sock
      BY <2>5 DEF BrokerPublishes
    <3>2. p \in Packets /\ p.body # "cut"
      BY MessageType
    <3> QED
      BY <2>2, <3>1, <3>2
  <2>6. ASSUME NEW k \in 0..Len(inbox), NEW cut \in BOOLEAN, ConnectionEnds(k, cut)
        PROVE  CutInv'
    <3>1. sock = "up" /\ sock' = "down"
      BY <2>6 DEF ConnectionEnds
    <3> QED
      BY <2>1, <3>1 DEF CutInv
  <2> QED
    BY <1>3, <2>3, <2>4, <2>5, <2>6, EnvironmentSteps, Zenon
<1>4. CASE UNCHANGED vars
  BY <1>4 DEF vars, CutInv, appVars, netVars
<1> QED
  BY <1>2, <1>3, <1>4 DEF Next

\* TokenInv is inductive relative to the invariants above.
LEMMA TokenInvInductive ==
  ASSUME TypeInv, SessionInv, OpInv, CutInv, TypeInv', OpInv', TokenInv, [Next]_vars
  PROVE  TokenInv'
<1> SUFFICES ASSUME Live' PROVE TokenInv'
  BY DEF TokenInv
<1>1. /\ inbox \in Seq(Packets) /\ inbox' \in Seq(Packets)
      /\ outbox \in Seq(Packets) /\ outbox' \in Seq(Packets)
      /\ sending.packet \in Packets /\ readbuf \in Packets
  BY DEF TypeInv, NetType, CallType, Sendings, Outgoing
<1>2. /\ Nothing \notin Requests /\ Nothing \notin Acks
      /\ Acks \subseteq Replies
  BY DEF Nothing, Packet, Requests, Acks, Replies
<1>3. \A T, id : /\ Foreign(T, id) \subseteq T
                 /\ \A p \in T : p.id = id <=> p \notin Foreign(T, id)
  BY DEF Foreign
<1>4. CASE Plain
  <2>1. Live /\ op'.id = op.id
    BY <1>4 DEF Plain
  <2>2. ASSUME NEW T
        PROVE  /\ NoneOf(inbox, T) => NoneOf(inbox', T)
               /\ OneOf(inbox, T) => OneOf(inbox', T)
    <3>1. CASE inbox # <<>> /\ inbox' = Tail(inbox)
      BY <1>1, <3>1, TailCounts
    <3> QED
      BY <1>4, <3>1 DEF Plain
  <2>3. outbox' = outbox \/ (/\ outbox' = Append(outbox, sending.packet)
                            /\ sending.packet \notin Requests)
    BY <1>4, <2>1 DEF Plain, TokenInv
  <2>4. ASSUME NEW T \in SUBSET Requests
        PROVE  /\ NoneOf(outbox, T) => NoneOf(outbox', T)
               /\ OneOf(outbox, T) => OneOf(outbox', T)
    <3>1. CASE /\ outbox' = Append(outbox, sending.packet)
               /\ sending.packet \notin T
      BY <1>1, <3>1, AppendCounts
    <3> QED
      BY <2>3, <2>4, <3>1
  <2>5. /\ sending'.packet \in Requests => sending' = sending
        /\ readbuf' \in Acks => readbuf' = readbuf
    BY <1>4 DEF Plain
  <2>6. NoneOf(outbox', Foreign(Requests, op.id)) /\ NoneOf(inbox', Foreign(Replies, op.id))
    BY <1>3, <2>1, <2>2, <2>4 DEF TokenInv
  <2>7. op.id # 0 => sock' = sock
    BY <1>4, EarlyHasNoId DEF Plain
  <2> QED
    BY <2>1, <2>2, <2>4, <2>5, <2>6, <2>7 DEF TokenInv
<1>5. CASE Closes
  BY <1>5 DEF Closes
<1>6. CASE Begins
  <2>1. Live /\ op.id = 0 /\ sending.packet = Nothing /\ readbuf = Nothing
    BY <1>6, NoOpFields DEF Begins, OpInv, Live, Open
  <2>2. NoneOf(outbox, Requests) /\ NoneOf(inbox, Replies)
    BY <2>1 DEF TokenInv
  <2>3. /\ NoneOf(outbox, Foreign(Requests, op'.id)) /\ OneOf(outbox, Requests)
        /\ NoneOf(inbox, Foreign(Replies, op'.id)) /\ OneOf(inbox, Replies)
    BY <1>1, <1>3, <2>2, NoneOfWeaken
  <2> QED
    BY <1>2, <1>6, <2>1, <2>2, <2>3 DEF Begins, TokenInv
<1>7. CASE Sends
  <2>1. /\ Live /\ op' = op /\ inbox' = inbox /\ readbuf' = readbuf
        /\ sending'.packet = Nothing
    BY <1>7, NoOpFields DEF Sends, Live, Open, Early
  <2>2. /\ op.id # 0 /\ (sending.packet.id = op.id \/ sock = "down")
        /\ NoneOf(outbox, Requests) /\ NoneOf(inbox, Replies) /\ readbuf \notin Acks
    BY <1>7, <2>1 DEF Sends, TokenInv
  <2>3. sock = "up" => sending.packet \notin Foreign(Requests, op.id)
    BY <2>2 DEF Foreign
  <2>4. OneOf(outbox', Requests) /\ NoneOf(outbox', Foreign(Requests, op.id))
    <3>1. CASE sock = "up" /\ outbox' = Append(outbox, sending.packet)
      BY <1>1, <2>1, <2>2, <2>3, <3>1, AppendCounts DEF TokenInv
    <3> QED
      BY <1>7, <2>1, <3>1 DEF Sends, TokenInv
  <2> QED
    BY <1>2, <2>1, <2>2, <2>4 DEF TokenInv
<1>8. CASE Takes
  <2> DEFINE p == Head(inbox)
  <2>1. Live /\ op' = op /\ outbox' = outbox /\ readbuf' = p /\ p \in Replies
    BY <1>8 DEF Takes, Live, Open, Early
  <2>2. ~NoneOf(inbox, Replies) /\ p \notin Foreign(Replies, op.id)
    BY <1>1, <1>8, <2>1, TailCounts DEF Takes, TokenInv
  <2>3. op.id # 0 /\ p.id = op.id /\ NoneOf(outbox, Requests)
    BY <1>3, <2>1, <2>2 DEF TokenInv
  <2>4. NoneOf(inbox', Replies) /\ NoneOf(inbox', Foreign(Replies, op.id))
    BY <1>1, <1>8, <2>1, TailCounts DEF Takes, TokenInv
  <2>5. OneOf(inbox', Replies)
    BY <1>1, <2>4, NoneOfWeaken
  <2>6. \/ p \in Acks /\ sending'.packet \notin Requests
        \/ p \notin Acks /\ (sending'.packet.id = op.id \/ sock' = "down")
    <3>1. CASE p \in Acks /\ sending' = sending
      BY <1>2, <1>8, <3>1, NoOpFields DEF Takes, OpInv
    <3>2. ASSUME p.type = "PUBREC", NEW i \in IdsOf(p),
                 sending'.packet = Packet("PUBREL", i)
          PROVE  p \notin Acks /\ (sending'.packet.id = op.id \/ sock' = "down")
      <4>1. p \notin Acks /\ sending'.packet.id = i
        BY <3>2 DEF Acks, Packet
      <4>2. CASE p.body # "cut"
        BY <2>3, <3>2, <4>1, <4>2 DEF IdsOf
      <4>3. CASE p.body = "cut"
        <5>1. p \in Cut
          BY <2>1, <4>3 DEF Cut, Replies, Acks
        <5>2. sock = "down"
          BY <1>1, <1>8, <5>1, TailCounts DEF Takes, CutInv
        <5> QED
          BY <1>8, <4>1, <5>2 DEF Takes
      <4> QED BY <4>2, <4>3
    <3> QED BY <1>8, <3>1, <3>2 DEF Takes
  <2> HIDE DEF p
  <2> QED
    BY <2>1, <2>3, <2>4, <2>5, <2>6 DEF TokenInv
<1>9. CASE Ends
  <2>1. /\ Live /\ op'.id = 0 /\ inbox' = inbox /\ outbox' = outbox
        /\ sending'.packet = Nothing /\ readbuf' = Nothing /\ readbuf \in Acks
    BY <1>9, NoOpFields DEF Ends, Live, Open
  <2>2. NoneOf(outbox, Requests) /\ NoneOf(inbox, Replies)
    BY <2>1 DEF TokenInv
  <2>3. /\ NoneOf(outbox, Foreign(Requests, 0)) /\ OneOf(outbox, Requests)
        /\ NoneOf(inbox, Foreign(Replies, 0)) /\ OneOf(inbox, Replies)
    BY <1>1, <1>3, <2>2, NoneOfWeaken
  <2> QED
    BY <1>2, <2>1, <2>2, <2>3 DEF TokenInv
<1>10. CASE Task \/ Library
  BY <1>4, <1>5, <1>6, <1>7, <1>8, <1>9, <1>10, TaskSteps, LibrarySteps DEF ClientStep
<1>11. CASE Environment
  <2>1. Live /\ UNCHANGED <<op, sending, readbuf>>
    BY <1>11, EnvironmentSteps DEF callVars, Live, Open, Early
  <2>2. CASE UNCHANGED netVars
    BY <2>1, <2>2 DEF netVars, TokenInv
  <2>3. CASE BrokerGrants
    BY <2>1, <2>3 DEF BrokerGrants, TokenInv
  <2>4. ASSUME NEW ok \in BOOLEAN, BrokerReads(ok) PROVE TokenInv'
    <3> DEFINE p == Head(outbox)
    <3>1. outbox # <<>> /\ outbox' = Tail(outbox) /\ sock' = sock
      BY <2>4 DEF BrokerReads
    <3>2. /\ OneOf(outbox', Requests) /\ NoneOf(outbox', Foreign(Requests, op.id))
          /\ NoneOf(outbox, Requests) => NoneOf(outbox', Requests)
      BY <1>1, <2>1, <3>1, TailCounts DEF TokenInv
    <3>3. CASE inbox' = inbox
      BY <2>1, <3>1, <3>2, <3>3 DEF TokenInv
    <3>4. ASSUME NEW r \in Packets, inbox' = Append(inbox, r), r.id = p.id,
                 r \in Replies => p \in Requests
          PROVE  TokenInv'
      <4>1. CASE r \notin Replies
        <5>1. /\ OneOf(inbox', Replies) /\ NoneOf(inbox', Foreign(Replies, op.id))
              /\ NoneOf(inbox, Replies) => NoneOf(inbox', Replies)
          <6>1. r \notin Foreign(Replies, op.id)
            BY <4>1 DEF Foreign
          <6> QED
            BY <1>1, <2>1, <3>4, <4>1, <6>1, AppendCounts DEF TokenInv
        <5> QED
          BY <2>1, <3>1, <3>2, <5>1 DEF TokenInv
      <4>2. CASE r \in Replies
        <5>1. p \in Requests
          BY <3>4, <4>2
        <5>2. ~NoneOf(outbox, Requests) /\ p \notin Foreign(Requests, op.id)
          BY <1>1, <2>1, <3>1, <5>1, TailCounts DEF TokenInv
        <5>3. /\ op.id # 0 /\ NoneOf(inbox, Replies) /\ readbuf \notin Acks
              /\ sending.packet \notin Requests
          BY <2>1, <5>2 DEF TokenInv
        <5>4. NoneOf(outbox', Requests)
          BY <1>1, <2>1, <3>1, <5>1, TailCounts DEF TokenInv
        <5>5. r \notin Foreign(Replies, op.id)
          BY <1>3, <3>4, <5>1, <5>2 DEF Foreign
        <5>6. OneOf(inbox', Replies) /\ NoneOf(inbox', Foreign(Replies, op.id))
          BY <1>1, <2>1, <3>4, <5>3, <5>5, AppendCounts DEF TokenInv
        <5> QED
          BY <2>1, <3>1, <3>2, <5>3, <5>4, <5>6 DEF TokenInv
      <4> QED BY <4>1, <4>2
    <3> QED
      BY <2>4, <3>3, <3>4, BrokerAnswers
  <2>5. ASSUME NEW t \in Topics, NEW q \in 0..2, NEW b \in {"ok", "long"},
               BrokerPublishes(t, q, b)
        PROVE  TokenInv'
    <3> DEFINE p == [Packet("PUBLISH", 1) EXCEPT !.topic = t, !.qos = q, !.body = b]
    <3>1. inbox' = Append(inbox, p) /\ outbox' = outbox /\ sock' = sock
      BY <2>5 DEF BrokerPublishes
    <3>2. p \in Packets /\ p \notin Replies
      BY MessageType DEF Replies, Acks
    <3> HIDE DEF p
    <3>3. /\ OneOf(inbox', Replies) /\ NoneOf(inbox', Foreign(Replies, op.id))
          /\ NoneOf(inbox, Replies) => NoneOf(inbox', Replies)
      BY <1>1, <1>3, <2>1, <3>1, <3>2, AppendCounts DEF TokenInv
    <3> QED
      BY <2>1, <3>1, <3>3 DEF TokenInv
  <2>6. ASSUME NEW k \in 0..Len(inbox), NEW cut \in BOOLEAN, ConnectionEnds(k, cut)
        PROVE  TokenInv'
    <3>1. \A i \in 1..Len(inbox') :
            /\ inbox'[i] \in Replies => inbox[i] \in Replies
            /\ inbox'[i] \in Foreign(Replies, op.id) => inbox[i] \in Foreign(Replies, op.id)
      BY <2>6, CutInbox DEF Replies, Acks, Foreign
    <3>2. Len(inbox') <= Len(inbox)
      BY <2>6, CutInbox
    <3>5. /\ OneOf(inbox', Replies) /\ NoneOf(inbox', Foreign(Replies, op.id))
          /\ NoneOf(inbox, Replies) => NoneOf(inbox', Replies)
      BY <1>1, <2>1, <3>1, <3>2, PrefixCounts DEF TokenInv
    <3>3. outbox' = <<>> /\ sock' = "down"
      BY <2>6 DEF ConnectionEnds
    <3>4. /\ NoneOf(outbox', Requests) /\ OneOf(outbox', Requests)
          /\ NoneOf(outbox', Foreign(Requests, op.id))
      BY <3>3, NoneOfEmpty
    <3> QED
      BY <2>1, <3>3, <3>4, <3>5 DEF TokenInv
  <2> QED
    BY <1>11, <2>2, <2>3, <2>4, <2>5, <2>6, EnvironmentSteps, Zenon
<1>12. CASE UNCHANGED vars
  BY <1>12 DEF vars, TokenInv, Live, Open, Early, appVars, sendVars, clientVars,
     sessionVars, netVars
<1> QED
  BY <1>10, <1>11, <1>12 DEF Next

(***************************************************************************)
(* The subscriptions.  What the broker has granted has a handler or is     *)
(* what MQTTSubscribe is waiting for; the broker refuses only what it has  *)
(* not granted.                                                            *)
(***************************************************************************)
Handled(h)   == {h[s] : s \in Slots}
Refusals     == {p \in Packets : p.type = "SUBACK" /\ p.body = "refused"}
\* A SUBSCRIBE for something else than the call in progress.
Strays(o)    == {p \in Packets : /\ p.type = "SUBSCRIBE"
                                 /\ o.kind # "subscribe" \/ p.topic # o.filter}

SubInv ==
  /\ sock # "up" \/ Early => granted = {}
  /\ Open => \A f \in granted :
               f \in Handled(handlers) \/ (op.kind = "subscribe" /\ op.filter = f)
  /\ Live =>
       /\ sending.packet \notin Strays(op) /\ NoneOf(outbox, Strays(op))
       /\ NoneOf(inbox, Refusals) \/ op.filter \notin granted
       /\ readbuf \notin Refusals \/ op.filter \notin granted

\* A set of numbers has a least one.
LEMMA LeastNumber ==
  ASSUME NEW S \in SUBSET Nat, S # {}
  PROVE  \E s \in S : \A r \in S : s <= r
<1>1. \E s \in S : \A r \in S : ~(<<r, s>> \in OpToRel(<, Nat))
  BY WFMin, NatLessThanWellFounded
<1>2. \A r, s \in Nat : r < s => <<r, s>> \in OpToRel(<, Nat)
  BY DEF OpToRel
<1>3. \E s \in S : \A r \in S : ~(r < s)
  <2> DEFINE R == OpToRel(<, Nat)
  <2> HIDE DEF R
  <2>1. \E s \in S : \A r \in S : <<r, s>> \notin R
    BY <1>1, Zenon DEF R
  <2>2. \A r, s \in Nat : r < s => <<r, s>> \in R
    BY <1>2, Zenon DEF R
  <2> QED BY <2>1, <2>2
<1> QED
  BY <1>3

\* MQTTSetMessageHandler takes the slot of an equal filter or an empty one.
LEMMA SlotIsFree ==
  ASSUME NEW f, SlotFor(f) \in Slots
  PROVE  handlers[SlotFor(f)] \in {f, NoFilter}
<1> DEFINE same  == {s \in Slots : handlers[s] = f}
           empty == {s \in Slots : handlers[s] = NoFilter}
           these == IF same # {} THEN same ELSE empty
<1>1. these # {}
  BY MqttAssumption DEF SlotFor, Slots
<1>2. these \in SUBSET Nat
  BY MqttAssumption DEF Slots
<1>3. SlotFor(f) = CHOOSE s \in these : \A r \in these : s <= r
  BY <1>1 DEF SlotFor
<1> HIDE DEF these
<1>4. SlotFor(f) \in these
  BY <1>1, <1>2, <1>3, LeastNumber
<1> QED
  BY <1>4 DEF these

\* What the broker grants when it reads a packet.
LEMMA BrokerGranted ==
  ASSUME NEW ok \in BOOLEAN, BrokerReads(ok)
  PROVE  granted' \subseteq
           granted \cup (IF ok /\ Head(outbox).type = "SUBSCRIBE"
                        THEN {Head(outbox).topic} ELSE {})
BY Zenon DEF BrokerReads

\* SubInv is inductive relative to the invariants above.
LEMMA SubInvInductive ==
  ASSUME TypeInv, SessionInv, OpInv, TokenInv, TypeInv', SessionInv', OpInv', TokenInv',
         SubInv, [Next]_vars
  PROVE  SubInv'
<1>1. /\ inbox \in Seq(Packets) /\ inbox' \in Seq(Packets)
      /\ outbox \in Seq(Packets) /\ outbox' \in Seq(Packets)
      /\ sending.packet \in Packets /\ readbuf \in Packets
  BY DEF TypeInv, NetType, CallType, Sendings, Outgoing
<1>2. Refusals \subseteq Acks /\ Refusals \subseteq Replies
  BY DEF Refusals, Acks, Replies
<1>3. \A o : Strays(o) \subseteq Requests
  BY DEF Strays, Requests
<1>4. (Open => Live) /\ (Open' => Live') /\ (Early => Open) /\ (Early' => Open')
  BY DEF Live, Open
<1>5. op.id = 0 => op.kind # "subscribe"
  BY DEF OpInv
\* Between two calls with an identifier nothing of an exchange is under way.
<1>6. ASSUME Live', op'.id = 0
      PROVE  /\ sending'.packet \notin Strays(op') /\ NoneOf(outbox', Strays(op'))
             /\ NoneOf(inbox', Refusals) /\ readbuf' \notin Refusals
  <2>1. /\ sending'.packet \notin Requests /\ NoneOf(outbox', Requests)
        /\ NoneOf(inbox', Replies) /\ readbuf' \notin Acks
    BY <1>6 DEF TokenInv
  <2> QED
    BY <1>1, <1>2, <1>3, <2>1, NoneOfWeaken
<1>7. CASE Plain
  <2>1. /\ granted' = granted /\ (Open' => Open) /\ (Early' => Early)
        /\ (sock' = sock \/ Early) /\ (~Open' \/ handlers' = handlers)
    BY <1>7 DEF Plain
  <2>2. sock' # "up" \/ Early' => granted' = {}
    BY <2>1 DEF SubInv
  <2>3. Open' => \A f \in granted' :
          f \in Handled(handlers') \/ (op'.kind = "subscribe" /\ op'.filter = f)
    BY <1>5, <1>7, <2>1 DEF Plain, SubInv
  <2>4. ASSUME Live', op' = op
        PROVE  /\ sending'.packet \notin Strays(op) /\ NoneOf(outbox', Strays(op))
               /\ NoneOf(inbox', Refusals) \/ op.filter \notin granted
               /\ readbuf' \notin Refusals \/ op.filter \notin granted
    <3>1. /\ Live
          /\ sending.packet \notin Strays(op) /\ NoneOf(outbox, Strays(op))
          /\ NoneOf(inbox, Refusals) \/ op.filter \notin granted
          /\ readbuf \notin Refusals \/ op.filter \notin granted
      BY <1>7, <2>4 DEF Plain, SubInv
    <3>2. outbox' \in {outbox, Append(outbox, sending.packet)}
      BY <1>7 DEF Plain
    <3>3. NoneOf(outbox', Strays(op))
      <4>1. CASE outbox' = Append(outbox, sending.packet)
        BY <1>1, <3>1, <4>1, AppendCounts
      <4> QED BY <3>1, <3>2, <4>1
    <3>4. NoneOf(inbox, Refusals) => NoneOf(inbox', Refusals)
      <4>1. CASE inbox # <<>> /\ inbox' = Tail(inbox)
        BY <1>1, <4>1, TailCounts
      <4> QED BY <1>7, <4>1 DEF Plain
    <3>5. /\ sending'.packet \in Requests => sending' = sending
          /\ readbuf' \in Acks => readbuf' = readbuf
      BY <1>7 DEF Plain
    <3> QED
      BY <1>2, <1>3, <3>1, <3>3, <3>4, <3>5
  <2>5. op' = op \/ op'.id = 0
    BY <1>7 DEF Plain
  <2> QED
    BY <1>6, <2>1, <2>2, <2>3, <2>4, <2>5 DEF SubInv
<1>8. CASE Closes
  BY <1>4, <1>8 DEF Closes, SubInv
<1>9. CASE Begins
  <2>1. /\ Live /\ Open /\ ~Early /\ ~Early' /\ op.id = 0
        /\ UNCHANGED <<readbuf, outbox, inbox, handlers, granted, sock>>
        /\ readbuf = Nothing
    BY <1>9, NoOpFields DEF Begins, OpInv, SessionInv, Live, Open
  <2>2. NoneOf(outbox, Requests) /\ NoneOf(inbox, Replies) /\ readbuf \notin Acks
    BY <2>1 DEF TokenInv
  <2>3. NoneOf(outbox, Strays(op')) /\ NoneOf(inbox, Refusals) /\ readbuf \notin Refusals
    BY <1>1, <1>2, <1>3, <2>2, NoneOfWeaken
  <2>4. sending'.packet \notin Strays(op')
    BY <1>9 DEF Begins, Strays
  <2> QED
    BY <1>5, <2>1, <2>3, <2>4 DEF SubInv
<1>10. CASE Sends
  <2>1. /\ (Live' <=> Live) /\ (Open' <=> Open) /\ (Early' <=> Early)
        /\ UNCHANGED <<op, readbuf, inbox, handlers, granted, sock>>
        /\ sending'.packet = Nothing
    BY <1>10, NoOpFields DEF Sends, Live, Open, Early
  <2>2. Nothing \notin Strays(op)
    BY DEF Nothing, Packet, Strays
  <2>3. Live => NoneOf(outbox', Strays(op))
    <3>1. CASE outbox' = Append(outbox, sending.packet)
      BY <1>1, <3>1, AppendCounts DEF SubInv
    <3> QED BY <1>10, <3>1 DEF Sends, SubInv
  <2> QED
    BY <2>1, <2>2, <2>3 DEF SubInv
<1>11. CASE Takes
  <2> DEFINE p == Head(inbox)
  <2>1. /\ (Live' => Live) /\ (Open' => Open /\ handlers' = handlers)
        /\ (Early' => Early)
        /\ UNCHANGED <<op, outbox, granted, sock>> /\ readbuf' = p
    BY <1>11 DEF Takes, Live, Open, Early
  <2>2. NoneOf(inbox, Refusals) => p \notin Refusals /\ NoneOf(inbox', Refusals)
    BY <1>1, <1>11, TailCounts DEF Takes
  <2>3. sending'.packet = sending.packet \/ sending'.packet \notin Strays(op)
    <3>1. \A i : Packet("PUBREL", i) \notin Strays(op)
      BY DEF Packet, Strays
    <3> QED
      BY <1>11, <3>1 DEF Takes
  <2> HIDE DEF p
  <2> QED
    BY <2>1, <2>2, <2>3 DEF SubInv
<1>12. CASE Ends
  <2>1. /\ (Open' => Open) /\ (Early' => Early) /\ op'.id = 0
        /\ UNCHANGED <<granted, sock>>
    BY <1>12, NoOpFields DEF Ends, Open
  <2>2. ASSUME Open', NEW f \in granted PROVE f \in Handled(handlers')
    <3>1. f \in Handled(handlers) \/ (op.kind = "subscribe" /\ op.filter = f)
      BY <2>1, <2>2 DEF SubInv
    <3>2. CASE op.kind = "publish" /\ UNCHANGED handlers
      BY <3>1, <3>2
    <3>3. CASE op.kind = "subscribe" /\ readbuf.body = "refused" /\ UNCHANGED handlers
      <4>1. readbuf \in Refusals
        BY <1>1, <1>12, <3>3 DEF Ends, Awaited, Refusals
      <4> QED
        BY <1>4, <2>1, <2>2, <3>1, <3>3, <4>1 DEF SubInv
    <3>4. CASE /\ op.kind = "subscribe" /\ SlotFor(op.filter) \in Slots
               /\ handlers' = [handlers EXCEPT ![SlotFor(op.filter)] = op.filter]
      <4> DEFINE x == SlotFor(op.filter)
      <4>1. handlers[x] \in {op.filter, NoFilter} /\ x \in Slots
        BY <3>4, SlotIsFree
      <4>2. handlers \in [Slots -> Filters \cup {NoFilter}] /\ f # NoFilter
        BY MqttAssumption DEF TypeInv, SessionType, NetType
      <4> HIDE DEF x
      <4>3. handlers' = [handlers EXCEPT ![x] = op.filter]
        BY <3>4 DEF x
      <4>4. CASE f = op.filter
        BY <4>1, <4>2, <4>3, <4>4 DEF Handled
      <4>5. CASE f # op.filter
        <5>1. PICK s \in Slots : handlers[s] = f
          BY <3>1, <4>5 DEF Handled
        <5>2. handlers'[s] = f
          BY <4>1, <4>2, <4>3, <4>5, <5>1
        <5> QED
          BY <5>1, <5>2 DEF Handled
      <4> QED BY <4>4, <4>5
    <3> QED
      BY <1>12, <2>2, <3>2, <3>3, <3>4 DEF Ends
  <2> QED
    BY <1>6, <2>1, <2>2 DEF SubInv
<1>13. CASE Task \/ Library
  BY <1>7, <1>8, <1>9, <1>10, <1>11, <1>12, <1>13, TaskSteps, LibrarySteps DEF ClientStep
<1>14. CASE Environment
  <2>1. /\ (Live' <=> Live) /\ (Open' <=> Open) /\ (Early' <=> Early)
        /\ UNCHANGED <<op, sending, readbuf, handlers>>
    BY <1>14, EnvironmentSteps DEF callVars, Live, Open, Early
  \* The packet the broker reads.
  <2>2. ASSUME outbox # <<>>
        PROVE  LET p == Head(outbox) IN
               /\ p \in Packets
               /\ Live /\ p \in Requests =>
                    ~Early /\ NoneOf(inbox, Refusals) /\ readbuf \notin Refusals
               /\ Live /\ p.type = "SUBSCRIBE" =>
                    p \in Requests /\ op.kind = "subscribe" /\ p.topic = op.filter
    <3> DEFINE p == Head(outbox)
    <3>1. p \in Packets
      BY <1>1, <2>2, HeadTailProperties
    <3>2. ASSUME Live, p \in Requests
          PROVE  ~Early /\ NoneOf(inbox, Refusals) /\ readbuf \notin Refusals
      <4>1. ~NoneOf(outbox, Requests)
        BY <1>1, <2>2, <3>2, TailCounts
      <4>2. op.id # 0 /\ NoneOf(inbox, Replies) /\ readbuf \notin Acks
        BY <3>2, <4>1 DEF TokenInv
      <4> QED
        BY <1>1, <1>2, <4>2, EarlyHasNoId, NoneOfWeaken
    <3>3. ASSUME Live, p.type = "SUBSCRIBE"
          PROVE  p \in Requests /\ op.kind = "subscribe" /\ p.topic = op.filter
      <4>1. p \notin Strays(op)
        BY <1>1, <2>2, <3>3, TailCounts DEF SubInv
      <4> QED
        BY <3>1, <3>3, <4>1 DEF Strays, Requests
    <3> QED
      BY <3>1, <3>2, <3>3
  <2>3. CASE UNCHANGED netVars
    BY <2>1, <2>3 DEF netVars, SubInv
  <2>4. CASE BrokerGrants
    <3>1. /\ sock = "up" /\ sock' = "up" /\ outbox # <<>> /\ Head(outbox).type = "SUBSCRIBE"
          /\ granted' = granted \cup {Head(outbox).topic} /\ UNCHANGED <<inbox, outbox>>
      BY <2>4 DEF BrokerGrants
    <3>2. Live => /\ ~Early /\ NoneOf(inbox, Refusals) /\ readbuf \notin Refusals
                  /\ op.kind = "subscribe" /\ Head(outbox).topic = op.filter
      BY <2>2, <3>1
    <3> QED
      BY <1>4, <2>1, <3>1, <3>2 DEF SubInv
  <2>5. ASSUME NEW ok \in BOOLEAN, BrokerReads(ok) PROVE SubInv'
    <3> DEFINE p == Head(outbox)
               new == IF ok /\ p.type = "SUBSCRIBE" THEN {p.topic} ELSE {}
    <3>1. /\ sock = "up" /\ sock' = "up" /\ outbox # <<>> /\ outbox' = Tail(outbox)
      BY <2>5 DEF BrokerReads
    <3>2. granted' \subseteq granted \cup new
      BY <2>5, BrokerGranted
    <3>3. /\ Live /\ p \in Requests =>
               ~Early /\ NoneOf(inbox, Refusals) /\ readbuf \notin Refusals
          /\ Live /\ p.type = "SUBSCRIBE" =>
               p \in Requests /\ op.kind = "subscribe" /\ p.topic = op.filter
      BY <2>2, <3>1
    <3>4. Early' => granted' = {}
      BY <1>4, <2>1, <3>2, <3>3 DEF SubInv
    <3>5. Open' => \A f \in granted' :
            f \in Handled(handlers) \/ (op.kind = "subscribe" /\ op.filter = f)
      BY <1>4, <2>1, <3>2, <3>3 DEF SubInv
    <3>6. Live => NoneOf(outbox', Strays(op))
      BY <1>1, <3>1, TailCounts DEF SubInv
    <3>7. Live => readbuf \notin Refusals \/ op.filter \notin granted'
      BY <3>2, <3>3 DEF SubInv
    <3>8. Live => NoneOf(inbox', Refusals) \/ op.filter \notin granted'
      <4>1. CASE inbox' = inbox
        BY <3>2, <3>3, <4>1 DEF SubInv
      <4>2. ASSUME NEW r \in Packets, inbox' = Append(inbox, r),
                   r.type = "SUBACK" =>
                     /\ p.type = "SUBSCRIBE"
                     /\ r.body = "ok" \/ (~ok /\ p.topic \notin granted)
            PROVE  Live => NoneOf(inbox', Refusals) \/ op.filter \notin granted'
        <5>1. CASE r \in Refusals
          BY <3>2, <3>3, <4>2, <5>1 DEF Refusals
        <5>2. CASE r \notin Refusals
          <6>1. NoneOf(inbox, Refusals) => NoneOf(inbox', Refusals)
            BY <1>1, <4>2, <5>2, AppendCounts
          <6> QED
            BY <3>2, <3>3, <6>1 DEF SubInv
        <5> QED BY <5>1, <5>2
      <4> QED
        BY <2>5, <4>1, <4>2, BrokerAnswers
    <3> QED
      BY <2>1, <3>1, <3>4, <3>5, <3>6, <3>7, <3>8 DEF SubInv
  <2>6. ASSUME NEW t \in Topics, NEW q \in 0..2, NEW b \in {"ok", "long"},
               BrokerPublishes(t, q, b)
        PROVE  SubInv'
    <3> DEFINE p == [Packet("PUBLISH", 1) EXCEPT !.topic = t, !.qos = q, !.body = b]
    <3>1. inbox' = Append(inbox, p) /\ UNCHANGED <<outbox, granted, sock>>
      BY <2>6 DEF BrokerPublishes
    <3>2. p \in Packets /\ p \notin Refusals
      BY MessageType DEF Refusals
    <3> HIDE DEF p
    <3>3. NoneOf(inbox, Refusals) => NoneOf(inbox', Refusals)
      BY <1>1, <3>1, <3>2, AppendCounts
    <3> QED
      BY <2>1, <3>1, <3>3 DEF SubInv
  <2>7. ASSUME NEW k \in 0..Len(inbox), NEW cut \in BOOLEAN, ConnectionEnds(k, cut)
        PROVE  SubInv'
    <3>1. granted' = {} /\ outbox' = <<>>
      BY <2>7 DEF ConnectionEnds
    <3>2. NoneOf(outbox', Strays(op))
      BY <3>1, NoneOfEmpty
    <3> QED
      BY <2>1, <3>1, <3>2 DEF SubInv
  <2> QED
    BY <1>14, <2>3, <2>4, <2>5, <2>6, <2>7, EnvironmentSteps, Zenon
<1>15. CASE UNCHANGED vars
  BY <1>15 DEF vars, SubInv, Live, Open, Early, appVars, sendVars, clientVars,
     sessionVars, netVars
<1> QED
  BY <1>13, <1>14, <1>15 DEF Next

(***************************************************************************)
(* The messages.  One that no handler hears is for the subscription that   *)
(* MQTTSubscribe is waiting for, and is ahead of any SUBACK that would end *)
(* the call without a handler.                                             *)
(***************************************************************************)
Unheard(h)   == {p \in Packets : /\ p.type = "PUBLISH"
                                 /\ \A s \in Slots : <<h[s], p.topic>> \notin Matching}
Lost(h, f)   == {p \in Unheard(h) : <<f, p.topic>> \notin Matching}

PubInv ==
  Open =>
    /\ NoneOf(inbox, Unheard(handlers)) \/ op.kind = "subscribe"
    /\ NoneOf(inbox, Lost(handlers, op.filter))
    /\ Before(inbox, Unheard(handlers), Refusals)
    /\ NoneOf(inbox, Unheard(handlers)) \/ readbuf \notin Refusals

\* PubInv is inductive relative to the invariants above.
LEMMA PubInvInductive ==
  ASSUME TypeInv, SessionInv, OpInv, TokenInv, SubInv, TypeInv', SessionInv', OpInv',
         PubInv, [Next]_vars
  PROVE  PubInv'
<1> SUFFICES ASSUME Open' PROVE PubInv'
  BY DEF PubInv
<1>1. inbox \in Seq(Packets) /\ inbox' \in Seq(Packets) /\ readbuf \in Packets
  BY DEF TypeInv, NetType, CallType
<1>2. Refusals \subseteq Acks
  BY DEF Refusals, Acks
<1>3. \A h, f : Lost(h, f) \subseteq Unheard(h)
  BY DEF Lost
<1>4. op.id = 0 => op.kind # "subscribe"
  BY DEF OpInv
<1>5. ASSUME NoneOf(inbox', Unheard(handlers')) PROVE PubInv'
  BY <1>1, <1>3, <1>5, NoneOfWeaken DEF PubInv
<1>6. ASSUME Open, op' = op, handlers' = handlers, inbox # <<>>, inbox' = Tail(inbox),
             readbuf' \in Refusals => readbuf' = readbuf \/ readbuf' = Head(inbox)
      PROVE  PubInv'
  <2>1. /\ NoneOf(inbox, Unheard(handlers)) => NoneOf(inbox', Unheard(handlers))
        /\ NoneOf(inbox', Lost(handlers, op.filter))
    BY <1>1, <1>6, TailCounts DEF PubInv
  <2>2. /\ Before(inbox', Unheard(handlers), Refusals)
        /\ Head(inbox) \in Refusals => NoneOf(inbox', Unheard(handlers))
    BY <1>1, <1>6, TailOrder DEF PubInv
  <2> QED
    BY <1>6, <2>1, <2>2 DEF PubInv
<1>7. CASE Plain
  <2>1. /\ Open /\ handlers' = handlers
        /\ readbuf' \in Refusals => readbuf' = readbuf
    BY <1>2, <1>7 DEF Plain
  <2>2. CASE op' = op
    <3>1. CASE inbox' = inbox
      BY <2>1, <2>2, <3>1 DEF PubInv
    <3> QED
      BY <1>6, <1>7, <2>1, <2>2, <3>1 DEF Plain
  <2>3. CASE op.id = 0
    <3>1. NoneOf(inbox, Unheard(handlers))
      BY <1>4, <2>1, <2>3 DEF PubInv
    <3>2. NoneOf(inbox', Unheard(handlers))
      <4>1. CASE inbox # <<>> /\ inbox' = Tail(inbox)
        BY <1>1, <3>1, <4>1, TailCounts
      <4> QED BY <1>7, <3>1, <4>1 DEF Plain
    <3> QED
      BY <1>5, <2>1, <3>2
  <2> QED
    BY <1>7, <2>2, <2>3 DEF Plain
<1>8. CASE Closes
  BY <1>8 DEF Closes, Live
<1>9. CASE Begins
  <2>1. Open /\ op.id = 0 /\ UNCHANGED <<inbox, handlers>>
    BY <1>9, NoOpFields DEF Begins, OpInv, Open
  <2> QED
    BY <1>4, <1>5, <2>1 DEF PubInv
<1>10. CASE Sends
  <2>1. Open /\ UNCHANGED <<op, readbuf, inbox, handlers>>
    BY <1>10 DEF Sends, Open, Early
  <2> QED
    BY <2>1 DEF PubInv
<1>11. CASE Takes
  BY <1>6, <1>11 DEF Takes, Open, Early
<1>12. CASE Ends
  <2>1. Open /\ inbox' = inbox
    BY <1>12 DEF Ends, Open
  <2>2. CASE op.kind = "publish" /\ UNCHANGED handlers
    BY <1>5, <2>1, <2>2 DEF PubInv
  <2>3. CASE op.kind = "subscribe" /\ readbuf.body = "refused" /\ UNCHANGED handlers
    <3>1. readbuf \in Refusals
      BY <1>1, <1>12, <2>3 DEF Ends, Awaited, Refusals
    <3> QED
      BY <1>5, <2>1, <2>3, <3>1 DEF PubInv
  <2>4. CASE /\ op.kind = "subscribe" /\ SlotFor(op.filter) \in Slots
             /\ handlers' = [handlers EXCEPT ![SlotFor(op.filter)] = op.filter]
    <3> DEFINE x == SlotFor(op.filter)
    <3>1. handlers[x] \in {op.filter, NoFilter} /\ x \in Slots
      BY <2>4, SlotIsFree
    <3>2. handlers \in [Slots -> Filters \cup {NoFilter}]
      BY DEF TypeInv, SessionType
    <3>3. \A t : <<NoFilter, t>> \notin Matching
      BY MqttAssumption
    <3> HIDE DEF x
    <3>4. handlers' = [handlers EXCEPT ![x] = op.filter]
      BY <2>4 DEF x
    <3>5. ASSUME NEW p \in Unheard(handlers') PROVE p \in Lost(handlers, op.filter)
      <4>1. p \in Packets /\ p.type = "PUBLISH"
            /\ \A s \in Slots : <<handlers'[s], p.topic>> \notin Matching
        BY <3>5 DEF Unheard
      <4>2. <<op.filter, p.topic>> \notin Matching
        BY <3>1, <3>2, <3>4, <4>1
      <4>3. ASSUME NEW s \in Slots PROVE <<handlers[s], p.topic>> \notin Matching
        <5>1. CASE s = x
          BY <3>1, <3>3, <4>2, <5>1
        <5>2. CASE s # x
          BY <3>2, <3>4, <4>1, <5>2
        <5> QED BY <5>1, <5>2
      <4> QED
        BY <4>1, <4>2, <4>3 DEF Lost, Unheard
    <3>6. Unheard(handlers') \in SUBSET Lost(handlers, op.filter)
      BY <3>5
    <3>7. NoneOf(inbox, Unheard(handlers'))
      BY <1>1, <2>1, <3>6, NoneOfWeaken DEF PubInv
    <3> QED
      BY <1>5, <2>1, <3>7
  <2> QED
    BY <1>12, <2>2, <2>3, <2>4 DEF Ends
<1>13. CASE Task \/ Library
  BY <1>7, <1>8, <1>9, <1>10, <1>11, <1>12, <1>13, TaskSteps, LibrarySteps DEF ClientStep
<1>14. CASE Environment
  <2>1. Open /\ UNCHANGED <<op, readbuf, handlers>>
    BY <1>14, EnvironmentSteps DEF callVars, Open, Early
  \* A packet that is heard, or is no message, may come.
  <2>2. ASSUME NEW r \in Packets, inbox' = Append(inbox, r), r \notin Unheard(handlers)
        PROVE  PubInv'
    <3>1. r \notin Lost(handlers, op.filter)
      BY <1>3, <2>2
    <3>2. /\ NoneOf(inbox, Unheard(handlers)) => NoneOf(inbox', Unheard(handlers))
          /\ NoneOf(inbox', Lost(handlers, op.filter))
      BY <1>1, <2>1, <2>2, <3>1, AppendCounts DEF PubInv
    <3>3. Before(inbox', Unheard(handlers), Refusals)
      BY <1>1, <2>1, <2>2, AppendOrder DEF PubInv
    <3> QED
      BY <2>1, <3>2, <3>3 DEF PubInv
  <2>3. CASE inbox' = inbox
    BY <2>1, <2>3 DEF PubInv
  <2>4. ASSUME NEW ok \in BOOLEAN, BrokerReads(ok) PROVE PubInv'
    <3>1. ASSUME NEW r \in Packets, r.type # "PUBLISH" PROVE r \notin Unheard(handlers)
      BY <3>1 DEF Unheard
    <3> QED
      BY <2>2, <2>3, <2>4, <3>1, BrokerAnswers
  <2>5. ASSUME NEW t \in Topics, NEW q \in 0..2, NEW b \in {"ok", "long"},
               BrokerPublishes(t, q, b)
        PROVE  PubInv'
    <3> DEFINE p == [Packet("PUBLISH", 1) EXCEPT !.topic = t, !.qos = q, !.body = b]
    <3>1. inbox' = Append(inbox, p)
      BY <2>5 DEF BrokerPublishes
    <3>2. p \in Packets /\ p.type = "PUBLISH" /\ p.topic = t
      <4>1. p.type = "PUBLISH" /\ p.topic = t
        BY DEF Packet
      <4> QED
        BY <4>1, MessageType
    <3> HIDE DEF p
    <3>3. PICK f \in granted : <<f, t>> \in Matching
      BY <2>5 DEF BrokerPublishes
    <3>4. CASE f \in Handled(handlers)
      BY <2>2, <3>1, <3>2, <3>3, <3>4 DEF Handled, Unheard
    <3>5. CASE op.kind = "subscribe" /\ op.filter = f
      <4>1. NoneOf(inbox, Refusals) /\ readbuf \notin Refusals
        BY <2>1, <3>3, <3>5 DEF SubInv, Live
      <4>2. p \notin Lost(handlers, op.filter) /\ p \notin Refusals
        BY <3>2, <3>3, <3>5 DEF Lost, Refusals
      <4>3. NoneOf(inbox', Lost(handlers, op.filter))
        BY <1>1, <2>1, <3>1, <3>2, <4>2, AppendCounts DEF PubInv
      <4>4. Before(inbox', Unheard(handlers), Refusals)
        BY <1>1, <3>1, <3>2, <4>1, <4>2, AppendOrder
      <4> QED
        BY <2>1, <3>5, <4>1, <4>3, <4>4 DEF PubInv
    <3> QED
      BY <2>1, <3>3, <3>4, <3>5 DEF SubInv
  <2>6. ASSUME NEW k \in 0..Len(inbox), NEW cut \in BOOLEAN, ConnectionEnds(k, cut)
        PROVE  PubInv'
    <3>1. ASSUME NEW i \in 1..Len(inbox')
          PROVE  /\ inbox'[i] \in Unheard(handlers) => inbox[i] \in Unheard(handlers)
                 /\ inbox'[i] \in Lost(handlers, op.filter) =>
                      inbox[i] \in Lost(handlers, op.filter)
      BY <2>6, <3>1, CutInbox DEF Unheard, Lost
    <3>2. /\ NoneOf(inbox, Unheard(handlers)) => NoneOf(inbox', Unheard(handlers))
          /\ NoneOf(inbox', Lost(handlers, op.filter))
      BY <1>1, <2>1, <2>6, <3>1, CutInbox, PrefixCounts DEF PubInv
    <3>3. ASSUME NEW i \in 1..Len(inbox'), NEW j \in 1..Len(inbox'),
                 inbox'[i] \in Unheard(handlers), inbox'[j] \in Refusals
          PROVE  i < j
      <4>1. i \in 1..Len(inbox) /\ j \in 1..Len(inbox) /\ inbox[i] \in Unheard(handlers)
        BY <1>1, <2>6, <3>1, <3>3, CutInbox
      <4>2. inbox[j] \in Refusals
        BY <2>6, <3>3, CutInbox DEF Refusals
      <4> QED
        BY <2>1, <4>1, <4>2 DEF PubInv, Before
    <3>4. Before(inbox', Unheard(handlers), Refusals)
      BY <3>3 DEF Before
    <3> QED
      BY <2>1, <3>2, <3>4 DEF PubInv
  <2>7. CASE UNCHANGED netVars \/ BrokerGrants
    BY <2>3, <2>7 DEF netVars, BrokerGrants
  <2> QED
    BY <1>14, <2>4, <2>5, <2>6, <2>7, EnvironmentSteps, Zenon
<1>15. CASE UNCHANGED vars
  BY <1>15 DEF vars, PubInv, Open, Early, appVars, clientVars, sessionVars, netVars
<1> QED
  BY <1>13, <1>14, <1>15 DEF Next

(***************************************************************************)
(* The theorems.                                                           *)
(***************************************************************************)
DeliveryInv ==
  TypeInv /\ SessionInv /\ OpInv /\ CutInv /\ TokenInv /\ SubInv /\ PubInv

\* The invariants hold initially,
LEMMA DeliveryInvInit == Init => DeliveryInv
<1> SUFFICES ASSUME Init PROVE DeliveryInv
  OBVIOUS
<1>1. TypeInv
  BY TypeInvInit
<1>2. SessionInv
  BY DEF Init, SessionInv, Early
<1>3. OpInv
  BY NoOpFields DEF Init, OpInv
<1>4. /\ sending.packet = Nothing /\ readbuf = Nothing /\ inbox = <<>> /\ outbox = <<>>
      /\ granted = {}
  BY NoOpFields DEF Init
<1>5. Nothing \notin Requests /\ Nothing \notin Acks /\ Nothing \notin Refusals
      /\ Nothing \notin Strays(op)
  BY DEF Nothing, Packet, Requests, Acks, Refusals, Strays
<1>6. TokenInv
  BY <1>4, <1>5, NoneOfEmpty DEF TokenInv
<1>7. SubInv
  BY <1>4, <1>5, NoneOfEmpty DEF SubInv
<1>8. PubInv
  BY <1>4, NoneOfEmpty DEF PubInv
<1>9. CutInv
  BY <1>4, NoneOfEmpty DEF Init, CutInv
<1> QED
  BY <1>1, <1>2, <1>3, <1>6, <1>7, <1>8, <1>9 DEF DeliveryInv

\* and every step keeps them.
LEMMA DeliveryInvInductive == DeliveryInv /\ [Next]_vars => DeliveryInv'
<1> SUFFICES ASSUME DeliveryInv, [Next]_vars PROVE DeliveryInv'
  OBVIOUS
<1> USE DEF DeliveryInv
<1>1. TypeInv' /\ SessionInv'
  BY TypeInvInductive, SessionInvInductive
<1>2. OpInv' /\ CutInv'
  BY OpInvInductive, CutInvInductive
<1>3. TokenInv'
  BY <1>1, <1>2, TokenInvInductive
<1>4. SubInv'
  BY <1>1, <1>2, <1>3, SubInvInductive
<1>5. PubInv'
  BY <1>1, <1>2, PubInvInductive
<1> QED
  BY <1>1, <1>2, <1>3, <1>4, <1>5

\* MQTTSubscribe, MQTTUnsubscribe and MQTTPublish never take what the broker
\* has answered to another call for their own, although they do not compare
\* identifiers and take a packet of which only the type has come, and
\* MAX_PACKET_ID may be as small as one.
THEOREM AnswerIsForRequest == Spec => []AckIsForRequest
<1>1. DeliveryInv => AckIsForRequest
  <2> SUFFICES ASSUME DeliveryInv, op.id # 0, GotAnswer PROVE readbuf.id = op.id
    BY DEF AckIsForRequest
  <2>1. readbuf \in Acks
    BY DEF DeliveryInv, GotAnswer, Awaited, Acks, OpInv, TypeInv, CallType, Ops
  <2> QED
    BY <2>1 DEF DeliveryInv, TokenInv, Live
<1> QED
  BY <1>1, DeliveryInvInit, DeliveryInvInductive, PTL DEF Spec

\* Between two calls on an open session, every filter the broker has granted
\* has a handler: MQTTSubscribe and MQTTSetMessageHandler lose none, with any
\* number of slots and filters.
THEOREM SubscriptionsHaveHandlers == Spec => []GrantedHasHandler
<1>1. DeliveryInv => GrantedHasHandler
  BY NoOpFields DEF DeliveryInv, SubInv, Open, OpInv, Handled, GrantedHasHandler
<1> QED
  BY <1>1, DeliveryInvInit, DeliveryInvInductive, PTL DEF Spec

\* A message of an open session that deliverMessage finds no handler for is
\* read inside MQTTSubscribe.
THEOREM MessagesAreHeard == Spec => []UnheardOnlyBeforeSuback
<1>1. DeliveryInv => UnheardOnlyBeforeSuback
  <2> SUFFICES ASSUME DeliveryInv, conn, inbox # <<>>,
                      Head(inbox).type = "PUBLISH", Hears(Head(inbox).topic) = {}
               PROVE  op.kind = "subscribe"
    BY DEF UnheardOnlyBeforeSuback
  <2>1. inbox \in Seq(Packets) /\ Head(inbox) \in Packets
    BY HeadTailProperties DEF DeliveryInv, TypeInv, NetType
  <2>2. Head(inbox) \in Unheard(handlers)
    BY <2>1 DEF Hears, Unheard
  <2>3. ~NoneOf(inbox, Unheard(handlers))
    BY <2>1, <2>2, TailCounts
  <2> QED
    BY <2>3 DEF DeliveryInv, PubInv, Open
<1> QED
  BY <1>1, DeliveryInvInit, DeliveryInvInductive, PTL DEF Spec

(***************************************************************************)
(* The library implements MqttSession: packets, timers and the connection, *)
(* with everything that can go wrong with them, show to a caller as the    *)
(* steps of MqttSession.                                                   *)
(***************************************************************************)

(***************************************************************************)
(* The kind of the call in progress.  A subscription has a filter, and     *)
(* MQTTDisconnect only sends.                                              *)
(***************************************************************************)
KindInv ==
  /\ pc # "idle" => op.kind # "none"
  /\ op.kind = "subscribe" => op.filter \in Filters
  /\ op.kind = "disconnect" => pc \in {"send", "write"} /\ sending.why = "request"

\* Return leaves the library without a call.
LEMMA ReturnKind ==
  ASSUME NEW r, NEW late, Return(r, late)
  PROVE  KindInv'
BY NoOpFields DEF Return, KindInv

\* Request begins a call of its kind, with its filter, or none.
LEMMA RequestKind ==
  ASSUME NEW kind \in {"subscribe", "unsubscribe", "publish"}, NEW type, NEW f,
         NEW q, kind = "subscribe" => f \in Filters, Request(kind, type, f, q)
  PROVE  KindInv'
<1>1. CASE conn
  <2>1. op'.kind = kind /\ op'.filter = f
    BY <1>1 DEF Request
  <2> QED
    BY <2>1 DEF KindInv
<1>2. CASE ~conn
  BY <1>2, ReturnKind DEF Request
<1> QED BY <1>1, <1>2

\* KindInv is inductive.
LEMMA KindInvInductive == OpInv /\ KindInv /\ [Next]_vars => KindInv'
<1> SUFFICES ASSUME OpInv, KindInv, [Next]_vars PROVE KindInv'
  OBVIOUS
<1>0. ASSUME NEW late, Fail(late) PROVE KindInv'
  BY <1>0, ReturnKind DEF Fail
<1>1. CASE Resume
  BY <1>1 DEF Resume, KindInv, sendVars
<1>2. ASSUME NEW ok \in BOOLEAN, NetworkConnect(ok) PROVE KindInv'
  BY <1>2 DEF NetworkConnect, KindInv, sendVars
<1>3. CASE Connect
  <2>1. op'.kind = "connect"
    BY <1>3 DEF Connect, NoOp
  <2> QED
    BY <2>1 DEF KindInv
<1>4. CASE Subscribe
  BY <1>4, RequestKind, MqttAssumption DEF Subscribe
<1>5. ASSUME NEW ok \in BOOLEAN, Poll(ok) PROVE KindInv'
  BY <1>5 DEF Poll, KindInv, sendVars
<1>6. CASE Yield
  <2>1. op'.kind = "yield"
    BY <1>6 DEF Yield, NoOp
  <2> QED
    BY <2>1 DEF KindInv
<1>7. ASSUME NEW q \in Qos, Publish(q) PROVE KindInv'
  BY <1>7, RequestKind DEF Publish
<1>8. ASSUME NEW ok \in BOOLEAN, SelectReturns(ok) PROVE KindInv'
  BY <1>8 DEF SelectReturns, KindInv, sendVars
<1>9. ASSUME NEW f \in Filters, SubscribeMore(f) PROVE KindInv'
  BY <1>9, RequestKind DEF SubscribeMore
<1>10. CASE Unsubscribe
  BY <1>10, RequestKind DEF Unsubscribe
<1>11. CASE Disconnect
  <2>1. op'.kind = "disconnect" /\ pc' = "send" /\ sending'.why = "request"
    BY <1>11 DEF Disconnect, StartSend, NoOp
  <2> QED
    BY <2>1 DEF KindInv
<1>12. CASE EnterWrite
  BY <1>12 DEF EnterWrite, KindInv, sendVars
<1>13. ASSUME NEW n \in 0..PacketLen, Write(n) PROVE KindInv'
  BY <1>13 DEF Write, KindInv
<1>14. CASE SendFails \/ WriteFails
  BY <1>0, <1>14 DEF SendFails, WriteFails
<1>15. CASE SendSucceeds
  <2>1. CASE Return("SUCCESS", expired \ {"sent"})
    BY <2>1, ReturnKind
  <2>2. CASE ~Return("SUCCESS", expired \ {"sent"})
    <3>1. /\ pc' \in {"loop", "keepalive"} /\ op' = op
          /\ sending.why # "request" \/ Awaited(op) # "none"
      BY <1>15, <2>2 DEF SendSucceeds, EndSend
    <3> QED
      BY <1>15, <3>1 DEF SendSucceeds, KindInv, Awaited
  <2> QED BY <2>1, <2>2
<1>16. CASE EnterRead
  BY <1>16 DEF EnterRead, KindInv, sendVars
<1>17. CASE WaitExpires
  BY <1>0, <1>17, ReturnKind DEF WaitExpires
<1>18. CASE ReadPacket
  <2>1. op' = op
    BY <1>18 DEF ReadPacket, HandleAck, HandlePublish, HandleExchange, HandleOther,
       Untouched
  <2> QED
    BY <1>18, <2>1 DEF ReadPacket, KindInv
<1>19. CASE ReadNothing
  BY <1>19 DEF ReadNothing, KindInv, sendVars
<1>20. ASSUME NEW t \in Leftovers, ReadOverflow(t) PROVE KindInv'
  BY <1>0, <1>20 DEF ReadOverflow
<1>21. CASE KeepaliveNotDue
  BY <1>21 DEF KeepaliveNotDue, KindInv, sendVars
<1>22. CASE KeepalivePings
  BY <1>22 DEF KeepalivePings, StartSend, KindInv
<1>23. CASE KeepaliveFails
  BY <1>0, <1>23 DEF KeepaliveFails
<1>24. CASE Finish
  BY <1>0, <1>24, ReturnKind DEF Finish, Connected, Subscribed, Unsubscribed, Published
<1>25. CASE Environment
  <2>1. UNCHANGED <<pc, op, sendVars>>
    <3>1. ASSUME NEW t \in Timers, Expire(t) PROVE UNCHANGED <<pc, op, sendVars>>
      BY <3>1 DEF Expire
    <3>2. CASE BrokerGrants
      BY <3>2 DEF BrokerGrants
    <3>3. ASSUME NEW ok \in BOOLEAN, BrokerReads(ok)
          PROVE  UNCHANGED <<pc, op, sendVars>>
      BY <3>3, Zenon DEF BrokerReads
    <3>4. ASSUME NEW t \in Topics, NEW q \in 0..2, NEW b \in {"ok", "long"},
                 BrokerPublishes(t, q, b)
          PROVE  UNCHANGED <<pc, op, sendVars>>
      BY <3>4 DEF BrokerPublishes
    <3>5. ASSUME NEW k \in 0..Len(inbox), NEW cut \in BOOLEAN, ConnectionEnds(k, cut)
          PROVE  UNCHANGED <<pc, op, sendVars>>
      BY <3>5 DEF ConnectionEnds
    <3> QED
      BY <1>25, <3>1, <3>2, <3>3, <3>4, <3>5, Zenon DEF Environment
  <2> QED
    BY <2>1 DEF KindInv, sendVars
<1>26. CASE UNCHANGED vars
  BY <1>26 DEF vars, KindInv, sendVars
<1>27. CASE Task
  BY <1>27, <1>1, <1>2, <1>3, <1>4, <1>5, <1>6, <1>7, <1>8, <1>9, <1>10, <1>11,
     Zenon DEF Task
<1>28. CASE Library
  BY <1>28, <1>12, <1>13, <1>14, <1>15, <1>16, <1>17, <1>18, <1>19, <1>20, <1>21,
     <1>22, <1>23, <1>24, Zenon DEF Library, Runs
<1> QED
  BY <1>25, <1>26, <1>27, <1>28 DEF Next

(***************************************************************************)
(* The steps of MqttSession.                                               *)
(***************************************************************************)
CallInv == TypeInv /\ SessionInv /\ OpInv /\ KindInv

subs == {handlers[s] : s \in Slots} \ {NoFilter}

\* What the caller sees of the session.
LEMMA StateOfSession ==
  ASSUME SessionInv
  PROVE  /\ Early => SessionState = "none"
         /\ ~Early /\ conn => SessionState = "open"
         /\ ~Early /\ ~conn => SessionState = "closed"
BY DEF SessionState, Early, SessionInv

\* The same in the next state.
LEMMA NextStateOfSession ==
  /\ ~conn' /\ Early' => SessionState' = "none"
  /\ conn' => SessionState' = "open"
  /\ ~conn' /\ ~Early' => SessionState' = "closed"
BY DEF SessionState, Early

\* A step that touches none of it is a stutter.
LEMMA StepIsHidden ==
  ASSUME UNCHANGED <<op, conn, handlers, rc>>, Early' <=> Early
  PROVE  UNCHANGED Session!vars
BY DEF Session!vars, SessionState, Early

\* MQTTCloseSession leaves no handler.
LEMMA CloseLeavesNone ==
  ASSUME CloseSession
  PROVE  ~conn' /\ subs' = {}
BY DEF CloseSession, subs

\* A call that returns is over for the caller, and the task is past MQTTConnect.
LEMMA ReturnEnds ==
  ASSUME CallInv, pc # "idle", NEW r, NEW late, Return(r, late)
  PROVE  Session!End(r) /\ ~Early'
<1>1. op' = NoOp /\ rc' = r
  BY DEF Return
<1>2. ~Early'
  BY DEF Return, Early, CallInv, SessionInv
<1> QED
  BY <1>1, <1>2 DEF Session!End, NoOp

\* A call that fails.
LEMMA FailRefines ==
  ASSUME CallInv, pc # "idle", NEW late, Fail(late)
  PROVE  Session!Next
<1>1. Session!End("FAILURE") /\ ~Early'
  BY ReturnEnds DEF Fail
<1>2. CASE op.kind = "connect"
  <2>1. Early /\ ~conn
    BY <1>2 DEF CallInv, SessionInv, Early
  <2>2. UNCHANGED <<conn, handlers>>
    BY <1>2 DEF Fail, sessionVars
  <2>3. Session!ConnectEnds("FAILURE")
    BY <1>1, <1>2, <2>1, <2>2, NextStateOfSession DEF Session!ConnectEnds
  <2> QED
    BY <2>3 DEF Session!Next
<1>3. CASE op.kind # "connect"
  <2>1. ~Early /\ op.kind # "none"
    BY <1>3 DEF CallInv, SessionInv, KindInv, Early
  <2>2. CASE op.kind = "yield" /\ ~conn
    <3>1. UNCHANGED <<conn, handlers>>
      BY <2>2 DEF Fail, sessionVars
    <3>2. SessionState = "closed" /\ SessionState' = "closed"
      BY <1>1, <2>1, <2>2, <3>1, StateOfSession, NextStateOfSession DEF CallInv
    <3>3. Session!Fail
      BY <1>1, <2>2, <3>1, <3>2 DEF Session!Fail
    <3> QED
      BY <3>3 DEF Session!Next
  <2>3. CASE ~(op.kind = "yield" /\ ~conn)
    <3>1. ~conn' /\ subs' = {}
      BY <1>3, <2>3, CloseLeavesNone DEF Fail
    <3>2. SessionState' = "closed"
      BY <1>1, <3>1, NextStateOfSession
    <3>3. ~(op.kind = "yield" /\ SessionState = "closed")
      BY <2>1, <2>3, StateOfSession DEF CallInv
    <3>4. Session!Fail
      BY <1>1, <1>3, <2>1, <3>1, <3>2, <3>3 DEF Session!Fail, subs
    <3> QED
      BY <3>4 DEF Session!Next
  <2> QED BY <2>2, <2>3
<1> QED BY <1>2, <1>3

\* A call that succeeds and leaves session and handlers alone.
LEMMA SuccessRefines ==
  ASSUME CallInv, pc # "idle", NEW late, Return("SUCCESS", late),
         UNCHANGED sessionVars, op.kind \in {"publish", "yield", "subscribe"}
  PROVE  Session!Next
<1>1. Session!End("SUCCESS") /\ ~Early'
  BY ReturnEnds
<1>2. ~Early /\ UNCHANGED <<conn, handlers>>
  BY DEF CallInv, SessionInv, Early, sessionVars
<1>3. SessionState' = SessionState
  BY <1>1, <1>2 DEF SessionState, Early
<1>4. Session!Succeed
  BY <1>1, <1>2, <1>3 DEF Session!Succeed
<1> QED
  BY <1>4 DEF Session!Next

\* A call with an identifier begins, or is refused.
LEMMA RequestRefines ==
  ASSUME CallInv, pc = "idle", ~Early, NEW type, NEW q,
         NEW kind \in {"subscribe", "unsubscribe", "publish"},
         NEW f \in Filters \cup {NoFilter}, Request(kind, type, f, q)
  PROVE  Session!Next
<1>1. op.kind = "none" /\ op.filter = NoFilter
  BY DEF CallInv, OpInv, NoOp
<1>2. CASE conn
  <2>1. /\ op'.kind = kind /\ op'.filter = f /\ rc' = "none"
        /\ UNCHANGED <<app, conn, handlers>>
    BY <1>2 DEF Request, sessionVars
  <2>2. SessionState = "open" /\ SessionState' = "open"
    BY <1>2, <2>1, StateOfSession, NextStateOfSession DEF CallInv
  <2>3. Session!Begin(kind, f)
    BY <1>1, <2>1, <2>2 DEF Session!Begin
  <2> QED
    BY <2>3 DEF Session!Next, Session!Calls
<1>3. CASE ~conn
  <2>1. Return("FAILURE", expired) /\ CloseSession
    BY <1>3 DEF Request
  <2>2. ~Early' /\ op' = NoOp /\ rc' = "FAILURE"
    BY <2>1 DEF Return, Early
  <2>3. SessionState = "closed" /\ SessionState' = "closed"
    BY <1>3, <2>1, <2>2, CloseLeavesNone, StateOfSession, NextStateOfSession DEF CallInv
  <2>4. Session!Refuse
    BY <1>1, <2>1, <2>2, <2>3, CloseLeavesNone DEF Session!Refuse, NoOp, subs
  <2> QED
    BY <2>4 DEF Session!Next
<1> QED BY <1>2, <1>3

\* A call has its answer.
LEMMA FinishRefines ==
  ASSUME CallInv, Finish
  PROVE  Session!Next
<1>0. pc # "idle"
  BY DEF Finish
<1>1. CASE Connected
  <2> DEFINE r == IF readbuf.body = "refused" THEN "REFUSED" ELSE "SUCCESS"
  <2>1. Return(r, expired) /\ op.kind = "connect" /\ UNCHANGED handlers
    BY <1>1 DEF Connected
  <2>2. ~conn /\ (r = "SUCCESS" <=> readbuf.body # "refused")
        /\ r \in {"SUCCESS", "REFUSED"}
    BY <1>0, <2>1 DEF CallInv, SessionInv, Early
  <2>3. conn' <=> r = "SUCCESS"
    BY <1>1, <2>2 DEF Connected
  <2> HIDE DEF r
  <2>4. Session!End(r) /\ ~Early'
    BY <1>0, <2>1, ReturnEnds
  <2>5. SessionState' = IF r = "SUCCESS" THEN "open" ELSE "closed"
    BY <2>3, <2>4, NextStateOfSession
  <2>6. Session!ConnectEnds(r)
    BY <2>1, <2>4, <2>5 DEF Session!ConnectEnds
  <2> QED
    BY <2>2, <2>6 DEF Session!Next
<1>2. CASE Subscribed
  <2> DEFINE f == op.filter
             s == SlotFor(f)
  <2>1. CASE readbuf.body # "refused" /\ s \in Slots
    <3>1. /\ op.kind = "subscribe" /\ Return("SUCCESS", expired)
          /\ handlers' = [handlers EXCEPT ![s] = f] /\ UNCHANGED conn
      BY <1>2, <2>1 DEF Subscribed
    <3>2. Session!End("SUCCESS") /\ ~Early'
      BY <1>0, <3>1, ReturnEnds
    <3>3. ~Early
      BY <1>0, <3>1 DEF CallInv, SessionInv, Early
    <3>4. SessionState' = SessionState
      BY <3>1, <3>2, <3>3 DEF SessionState, Early
    <3>5. handlers[s] \in {f, NoFilter} /\ f # NoFilter
      BY <2>1, <3>1, SlotIsFree, MqttAssumption DEF CallInv, KindInv
    <3>6. handlers \in [Slots -> Filters \cup {NoFilter}]
      BY DEF CallInv, TypeInv, SessionType
    <3> HIDE DEF s
    <3>7. \A r \in Slots : handlers'[r] = IF r = s THEN f ELSE handlers[r]
      BY <3>1, <3>6
    <3>8. subs' = subs \cup {f}
      BY <2>1, <3>5, <3>7 DEF subs
    <3>9. Session!SubscribeSucceeds
      BY <3>1, <3>2, <3>4, <3>8 DEF Session!SubscribeSucceeds, subs
    <3> QED
      BY <3>9 DEF Session!Next
  <2>2. CASE readbuf.body # "refused" /\ s \notin Slots
    BY <1>0, <1>2, <2>2, FailRefines DEF Subscribed
  <2>3. CASE readbuf.body = "refused"
    BY <1>0, <1>2, <2>3, SuccessRefines DEF Subscribed
  <2> QED BY <2>1, <2>2, <2>3
<1>3. CASE Unsubscribed
  <2>1. /\ op.kind = "unsubscribe" /\ Return("SUCCESS", expired) /\ UNCHANGED conn
        /\ \A s \in Slots :
             handlers'[s] = IF handlers[s] = op.filter
                            THEN NoFilter ELSE handlers[s]
    BY <1>3 DEF Unsubscribed
  <2>2. Session!End("SUCCESS") /\ ~Early'
    BY <1>0, <2>1, ReturnEnds
  <2>3. ~Early /\ ~conn
    BY <1>0, <2>1 DEF CallInv, SessionInv, OpInv, Early, Finish, GotAnswer, Awaited
  <2>4. SessionState = "closed" /\ SessionState' = "closed"
    BY <2>1, <2>2, <2>3, StateOfSession, NextStateOfSession DEF CallInv
  <2>5. subs' = subs \ {op.filter}
    BY <2>1 DEF subs
  <2>6. Session!UnsubscribeSucceeds
    BY <2>1, <2>2, <2>4, <2>5 DEF Session!UnsubscribeSucceeds, subs
  <2> QED
    BY <2>6 DEF Session!Next
<1>4. CASE Published
  BY <1>0, <1>4, SuccessRefines DEF Published
<1> QED
  BY <1>1, <1>2, <1>3, <1>4 DEF Finish

\* A packet has been sent, and the call is over or goes on.
LEMMA SendRefines ==
  ASSUME CallInv, SendSucceeds
  PROVE  [Session!Next]_(Session!vars)
<1>0. pc = "send"
  BY DEF SendSucceeds
<1>1. CASE sending.why = "request" /\ Awaited(op) = "none"
  <2> DEFINE late == expired \ {"sent"}
  <2>1. Return("SUCCESS", late)
    BY <1>1 DEF SendSucceeds
  <2>2. CASE op.kind = "disconnect"
    <3>1. CloseSession
      BY <1>1, <2>2 DEF SendSucceeds
    <3>2. Session!End("SUCCESS") /\ ~Early'
      BY <1>0, <2>1, ReturnEnds
    <3>3. Session!DisconnectSucceeds
      BY <2>2, <3>1, <3>2, CloseLeavesNone, NextStateOfSession
         DEF Session!DisconnectSucceeds, subs
    <3> QED
      BY <3>3 DEF Session!Next
  <2>3. CASE op.kind # "disconnect"
    <3>1. UNCHANGED sessionVars
      BY <1>1, <2>3 DEF SendSucceeds
    <3>2. op.kind \in {"publish", "yield"}
      BY <1>0, <1>1, <2>3 DEF CallInv, TypeInv, CallType, Ops, Kinds, KindInv, Awaited
    <3> QED
      BY <1>0, <2>1, <3>1, <3>2, SuccessRefines
  <2> QED BY <2>2, <2>3
<1>2. CASE ~(sending.why = "request" /\ Awaited(op) = "none")
  <2>1. UNCHANGED <<app, op, rc, conn, handlers>>
    BY <1>2 DEF SendSucceeds, EndSend, sessionVars
  <2> QED
    BY <2>1, StepIsHidden DEF Early
<1> QED BY <1>1, <1>2

\* A packet has been read.
LEMMA ReadRefines ==
  ASSUME CallInv, ReadPacket
  PROVE  [Session!Next]_(Session!vars)
<1> DEFINE p == Head(inbox)
<1>0. pc = "read"
  BY DEF ReadPacket
<1>1. CASE HandleAck(p) \/ HandlePublish(p) \/ HandleExchange(p)
  BY <1>1, StepIsHidden DEF HandleAck, HandlePublish, HandleExchange, Untouched, Early
<1>3. CASE HandleOther(p)
  <2>1. UNCHANGED <<app, op, rc>>
    BY <1>3 DEF HandleOther
  <2>2. CASE ~conn
    BY <1>3, <2>1, <2>2, StepIsHidden DEF HandleOther, sessionVars, Early
  <2>3. CASE conn
    <3>1. CloseSession
      BY <1>3, <2>3 DEF HandleOther
    <3>2. ~Early /\ ~Early'
      BY <2>1, <2>3 DEF CallInv, SessionInv, Early
    <3>3. op.kind \in {"subscribe", "unsubscribe", "publish", "yield"}
      BY <1>0, <3>2 DEF CallInv, TypeInv, CallType, Ops, Kinds, KindInv, SessionInv, Early
    <3>4. Session!Close
      BY <2>1, <2>3, <3>1, <3>2, <3>3, CloseLeavesNone, StateOfSession,
         NextStateOfSession DEF Session!Close, CallInv, subs
    <3> QED
      BY <3>4 DEF Session!Next
  <2> QED BY <2>2, <2>3
<1> QED
  BY <1>1, <1>3 DEF ReadPacket

\* The task, the library and their surroundings take no step that MqttSession
\* does not have.
LEMMA StepRefines ==
  ASSUME CallInv, [Next]_vars
  PROVE  [Session!Next]_(Session!vars)
<1> USE DEF appVars, clientVars, sessionVars
<1>1. CASE Resume
  BY <1>1, StepIsHidden DEF Resume, Early
<1>2. ASSUME NEW ok \in BOOLEAN, NetworkConnect(ok)
      PROVE  [Session!Next]_(Session!vars)
  BY <1>2, StepIsHidden DEF NetworkConnect, Early
<1>3. CASE Connect
  <2>1. /\ op = NoOp /\ op' = [NoOp EXCEPT !.kind = "connect"] /\ rc' = "none"
        /\ UNCHANGED <<app, conn, handlers>>
    BY <1>3 DEF Connect, CallInv, OpInv
  <2>2. SessionState = "none" /\ SessionState' = "none"
    BY <1>3, <2>1, StateOfSession DEF Connect, CallInv, SessionState, Early, SessionInv
  <2>3. Session!Begin("connect", NoFilter)
    BY <2>1, <2>2 DEF Session!Begin, NoOp
  <2> QED
    BY <2>3 DEF Session!Next, Session!Calls
<1>4. CASE Subscribe
  BY <1>4, RequestRefines, MqttAssumption DEF Subscribe, Early
<1>5. ASSUME NEW ok \in BOOLEAN, Poll(ok) PROVE [Session!Next]_(Session!vars)
  BY <1>5, StepIsHidden DEF Poll, Early
<1>6. CASE Yield
  <2>1. /\ op = NoOp /\ op' = [NoOp EXCEPT !.kind = "yield"] /\ rc' = "none"
        /\ UNCHANGED <<app, conn, handlers>> /\ ~Early
    BY <1>6 DEF Yield, Working, CallInv, OpInv, Early
  <2>2. SessionState # "none" /\ SessionState' = SessionState
    BY <2>1 DEF SessionState, Early
  <2>3. Session!Begin("yield", NoFilter)
    BY <2>1, <2>2 DEF Session!Begin, NoOp
  <2> QED
    BY <2>3 DEF Session!Next, Session!Calls
<1>7. ASSUME NEW q \in Qos, Publish(q) PROVE [Session!Next]_(Session!vars)
  BY <1>7, RequestRefines DEF Publish, Working, Early
<1>8. ASSUME NEW ok \in BOOLEAN, SelectReturns(ok)
      PROVE  [Session!Next]_(Session!vars)
  BY <1>8, StepIsHidden DEF SelectReturns, Early
<1>9. ASSUME NEW f \in Filters, SubscribeMore(f)
      PROVE  [Session!Next]_(Session!vars)
  BY <1>9, RequestRefines DEF SubscribeMore, Working, Early
<1>10. CASE Unsubscribe
  BY <1>10, RequestRefines, MqttAssumption DEF Unsubscribe, Working, Early
<1>11. CASE Disconnect
  <2>1. /\ op = NoOp /\ op' = [NoOp EXCEPT !.kind = "disconnect"] /\ rc' = "none"
        /\ UNCHANGED <<app, conn, handlers>> /\ conn
    BY <1>11 DEF Disconnect, Working, CallInv, OpInv
  <2>2. SessionState = "open" /\ SessionState' = "open"
    BY <2>1 DEF SessionState
  <2>3. Session!Begin("disconnect", NoFilter)
    BY <2>1, <2>2 DEF Session!Begin, NoOp
  <2> QED
    BY <2>3 DEF Session!Next, Session!Calls
<1>12. CASE EnterWrite
  BY <1>12, StepIsHidden DEF EnterWrite, Early
<1>13. ASSUME NEW n \in 0..PacketLen, Write(n) PROVE [Session!Next]_(Session!vars)
  BY <1>13, StepIsHidden DEF Write, Early
<1>14. CASE SendFails \/ WriteFails
  BY <1>14, FailRefines DEF SendFails, WriteFails
<1>15. CASE SendSucceeds
  BY <1>15, SendRefines
<1>16. CASE EnterRead
  BY <1>16, StepIsHidden DEF EnterRead, Early
<1>17. CASE WaitExpires
  BY <1>17, FailRefines, SuccessRefines DEF WaitExpires
<1>18. CASE ReadPacket
  BY <1>18, ReadRefines
<1>19. CASE ReadNothing
  BY <1>19, StepIsHidden DEF ReadNothing, Early
<1>20. ASSUME NEW t \in Leftovers, ReadOverflow(t)
       PROVE  [Session!Next]_(Session!vars)
  BY <1>20, FailRefines DEF ReadOverflow
<1>21. CASE KeepaliveNotDue
  BY <1>21, StepIsHidden DEF KeepaliveNotDue, Early
<1>22. CASE KeepalivePings
  BY <1>22, StepIsHidden DEF KeepalivePings, Early
<1>23. CASE KeepaliveFails
  BY <1>23, FailRefines DEF KeepaliveFails
<1>24. CASE Finish
  BY <1>24, FinishRefines
<1>25. CASE Environment
  <2>1. ASSUME NEW t \in Timers, Expire(t) PROVE [Session!Next]_(Session!vars)
    BY <2>1, StepIsHidden DEF Expire, Early
  <2>2. CASE BrokerGrants
    BY <2>2, StepIsHidden DEF BrokerGrants, Early
  <2>3. ASSUME NEW ok \in BOOLEAN, BrokerReads(ok)
        PROVE  [Session!Next]_(Session!vars)
    <3>1. UNCHANGED <<app, op, conn, handlers, rc>>
      BY <2>3, Zenon DEF BrokerReads
    <3> QED
      BY <3>1, StepIsHidden DEF Early
  <2>4. ASSUME NEW t \in Topics, NEW q \in 0..2, NEW b \in {"ok", "long"},
               BrokerPublishes(t, q, b)
        PROVE  [Session!Next]_(Session!vars)
    BY <2>4, StepIsHidden DEF BrokerPublishes, Early
  <2>5. ASSUME NEW k \in 0..Len(inbox), NEW cut \in BOOLEAN, ConnectionEnds(k, cut)
        PROVE  [Session!Next]_(Session!vars)
    BY <2>5, StepIsHidden DEF ConnectionEnds, Early
  <2> QED
    BY <1>25, <2>1, <2>2, <2>3, <2>4, <2>5, Zenon DEF Environment
<1>26. CASE UNCHANGED vars
  BY <1>26, StepIsHidden DEF vars, Early
<1>27. CASE Task
  BY <1>27, <1>1, <1>2, <1>3, <1>4, <1>5, <1>6, <1>7, <1>8, <1>9, <1>10, <1>11,
     Zenon DEF Task
<1>28. CASE Library
  BY <1>28, <1>12, <1>13, <1>14, <1>15, <1>16, <1>17, <1>18, <1>19, <1>20, <1>21,
     <1>22, <1>23, <1>24, Zenon DEF Library, Runs
<1> QED
  BY <1>25, <1>26, <1>27, <1>28 DEF Next

\* MQTTClient.c implements MqttSession: whatever goes wrong with packets,
\* timers and the connection, a failed call leaves neither session nor
\* handler, a closed session stays closed, a subscription takes no handler
\* from another, and MQTTUnsubscribe succeeds only on a session that has gone.
THEOREM LibraryImplementsSession == Spec => ImplementsSession
<1>1. Init => Session!Init
  BY DEF Init, Session!Init, SessionState, NoOp
<1>2. Init => CallInv
  <2> SUFFICES ASSUME Init PROVE CallInv
    OBVIOUS
  <2>1. TypeInv /\ SessionInv /\ OpInv
    BY DeliveryInvInit DEF DeliveryInv
  <2>2. KindInv
    BY NoOpFields DEF Init, KindInv
  <2> QED
    BY <2>1, <2>2 DEF CallInv
<1>3. CallInv /\ [Next]_vars => CallInv'
  BY TypeInvInductive, SessionInvInductive, OpInvInductive, KindInvInductive DEF CallInv
<1>4. CallInv /\ [Next]_vars => [Session!Next]_(Session!vars)
  BY StepRefines
<1> QED
  BY <1>1, <1>2, <1>3, <1>4, PTL DEF Spec, ImplementsSession, Session!Spec

=============================================================================
