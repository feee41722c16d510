------------------------------ MODULE MqttClient ------------------------------
(***************************************************************************)
(* The MQTT client: the library src/mqtt/MQTTClient.c, its port            *)
(* src/mqtt/MQTTuiso.c and the task of src/mqtt/mqtt_client.c that uses    *)
(* them, against a broker behind a TCP connection.                         *)
(*                                                                         *)
(* One task makes one library call after the other.  A step of the model   *)
(* is the code between two SimpleLink calls: every sl_Send and sl_Recv     *)
(* blocks, and timers, the broker and the connection move on meanwhile.    *)
(***************************************************************************)
EXTENDS Naturals, Sequences

CONSTANTS
  Filters,      \* topic filters
  Sample,       \* the one the task subscribes to, "FreeRTOS/sample/#"
  Topics,       \* topics the broker publishes on
  Matching,     \* pairs of a filter and a topic that isTopicMatched accepts
  MaxHandlers,  \* MAX_MESSAGE_HANDLERS
  MaxPacketId,  \* MAX_PACKET_ID
  PacketLen,    \* bytes of a packet the client sends
  Qos,          \* qualities of service messages are published with
  Unused,       \* library calls the task does not make at present
  Window,       \* bound: packets the connection takes before sl_Send blocks
  MaxMessages   \* bound: messages the broker publishes

NoFilter == "none"  \* NULL

ASSUME MqttAssumption ==
  /\ NoFilter \notin Filters
  /\ Sample \in Filters /\ Matching \subseteq Filters \X Topics
  /\ MaxHandlers \in Nat /\ MaxPacketId \in Nat \ {0}
  /\ PacketLen \in Nat \ {0} /\ Qos \subseteq 0..2
  /\ Unused \subseteq {"subscribe", "unsubscribe", "disconnect"}
  /\ Window \in Nat \ {0} /\ MaxMessages \in Nat

VARIABLES
  app,       \* where the task is between its library calls
  reported,  \* mqtt_notify_message_reception is pending
  todo,      \* calls the notification it has taken asks for
  pc,        \* where the library call in progress is
  op,        \* that call and its arguments
  sending,   \* the packet in c->buf and why it is sent
  sent,      \* sendPacket: bytes written so far
  readbuf,   \* the packet in c->readbuf
  expired,   \* timers that have run out
  conn,      \* c->isconnected
  ping,      \* c->ping_outstanding
  nextId,    \* c->next_packetid
  handlers,  \* c->messageHandlers[].topicFilter
  rc,        \* return code of the last call, between calls
  sock,      \* the TCP connection: none, up or down
  inbox,     \* packets from the broker that have not been read
  outbox,    \* whole packets the broker has not read
  aligned,   \* the bytes sent so far are whole packets
  granted,   \* filters the broker has granted
  messages,  \* messages it has published
  pingFresh  \* history: no timer has run out since the outstanding ping

appVars    == <<app, reported, todo>>
sendVars   == <<sending, sent>>
sessionVars == <<conn, ping, pingFresh, handlers>>
clientVars == <<sessionVars, nextId>>
netVars    == <<sock, inbox, outbox, aligned, granted, messages>>
vars == <<appVars, pc, op, sendVars, readbuf, expired, clientVars, rc,
          netVars>>

Slots    == 1..MaxHandlers
Ids      == 0..MaxPacketId
Timers   == {"command", "ping", "sent", "received"}
Kinds    == {"none", "connect", "subscribe", "unsubscribe", "publish",
             "yield", "disconnect"}
Types    == {"none", "CONNECT", "CONNACK", "PUBLISH", "PUBACK", "PUBREC",
             "PUBREL", "PUBCOMP", "SUBSCRIBE", "SUBACK", "UNSUBSCRIBE",
             "UNSUBACK", "PINGREQ", "PINGRESP", "DISCONNECT"}

\* body: as it should be; a refusal; broken off with the connection, all but
\* the type perhaps; longer than readbuf.
Packets == [type : Types, id : Ids,
            topic : Filters \cup Topics \cup {NoFilter}, qos : 0..2,
            body : {"ok", "refused", "cut", "long"}]
Packet(t, i) == [type |-> t, id |-> i, topic |-> NoFilter, qos |-> 0,
                 body |-> "ok"]
Nothing == Packet("none", 0)

Ops  == [kind : Kinds, id : Ids, filter : Filters \cup {NoFilter}, qos : 0..2]
NoOp == [kind |-> "none", id |-> 0, filter |-> NoFilter, qos |-> 0]

\* The packet a call waits for.
Awaited(o) ==
  CASE o.kind = "connect" -> "CONNACK"
    [] o.kind = "subscribe" -> "SUBACK"
    [] o.kind = "unsubscribe" -> "UNSUBACK"
    [] o.kind = "publish" /\ o.qos = 1 -> "PUBACK"
    [] o.kind = "publish" /\ o.qos = 2 -> "PUBCOMP"
    [] OTHER -> "none"

TypeOK ==
  /\ app \in {"suspended", "net", "connect", "subscribe", "poll", "work"}
  /\ reported \in BOOLEAN /\ todo \subseteq {"yield", "publish"}
  /\ pc \in {"idle", "send", "write", "read", "keepalive", "loop"}
  /\ op \in Ops
  /\ sending \in [why : {"request", "ack", "ping"}, packet : Packets]
  /\ sent \in 0..(2 * PacketLen)
  /\ readbuf \in Packets
  /\ expired \subseteq Timers
  /\ conn \in BOOLEAN /\ ping \in BOOLEAN
  /\ nextId \in 1..MaxPacketId
  /\ handlers \in [Slots -> Filters \cup {NoFilter}]
  /\ rc \in {"none", "SUCCESS", "FAILURE", "REFUSED"}
  /\ sock \in {"none", "up", "down"}
  /\ inbox \in Seq(Packets) /\ outbox \in Seq(Packets)
  /\ aligned \in BOOLEAN
  /\ granted \subseteq Filters /\ messages \in 0..MaxMessages
  /\ pingFresh \in BOOLEAN

NotSending == [why |-> "request", packet |-> Nothing]

\* MQTTClientInit, init_network
Init ==
  /\ app = "suspended" /\ reported = FALSE /\ todo = {}
  /\ pc = "idle" /\ op = NoOp /\ sending = NotSending /\ sent = 0
  /\ readbuf = Nothing
  /\ expired = {"sent", "received"}
  /\ conn = FALSE /\ ping = FALSE /\ nextId = 1
  /\ handlers = [s \in Slots |-> NoFilter]
  /\ rc = "none"
  /\ sock = "none" /\ inbox = <<>> /\ outbox = <<>> /\ aligned = TRUE
  /\ granted = {} /\ messages = 0
  /\ pingFresh = FALSE

-----------------------------------------------------------------------------
(* Parts of the library calls.                                             *)

\* Mutated form: a closed session keeps its handlers and its state.
KeepSession == UNCHANGED sessionVars

\* MQTTCloseSession, with the cleansession of this client
CloseSession ==
  /\ conn' = FALSE /\ ping' = FALSE /\ pingFresh' = FALSE
  /\ handlers' = [s \in Slots |-> NoFilter]

\* A library call returns r with the timers in late run out; its own timer
\* and that of a ping are gone.  The task goes on behind it.
Return(r, late) ==
  /\ pc' = "idle" /\ op' = NoOp /\ rc' = r
  /\ sending' = NotSending /\ sent' = 0 /\ readbuf' = Nothing
  /\ expired' = late \cap {"sent", "received"}
  /\ app' = CASE app = "connect" -> "subscribe"
              [] app = "subscribe" -> "poll"
              [] OTHER -> app

\* A call fails.  MQTTConnect leaves the session alone, MQTTYield closes it
\* through cycle if it is open, the others close it in any case.
Fail(late) ==
  /\ Return("FAILURE", late)
  /\ IF op.kind = "connect" \/ (op.kind = "yield" /\ ~conn)
     THEN UNCHANGED sessionVars
     ELSE CloseSession

\* A packet goes into c->buf and sendPacket begins.
StartSend(why, p) ==
  /\ pc' = "send"
  /\ sending' = [why |-> why, packet |-> p]
  /\ sent' = 0

\* Mutated form: the identifier does not start again behind the last one.
NoWrap == nextId + 1

\* getNextPacketId
NextId == IF nextId = MaxPacketId THEN 1 ELSE nextId + 1

-----------------------------------------------------------------------------
(* The task: prvMQTTEchoTask.                                              *)

\* wifi_task resumes it for the first time.
Resume ==
  /\ app = "suspended" /\ app' = "net"
  /\ UNCHANGED <<reported, todo, pc, op, sendVars, readbuf, expired,
                 clientVars, rc,
                 netVars>>

\* NetworkConnect; a failure is only printed.
NetworkConnect(ok) ==
  /\ app = "net" /\ app' = "connect"
  /\ sock' = IF ok THEN "up" ELSE "down"
  /\ UNCHANGED <<reported, todo, pc, op, sendVars, readbuf, expired,
                 clientVars, rc,
                 inbox, outbox, aligned, granted, messages>>

\* MQTTConnect up to its sendPacket
Connect ==
  /\ app = "connect" /\ pc = "idle"
  /\ op' = [NoOp EXCEPT !.kind = "connect"]
  /\ StartSend("request", Packet("CONNECT", 0))
  /\ expired' = expired \ {"received"} /\ rc' = "none"
  /\ UNCHANGED <<appVars, readbuf, clientVars, netVars>>

\* A call with an identifier begins: MQTTSubscribe, MQTTUnsubscribe and
\* MQTTPublish fail at once unless the session is open.
Request(kind, type, f, q) ==
  LET id == IF kind = "publish" /\ q = 0 THEN 0 ELSE NextId
      p  == [Packet(type, id) EXCEPT !.topic = f, !.qos = q]
      o  == [kind |-> kind, id |-> id, filter |-> f, qos |-> q]
  IN IF conn
     THEN /\ op' = o
          /\ nextId' = IF id = 0 THEN nextId ELSE id
          /\ StartSend("request", p)
          /\ rc' = "none"
          /\ UNCHANGED <<app, sessionVars, readbuf, expired>>
     ELSE Return("FAILURE", expired) /\ CloseSession /\ UNCHANGED nextId

Subscribe ==
  /\ app = "subscribe" /\ pc = "idle"
  /\ Request("subscribe", "SUBSCRIBE", Sample, 1)
  /\ UNCHANGED <<reported, todo, netVars>>

\* xTaskNotifyWait with no delay.  The bit of publish_timer_callback is among
\* the notification if the timer has run out since the last look; nothing but
\* this step sees when.
Poll(timer) ==
  /\ app = "poll" /\ pc = "idle"
  /\ app' = "work"
  /\ todo' = (IF reported THEN {"yield"} ELSE {})
              \cup (IF timer THEN {"publish"} ELSE {})
  /\ reported' = FALSE
  /\ UNCHANGED <<pc, op, sendVars, readbuf, expired, clientVars, rc, netVars>>

Working == app = "work" /\ pc = "idle"

\* MQTTYield, when the mediator has reported the socket
Yield ==
  /\ Working /\ "yield" \in todo
  /\ todo' = todo \ {"yield"}
  /\ op' = [NoOp EXCEPT !.kind = "yield"]
  /\ pc' = "loop" /\ rc' = "none"
  /\ UNCHANGED <<app, reported, sendVars, readbuf, expired, clientVars,
                 netVars>>

\* MQTTPublish, when the publish timer has run out
Publish(q) ==
  /\ Working /\ "yield" \notin todo /\ "publish" \in todo
  /\ todo' = todo \ {"publish"}
  /\ Request("publish", "PUBLISH", NoFilter, q)
  /\ UNCHANGED <<reported, netVars>>

\* enqueue_select_rx returns, with a report or without (ReadinessWait).
SelectReturns(ok) ==
  /\ app = "work" /\ pc = "idle" /\ todo = {}
  /\ app' = "poll"
  /\ reported' = ok
  /\ UNCHANGED <<todo, pc, op, sendVars, readbuf, expired, clientVars, rc,
                 netVars>>

\* The other calls of the library, which the task does not make at present.
SubscribeMore(f) ==
  /\ Working /\ todo = {} /\ "subscribe" \in Unused
  /\ Request("subscribe", "SUBSCRIBE", f, 1)
  /\ UNCHANGED <<reported, todo, netVars>>

Unsubscribe ==
  /\ Working /\ todo = {} /\ "unsubscribe" \in Unused
  /\ Request("unsubscribe", "UNSUBSCRIBE", Sample, 0)
  /\ UNCHANGED <<reported, todo, netVars>>

\* MQTTDisconnect does not ask whether there is a session; its caller does.
Disconnect ==
  /\ Working /\ todo = {} /\ conn /\ "disconnect" \in Unused
  /\ op' = [NoOp EXCEPT !.kind = "disconnect"]
  /\ StartSend("request", Packet("DISCONNECT", 0)) /\ rc' = "none"
  /\ UNCHANGED <<appVars, readbuf, expired, clientVars, netVars>>

Task ==
  \/ Resume \/ Connect \/ Subscribe \/ Yield \/ Unsubscribe \/ Disconnect
  \/ \E ok \in BOOLEAN : NetworkConnect(ok) \/ Poll(ok) \/ SelectReturns(ok)
  \/ \E f \in Filters : SubscribeMore(f)
  \/ \E q \in Qos : Publish(q)

-----------------------------------------------------------------------------
(* sendPacket                                                              *)

\* Each packet is sent against the timer of its call; a ping has its own.
SendTimer == IF sending.why = "ping" THEN "ping" ELSE "command"

\* The head of the loop, while there is something left to send
EnterWrite ==
  /\ pc = "send" /\ sent < PacketLen /\ SendTimer \notin expired
  /\ pc' = "write"
  /\ UNCHANGED <<appVars, op, sendVars, readbuf, expired, clientVars, rc,
                 netVars>>

\* mqttwrite is given the whole length from &buf[sent] on and may send up to
\* that much, or nothing; it blocks while the connection takes no more.
Write(n) ==
  /\ pc = "write" /\ sock = "up" /\ Len(outbox) < Window
  /\ pc' = "send" /\ sent' = sent + n
  /\ UNCHANGED <<appVars, op, sending, readbuf, expired, clientVars, rc,
                 netVars>>

\* What has gone out: a packet and perhaps bytes behind it, or a part of one.
Sent ==
  /\ outbox' = IF sent >= PacketLen /\ aligned /\ sock = "up"
               THEN Append(outbox, sending.packet) ELSE outbox
  /\ aligned' = (aligned /\ sent \in {0, PacketLen})
  /\ UNCHANGED <<sock, inbox, granted, messages>>

\* Mutated form: more bytes than the packet has count as success.
SentEnough == sent >= PacketLen

\* "if (sent == length)"
SentWhole == sent = PacketLen

\* sendPacket returns FAILURE: mqttwrite has failed, or the loop has ended
\* with too few or too many bytes.
WriteFails ==
  /\ pc = "write"
  /\ Sent /\ Fail(expired)
  /\ UNCHANGED <<reported, todo, nextId>>

SendFails ==
  /\ pc = "send" /\ ~SentWhole /\ (sent > PacketLen \/ SendTimer \in expired)
  /\ Sent /\ Fail(expired)
  /\ UNCHANGED <<reported, todo, nextId>>

\* The call goes on at to, with the timers in late run out.
EndSend(to, late) ==
  /\ pc' = to /\ sending' = NotSending /\ sent' = 0
  /\ expired' = late
  /\ UNCHANGED <<app, op, rc, readbuf>>

\* sendPacket returns SUCCESS and its caller goes on.
SendSucceeds ==
  LET late == expired \ {"sent"} IN
  /\ pc = "send" /\ SentWhole
  /\ Sent
  /\ \/ /\ sending.why = "request" /\ Awaited(op) = "none"
        /\ Return("SUCCESS", late)
        /\ IF op.kind = "disconnect" THEN CloseSession
                                     ELSE UNCHANGED sessionVars
     \/ /\ sending.why = "request" /\ Awaited(op) # "none"
        /\ EndSend("loop", late) /\ UNCHANGED sessionVars
     \/ /\ sending.why = "ack"
        /\ EndSend("keepalive", late) /\ UNCHANGED sessionVars
     \/ /\ sending.why = "ping"
        /\ EndSend("loop", late \ {"ping"})
        /\ ping' = TRUE /\ pingFresh' = TRUE /\ UNCHANGED <<conn, handlers>>
  /\ UNCHANGED <<reported, todo, nextId>>

-----------------------------------------------------------------------------
(* cycle, in the loops of waitfor and MQTTYield                            *)

\* The head of the loop: waitfor ends with the packet it waits for, both end
\* when the timer of the call has run out.  (MQTTYield looks at its timer
\* after a round, but it has only just started it before the first.)
GotAnswer == op.kind # "yield" /\ readbuf.type = Awaited(op)

\* readbuf is not looked at again before it is written.
EnterRead ==
  /\ pc = "loop" /\ ~GotAnswer /\ "command" \notin expired
  /\ pc' = "read" /\ readbuf' = Nothing
  /\ UNCHANGED <<appVars, op, sendVars, expired, clientVars, rc, netVars>>

WaitExpires ==
  /\ pc = "loop" /\ ~GotAnswer /\ "command" \in expired
  /\ IF op.kind = "yield"
     THEN Return("SUCCESS", expired) /\ UNCHANGED sessionVars
     ELSE Fail(expired)
  /\ UNCHANGED <<reported, todo, nextId, netVars>>

\* Mutated form: a packet that has come in does not restart its timer.
NoTimer == expired

\* "TimerCountdown(&c->last_received, c->keepAliveInterval)"
ReceivedTimer == expired \ {"received"}

\* The handlers deliverMessage calls for a topic; messageArrived only prints.
Hears(t) == {s \in Slots : <<handlers[s], t>> \in Matching}

\* The packet that a PUBLISH, PUBREC or PUBREL is answered with
AnswerType(p) ==
  CASE p.type = "PUBREC" -> "PUBREL"
    [] p.type = "PUBREL" -> "PUBCOMP"
    [] p.type = "PUBLISH" /\ p.qos = 1 -> "PUBACK"
    [] OTHER -> "PUBREC"

\* The identifier the deserializers find.  In a packet of which only the type
\* has come (readPacket takes its missing length for 0) they find none, but
\* return 1 all the same, the number of bytes of that length: the variable
\* they were to fill has what was on the stack.
IdsOf(p) == IF p.body = "cut" THEN Ids ELSE {p.id}

Acknowledge(p) == \E i \in IdsOf(p) : StartSend("ack", Packet(AnswerType(p), i))

Untouched == UNCHANGED <<app, op, rc, conn, handlers>>
Read(p)   == readbuf' = p /\ expired' = ReceivedTimer

\* readPacket returns the type of p, and the switch deals with it.
HandleAck(p) ==
  /\ p.type \in {"none", "CONNACK", "PUBACK", "SUBACK", "PUBCOMP", "PINGRESP"}
  /\ pc' = "keepalive"
  /\ ping' = (ping /\ p.type # "PINGRESP")
  /\ pingFresh' = (pingFresh /\ p.type # "PINGRESP")
  /\ Read(p) /\ Untouched
  /\ UNCHANGED sendVars

\* deliverMessage changes nothing here, whatever topic it finds.
HandlePublish(p) ==
  /\ p.type = "PUBLISH"
  /\ Read(p) /\ Untouched
  /\ \/ p.qos # 0 /\ Acknowledge(p)
     \/ p.qos = 0 /\ pc' = "keepalive" /\ UNCHANGED sendVars
  /\ UNCHANGED <<ping, pingFresh>>

HandleExchange(p) ==
  /\ p.type \in {"PUBREC", "PUBREL"}
  /\ Acknowledge(p) /\ Read(p) /\ Untouched
  /\ UNCHANGED <<ping, pingFresh>>

\* The default case, UNSUBACK included: the session is closed and cycle
\* returns the type all the same, without keepalive.
HandleOther(p) ==
  /\ p.type \in {"CONNECT", "SUBSCRIBE", "UNSUBSCRIBE", "UNSUBACK", "PINGREQ",
                 "DISCONNECT"}
  /\ pc' = "loop" /\ Read(p)
  /\ IF conn THEN CloseSession ELSE UNCHANGED sessionVars
  /\ UNCHANGED <<app, op, rc, sendVars>>

ReadPacket ==
  /\ pc = "read" /\ inbox # <<>> /\ Head(inbox).body # "long"
  /\ inbox' = Tail(inbox)
  /\ LET p == Head(inbox) IN
       HandleAck(p) \/ HandlePublish(p) \/ HandleExchange(p) \/ HandleOther(p)
  /\ UNCHANGED <<reported, todo, nextId, sock, outbox, aligned, granted,
                 messages>>

\* Mutated form: mqttread tries again when sl_Recv fails.
ReadsOn == pc = "read" /\ sock # "up" /\ inbox = <<>> /\ UNCHANGED vars

\* mqttread returns less than it was asked for only once the connection is
\* gone; where the type or the body is missing, readPacket then returns 0,
\* "timed out reading packet".
ReadNothing ==
  /\ pc = "read" /\ sock # "up"
  /\ inbox # <<>> => Head(inbox).body = "cut"
  /\ inbox' = IF inbox = <<>> THEN inbox ELSE Tail(inbox)
  /\ readbuf' = Nothing /\ pc' = "keepalive"
  /\ UNCHANGED <<appVars, op, sendVars, expired, clientVars, rc, sock, outbox,
                 aligned, granted, messages>>

\* The rest of a long packet may be taken for any packet; one type of each
\* case of the switch stands for the others.
Leftovers == {"none", "PUBLISH", "PUBREL", "UNSUBACK"}

\* BUFFER_OVERFLOW: the rest of the packet stays in the stream.
ReadOverflow(t) ==
  /\ pc = "read" /\ inbox # <<>> /\ Head(inbox).body = "long"
  /\ inbox' = <<Packet(t, 0)>> \o Tail(inbox)
  /\ Fail(expired)
  /\ UNCHANGED <<reported, todo, nextId, sock, outbox, aligned, granted,
                 messages>>

\* keepalive
Due == expired \cap {"sent", "received"} # {}

KeepaliveNotDue ==
  /\ pc = "keepalive" /\ ~Due
  /\ pc' = "loop"
  /\ UNCHANGED <<appVars, op, sendVars, readbuf, expired, clientVars, rc,
                 netVars>>

KeepalivePings ==
  /\ pc = "keepalive" /\ Due /\ ~ping
  /\ StartSend("ping", Packet("PINGREQ", 0))
  /\ UNCHANGED <<appVars, op, readbuf, expired, clientVars, rc, netVars>>

KeepaliveFails ==
  /\ pc = "keepalive" /\ Due /\ ping
  /\ Fail(expired)
  /\ UNCHANGED <<reported, todo, nextId, netVars>>

-----------------------------------------------------------------------------
(* What a call does with the packet it has waited for                      *)

\* Mutated form: without a free slot the last one is taken.
AnySlot(f) == MaxHandlers

\* MQTTSetMessageHandler: the slot of an equal filter, or else the first
\* empty one; past the last one there is none.
SlotFor(f) ==
  LET same  == {s \in Slots : handlers[s] = f}
      empty == {s \in Slots : handlers[s] = NoFilter}
      these == IF same # {} THEN same ELSE empty
  IN IF these = {} THEN MaxHandlers + 1
     ELSE CHOOSE s \in these : \A r \in these : s <= r

\* A call goes by the type of its answer and, where there is one, by the
\* refusal in its body: an answer without a body is a good one.
Connected ==
  /\ op.kind = "connect"
  /\ IF readbuf.body = "refused"
     THEN Return("REFUSED", expired) /\ UNCHANGED <<conn, ping, pingFresh>>
     ELSE /\ Return("SUCCESS", expired)
          /\ conn' = TRUE /\ ping' = FALSE /\ pingFresh' = FALSE
  /\ UNCHANGED handlers

\* A refused subscription leaves the SUCCESS of sendPacket in rc.
Subscribed ==
  LET refused == readbuf.body = "refused"
      slot    == SlotFor(op.filter)
  IN
  /\ op.kind = "subscribe"
  /\ \/ /\ ~refused /\ slot \in Slots
        /\ handlers' = [handlers EXCEPT ![slot] = op.filter]
        /\ Return("SUCCESS", expired) /\ UNCHANGED <<conn, ping, pingFresh>>
     \/ ~refused /\ slot \notin Slots /\ Fail(expired)
     \/ refused /\ Return("SUCCESS", expired) /\ UNCHANGED sessionVars

Unsubscribed ==
  /\ op.kind = "unsubscribe"
  /\ handlers' = [s \in Slots |->
                    IF handlers[s] = op.filter THEN NoFilter ELSE handlers[s]]
  /\ Return("SUCCESS", expired) /\ UNCHANGED <<conn, ping, pingFresh>>

Published ==
  /\ op.kind = "publish"
  /\ Return("SUCCESS", expired) /\ UNCHANGED sessionVars

\* The awaited packet has come; its identifier is not compared.
Finish ==
  /\ pc = "loop" /\ GotAnswer
  /\ Connected \/ Subscribed \/ Unsubscribed \/ Published
  /\ UNCHANGED <<reported, todo, nextId, netVars>>

\* The steps that a task which is not held up takes
Runs ==
  \/ EnterWrite \/ \E n \in 0..PacketLen : Write(n)
  \/ SendFails \/ SendSucceeds
  \/ EnterRead \/ WaitExpires
  \/ ReadPacket \/ ReadNothing \/ \E t \in Leftovers : ReadOverflow(t)
  \/ KeepaliveNotDue \/ KeepalivePings \/ KeepaliveFails
  \/ Finish

Library == Runs \/ WriteFails

-----------------------------------------------------------------------------
(* Timers, the broker and the connection                                   *)

\* A timer runs out.  The timers of a call and of a ping end with them.
Expire(t) ==
  /\ t \notin expired
  /\ t = "command" => pc # "idle"
  /\ t = "ping" => pc \in {"send", "write"} /\ sending.why = "ping"
  /\ expired' = expired \cup {t}
  /\ pingFresh' = (pingFresh /\ t \in {"command", "ping"})
  /\ UNCHANGED <<appVars, pc, op, sendVars, readbuf, conn, ping, handlers,
                 nextId, rc, netVars>>

\* The answer of a broker to a packet: none, or one of these types
ReplyTypes(p) ==
  CASE p.type = "CONNECT" -> {"CONNACK"}
    [] p.type = "SUBSCRIBE" -> {"SUBACK"}
    [] p.type = "UNSUBSCRIBE" -> {"UNSUBACK"}
    [] p.type = "PUBLISH" /\ p.qos = 1 -> {"PUBACK"}
    [] p.type = "PUBLISH" /\ p.qos = 2 -> {"PUBREC"}
    [] p.type = "PUBREC" -> {"PUBREL"}
    [] p.type = "PUBREL" -> {"PUBCOMP"}
    [] p.type = "PINGREQ" -> {"PINGRESP"}
    [] OTHER -> {}

\* The broker may publish for a subscription before it acknowledges it.
BrokerGrants ==
  /\ sock = "up" /\ outbox # <<>> /\ Head(outbox).type = "SUBSCRIBE"
  /\ granted' = granted \cup {Head(outbox).topic}
  /\ UNCHANGED <<appVars, pc, op, sendVars, readbuf, expired, clientVars, rc,
                 sock, inbox, outbox, aligned, messages>>

\* The broker reads a packet; it may refuse a connection or a subscription.
BrokerReads(ok) ==
  /\ sock = "up" /\ outbox # <<>>
  /\ outbox' = Tail(outbox)
  /\ LET p == Head(outbox) IN
       /\ \/ ok \/ p.type = "CONNECT"
          \/ p.type = "SUBSCRIBE" /\ p.topic \notin granted
       /\ IF ReplyTypes(p) = {} THEN inbox' = inbox
          ELSE \E t \in ReplyTypes(p) :
                 inbox' = Append(inbox, [Packet(t, p.id) EXCEPT
                                   !.body = IF ok THEN "ok" ELSE "refused"])
       /\ granted' = CASE p.type = "SUBSCRIBE" /\ ok -> granted \cup {p.topic}
                       [] p.type = "UNSUBSCRIBE" -> granted \ {p.topic}
                       [] p.type = "DISCONNECT" -> {}
                       [] OTHER -> granted
  /\ UNCHANGED <<appVars, pc, op, sendVars, readbuf, expired, clientVars, rc,
                 sock, aligned, messages>>

\* It publishes on a topic that a granted filter covers.  A message may be
\* longer than readbuf.
BrokerPublishes(t, q, b) ==
  /\ sock = "up" /\ messages < MaxMessages
  /\ messages' = messages + 1
  /\ \E f \in granted : <<f, t>> \in Matching
  /\ inbox' = Append(inbox, [Packet("PUBLISH", 1) EXCEPT
                               !.topic = t, !.qos = q, !.body = b])
  /\ UNCHANGED <<appVars, pc, op, sendVars, readbuf, expired, clientVars, rc,
                 sock, outbox, aligned, granted>>

\* The connection ends.  Of what was on its way the client still gets the
\* first k packets, the last of them perhaps broken off.
ConnectionEnds(k, cut) ==
  /\ sock = "up" /\ sock' = "down"
  /\ k <= Len(inbox) /\ (cut => k > 0)
  /\ inbox' = [i \in 1..k |->
                 IF cut /\ i = k THEN [inbox[i] EXCEPT !.body = "cut"]
                                 ELSE inbox[i]]
  /\ outbox' = <<>> /\ granted' = {}
  /\ UNCHANGED <<appVars, pc, op, sendVars, readbuf, expired, clientVars, rc,
                 aligned, messages>>

\* The code between two blocking calls takes no time.
Waiting == pc \in {"idle", "write", "read"}

Environment ==
  /\ Waiting
  /\ \/ \E t \in Timers : Expire(t)
     \/ BrokerGrants \/ \E ok \in BOOLEAN : BrokerReads(ok)
     \/ \E t \in Topics, q \in 0..2, b \in {"ok", "long"} :
          BrokerPublishes(t, q, b)
     \/ \E k \in 0..Len(inbox), cut \in BOOLEAN : ConnectionEnds(k, cut)

Next == Task \/ Library \/ Environment

Spec == Init /\ [][Next]_vars

\* The task runs, and time passes whenever it waits.  A write is not bound to
\* fail while there is a connection.
ClientFairness ==
  /\ WF_vars(Runs \/ (sock # "up" /\ WriteFails))
  /\ SF_vars(Waiting /\ Expire("command"))
  /\ SF_vars(Waiting /\ Expire("ping"))

\* The task waits for the other end, in sl_Recv or in sl_Send.
Blocked ==
  \/ pc = "read" /\ inbox = <<>> /\ sock = "up"
  \/ pc = "write" /\ Len(outbox) >= Window /\ sock = "up"

\* A broker gives up a client it has not heard of for one and a half keepalive
\* intervals.
BrokerFairness ==
  WF_vars(Blocked /\ \E k \in 0..Len(inbox) : ConnectionEnds(k, FALSE))

FairSpec == Spec /\ ClientFairness /\ BrokerFairness

-----------------------------------------------------------------------------
(* Properties                                                              *)

\* As long as the session is open, what has been sent is a sequence of whole
\* packets: a packet that sendPacket has sent in part, or with bytes behind
\* it, never goes unnoticed by the session.
StreamIntact == conn => aligned

\* A call that returns FAILURE leaves no open session behind (part of
\* ImplementsSession).
FailureCloses == rc = "FAILURE" /\ pc = "idle" => ~conn

\* What a call takes for its acknowledgement is what the broker has answered
\* to this very request, although no call compares the identifiers, and
\* although of the packet only the type may have come: id is the identifier
\* the broker gave it.
AckIsForRequest ==
  pc = "loop" /\ op.id # 0 /\ GotAnswer => readbuf.id = op.id

\* Between two calls on an open session, every filter the broker has granted
\* has a handler.
GrantedHasHandler ==
  conn /\ sock = "up" /\ pc = "idle" =>
    \A f \in granted : \E s \in Slots : handlers[s] = f

\* A message of an open session that deliverMessage finds no handler for is
\* read by MQTTSubscribe: the SUBACK that brings the handler is behind it.
UnheardOnlyBeforeSuback ==
  pc = "read" /\ conn /\ inbox # <<>> =>
    LET p == Head(inbox) IN
    p.type = "PUBLISH" /\ p.body = "ok" /\ Hears(p.topic) = {}
      => op.kind = "subscribe"

SessionState ==
  CASE conn -> "open"
    [] ~conn /\ app \in {"suspended", "net", "connect"} -> "none"
    [] OTHER -> "closed"

Session ==
  INSTANCE MqttSession
    WITH session <- SessionState, call <- op.kind, filter <- op.filter,
         subs <- {handlers[s] : s \in Slots} \ {NoFilter}, result <- rc

\* The library keeps the promise of MqttSession: a failed call leaves neither
\* a session nor a handler, a session that has closed, under a call too,
\* stays closed and refuses every further call but MQTTYield, a successful
\* subscription costs no other filter its handler, and MQTTUnsubscribe never
\* succeeds on a session that is still open.
ImplementsSession == Session!Spec

\* Neither timer of the keepalive has run out since the ping, and the
\* connection stands: keepalive then does not give up the session.
KeepaliveNotEarly ==
  pc = "keepalive" /\ ping /\ pingFresh /\ sock = "up" => ~Due

\* Every library call returns.
CallsReturn == pc # "idle" ~> pc = "idle"

=============================================================================
