--------------------------- MODULE SntpClientProofs ---------------------------
(***************************************************************************)
(* Proofs about SntpClient, for any number of requests, replies, resets    *)
(* and seconds, and for every place of the end of the NTP era.             *)
(***************************************************************************)
EXTENDS SntpClient, TLAPS

USE SntpAssumption

\* The poll interval of any reply is a number of seconds.
LEMMA PollIntervalType == ASSUME NEW p \in Nat PROVE PollInterval(p) \in Nat
<1>1. CASE p < 4
  BY <1>1 DEF PollInterval, PollSeconds
<1>2. CASE p > 17
  BY <1>2 DEF PollInterval, PollSeconds
<1>3. CASE ~(p < 4) /\ ~(p > 17)
  <2>1. p \in 4..17
    BY <1>3
  <2>2. PollInterval(p) = PollSeconds[p - 3]
    BY <1>3 DEF PollInterval
  <2>3. p - 3 \in 1..14
    BY <2>1
  <2>4. QED
    BY <2>2, <2>3 DEF PollSeconds
<1>4. QED
  BY <1>1, <1>2, <1>3

\* Timestamps of the time that passes are timestamps, and decoding one gives
\* the time it was made at, on both sides of the end of the era.
LEMMA Timestamps ==
  ASSUME NEW t \in Nat, t < StampMod
  PROVE  /\ NtpTime(t) \in 0..(StampMod - 1)
         /\ LocalNtpTime(t) \in 0..(StampMod - 1)
         /\ UnixTime(NtpTime(t)) = t
         /\ LocalNtpTime(t) = IF t + EpochOffset < StampMod
                              THEN t + EpochOffset ELSE 0
  BY DEF NtpTime, LocalNtpTime, UnixTime, Wrap

-----------------------------------------------------------------------------
\* The request a reply answers.
RequestOf(r) ==
  [boot |-> r.boot, req |-> r.req, stamp |-> r.originate, at |-> r.at]

\* The local clock is ahead by the running second at most, and time is within
\* the bound.
TimeInv == clock <= time + half /\ time <= MaxTime

\* A request was sent in the past; its timestamp is ahead of the time it was
\* sent at by one at most, and 0 only from the last second of the NTP era on.
RequestInv ==
  \A q \in requests :
    /\ q.at <= time /\ q.boot <= boots /\ q.stamp < StampMod
    /\ IF q.stamp = 0 THEN q.at + EpochOffset + 1 >= StampMod
                      ELSE q.stamp <= q.at + EpochOffset + 1

\* A reply answers a request that was sent and tells the time of the answer.
ReplyInv ==
  \A r \in replies :
    /\ RequestOf(r) \in requests
    /\ r.at <= r.srv /\ r.srv <= time
    /\ r.receive = NtpTime(r.srv)

\* The packet being looked at is one of the replies; before the request is
\* sent there is no origin to compare with, and before a reply is received no
\* packet of an earlier request is left.
PacketInv ==
  /\ packet = NoPacket \/ packet \in replies
  /\ spc \in {"idle", "resolve", "socket"} => origin = 0
  /\ spc \in {"idle", "resolve", "socket", "recv"} => packet = NoPacket
  /\ spc = "devset" => /\ packet \in replies
                       /\ packet.originate = origin
                       /\ clock >= packet.srv

\* A second of the local clock has begun since the last request, and two have.
Resting == spc \in {"resolve", "socket"} \/ (spc = "idle" /\ gap < MinGap)
Rested == spc \in {"resolve", "socket"} \/ (spc = "idle" /\ gap < MinGap - 1)

\* The timestamps of this boot are ahead of the local clock by one at most, as
\* the clock may just have been set back by one, and behind it when a request
\* may be sent.
StampInv ==
  \A q \in requests :
    q.boot = boots /\ q.stamp # 0 =>
      /\ q.stamp <= clock + EpochOffset + 1
      /\ Resting => q.stamp <= clock + EpochOffset
      /\ Rested => q.stamp < clock + EpochOffset

\* Once a request with a timestamp is sent, it is the only one of this boot
\* that carries that timestamp, and no other timestamp of this boot is later.
OriginInv ==
  spc \in {"recv", "close", "devset"} /\ origin # 0 =>
    \A q \in requests :
      q.boot = boots => /\ q.stamp <= origin
                        /\ q.stamp = origin => q.req = req /\ q.at = sentAt

\* Until the clock is set it runs on from the timestamp of the request, as
\* true time does from the time at which it was sent, and is ahead by the
\* running second at most.
ElapsedInv ==
  origin # 0 /\ spc # "devset"
    => clock + EpochOffset + sentAt <= origin + time + half

IInv == TimeInv /\ RequestInv /\ ReplyInv /\ PacketInv /\ StampInv
        /\ OriginInv /\ ElapsedInv

-----------------------------------------------------------------------------
\* A step is one of the actions, or changes nothing.
LEMMA StepCases ==
  ASSUME [Next]_vars
  PROVE  \/ Request \/ Send \/ ReceiveFails
         \/ Second \/ LocalSecond \/ Reset
         \/ \E ok \in BOOLEAN : Resolve(ok)
         \/ \E ok \in BOOLEAN : Close(ok)
         \/ \E ok \in BOOLEAN : DevSet(ok)
         \/ \E b \in BOOLEAN : SendFails(b)
         \/ \E r \in replies : Receive(r)
         \/ \E q \in requests, f \in Flaws, p \in Polls : Serve(q, f, p)
         \/ UNCHANGED vars
  BY DEF Next, Client

\* NoPacket stands for a reply that is not there.
LEMMA NoPacketType == NoPacket \in Replies
  BY DEF NoPacket, Replies, Flaws

\* The initial state has its types.
LEMMA InitTypeOK == Init => TypeOK
<1> SUFFICES ASSUME Init PROVE TypeOK
  OBVIOUS
<1>1. packet \in Replies
  BY NoPacketType DEF Init
<1>2. requests \subseteq Requests /\ replies \subseteq Replies
  BY DEF Init
<1>3. server \in [last : Nat, next : 0..(StampMod - 1)]
  BY DEF Init
<1>4. spc \in Stages /\ open \in BOOLEAN /\ synced \in BOOLEAN
  BY DEF Init, Stages
<1>5. QED
  BY <1>1, <1>2, <1>3, <1>4 DEF Init, TypeOK

\* What the return of uiso_sntp_request assigns has its type.
LEMMA ReturnTypes ==
  ASSUME NEW ok \in BOOLEAN, Return(ok)
  PROVE  /\ spc' \in Stages /\ synced' \in BOOLEAN /\ packet' \in Replies
         /\ gap' \in 0..MinGap /\ origin' \in 0..(StampMod - 1)
  BY NoPacketType DEF Return, Stages

\* The decoded timestamp of a reply is a number of seconds.
LEMMA DecodedType == ASSUME TypeOK PROVE Decoded(packet) \in Nat
  BY DEF TypeOK, Replies, Decoded, UnixTime, Wrap

\* The three ways Close ends: the reply is useless, it is accepted, or it
\* does not answer this request.
LEMMA CloseCases ==
  ASSUME NEW ok \in BOOLEAN, Close(ok)
  PROVE  \/ Return(FALSE) /\ UNCHANGED <<clock, server, toNext>>
         \/ /\ clock' = Decoded(packet) /\ spc' = "devset"
            /\ UNCHANGED <<server, toNext, synced, gap, packet, origin>>
            /\ packet # NoPacket /\ Answers(packet)
         \/ /\ Return(FALSE) /\ UNCHANGED clock /\ toNext' = 0
            /\ server' = [server EXCEPT !.next = Never]
  BY DEF Close

\* Every action keeps the types.
LEMMA TypeStep == ASSUME TypeOK, TimeInv, [Next]_vars PROVE TypeOK'
<1> USE DEF TypeOK, timeVars, clientVars, netVars
<1>1. CASE Request
  BY <1>1 DEF Request, Stages
<1>2. CASE Send
  <2>1. clock \in Nat /\ clock < StampMod
    BY DEF TimeInv
  <2>2. origin' \in 0..(StampMod - 1)
    BY <1>2, <2>1, Timestamps DEF Send
  <2>3. [boot |-> boots, req |-> req, stamp |-> origin', at |-> time]
          \in Requests
    BY <2>2 DEF Requests
  <2>4. requests' \subseteq Requests
    BY <1>2, <2>3 DEF Send
  <2>5. QED
    BY <1>2, <2>2, <2>4 DEF Send, Stages
<1>3. CASE ReceiveFails
  BY <1>3 DEF ReceiveFails, Stages
<1>4. CASE Second \/ LocalSecond
  BY <1>4 DEF Second, LocalSecond
<1>5. CASE Reset
  <2>1. server' \in [last : Nat, next : 0..(StampMod - 1)]
    BY <1>5 DEF Reset
  <2>2. spc' \in Stages /\ open' \in BOOLEAN /\ synced' \in BOOLEAN
    BY <1>5 DEF Reset, Stages
  <2>3. packet' \in Replies /\ origin' \in 0..(StampMod - 1)
        /\ gap' \in 0..MinGap
    BY <1>5, NoPacketType DEF Reset
  <2>4. QED
    BY <1>5, <2>1, <2>2, <2>3 DEF Reset
<1>6. ASSUME NEW ok \in BOOLEAN, Resolve(ok) PROVE TypeOK'
  <2>1. CASE ok
    BY <1>6, <2>1 DEF Resolve, Stages
  <2>2. CASE ~ok
    BY <1>6, <2>2, ReturnTypes DEF Resolve
  <2>3. QED
    BY <2>1, <2>2
<1>7. ASSUME NEW ok \in BOOLEAN, Close(ok) PROVE TypeOK'
  <2>1. open' \in BOOLEAN
    BY <1>7 DEF Close, OpenAfterClose
  <2>2. CASE Return(FALSE) /\ UNCHANGED <<clock, server, toNext>>
    BY <1>7, <2>1, <2>2, ReturnTypes DEF Close
  <2>3. CASE /\ clock' = Decoded(packet) /\ spc' = "devset"
             /\ UNCHANGED <<server, toNext, synced, gap, packet, origin>>
    BY <1>7, <2>1, <2>3, DecodedType DEF Close, Stages
  <2>4. CASE /\ Return(FALSE) /\ UNCHANGED clock /\ toNext' = 0
             /\ server' = [server EXCEPT !.next = Never]
    <3>1. server' \in [last : Nat, next : 0..(StampMod - 1)]
      BY <2>4 DEF Never
    <3>2. QED
      BY <1>7, <2>1, <2>4, <3>1, ReturnTypes DEF Close
  <2>5. QED
    BY <1>7, <2>2, <2>3, <2>4, CloseCases
<1>8. ASSUME NEW ok \in BOOLEAN, DevSet(ok) PROVE TypeOK'
  <2>1. PollInterval(packet.poll) \in Nat
    BY PollIntervalType DEF Replies
  <2>2. (Decoded(packet) + PollInterval(packet.poll)) % StampMod
          \in 0..(StampMod - 1)
    BY <2>1, DecodedType
  <2>3. server' \in [last : Nat, next : 0..(StampMod - 1)] /\ toNext' \in Nat
    BY <1>8, <2>1, <2>2, DecodedType DEF DevSet, Never
  <2>4. QED
    BY <1>8, <2>3, ReturnTypes DEF DevSet
<1>9. ASSUME NEW b \in BOOLEAN, SendFails(b) PROVE TypeOK'
  BY <1>9 DEF SendFails, Stages
<1>10. ASSUME NEW r \in replies, Receive(r) PROVE TypeOK'
  BY <1>10 DEF Receive, Stages
<1>11. ASSUME NEW q \in requests, NEW f \in Flaws, NEW p \in Polls,
              Serve(q, f, p)
       PROVE  TypeOK'
  <2>1. NtpTime(time) \in Nat
    BY Timestamps DEF TimeInv
  <2>2. [boot |-> q.boot, req |-> q.req, originate |-> q.stamp,
         at |-> q.at, srv |-> time, receive |-> NtpTime(time), flaw |-> f,
         poll |-> p] \in Replies
    BY <2>1 DEF Replies, Requests
  <2>3. replies' \subseteq Replies
    BY <1>11, <2>2 DEF Serve
  <2>4. QED
    BY <1>11, <2>3 DEF Serve
<1>12. CASE UNCHANGED vars
  BY <1>12 DEF vars
<1>13. QED
  BY StepCases, <1>1, <1>2, <1>3, <1>4, <1>5, <1>6, <1>7, <1>8, <1>9, <1>10,
     <1>11, <1>12

-----------------------------------------------------------------------------
\* The inductive invariant is kept by every action.
LEMMA IInvStep == ASSUME TypeOK, IInv, [Next]_vars PROVE IInv'
<1> USE DEF TypeOK, IInv, TimeInv, timeVars, clientVars, netVars
<1>1. ASSUME UNCHANGED <<timeVars, netVars, boots>>, Return(FALSE)
      PROVE  IInv'
  BY <1>1 DEF Return, RequestInv, ReplyInv, PacketInv, StampInv,
              OriginInv, ElapsedInv, Resting, Rested, RequestOf
<1>2. CASE Request
  BY <1>2 DEF Request, RequestInv, ReplyInv, PacketInv, StampInv,
              OriginInv, ElapsedInv, Resting, Rested, RequestOf
<1>3. CASE Send
  <2> DEFINE q == [boot |-> boots, req |-> req, stamp |-> origin',
                   at |-> time]
  <2>1. origin' = IF clock + EpochOffset < StampMod
                  THEN clock + EpochOffset ELSE 0
    BY <1>3, Timestamps DEF Send
  <2>2. requests' = requests \cup {q} /\ sentAt' = time /\ spc' = "recv"
        /\ UNCHANGED <<time, clock, half, packet, replies, req, boots>>
    BY <1>3 DEF Send
  <2>3. RequestInv'
    BY <2>1, <2>2 DEF RequestInv
  <2>4. ReplyInv' /\ PacketInv'
    BY <1>3, <2>2 DEF ReplyInv, PacketInv, RequestOf, Send
  <2>5. \A r \in requests : r.boot = boots /\ r.stamp # 0
                             => r.stamp < clock + EpochOffset
    BY <1>3 DEF StampInv, Resting, Rested, Send
  <2>6. StampInv'
    BY <2>1, <2>2, <2>5 DEF StampInv, Resting, Rested
  <2>7. OriginInv' /\ ElapsedInv'
    BY <2>1, <2>2, <2>5 DEF OriginInv, ElapsedInv, Requests
  <2>8. QED
    BY <2>2, <2>3, <2>4, <2>6, <2>7
<1>4. CASE ReceiveFails
  BY <1>4 DEF ReceiveFails, RequestInv, ReplyInv, PacketInv, StampInv,
              OriginInv, ElapsedInv, Resting, Rested, RequestOf
<1>5. CASE Second
  <2>1. RequestInv' /\ ReplyInv' /\ PacketInv'
    BY <1>5 DEF Second, RequestInv, ReplyInv, PacketInv, RequestOf, Requests,
                Replies
  <2>2. StampInv' /\ OriginInv' /\ ElapsedInv'
    BY <1>5 DEF Second, StampInv, OriginInv, ElapsedInv, Resting, Rested,
                Requests
  <2>3. QED
    BY <1>5, <2>1, <2>2 DEF Second
<1>6. CASE LocalSecond
  <2>1. RequestInv' /\ ReplyInv' /\ PacketInv'
    BY <1>6 DEF LocalSecond, RequestInv, ReplyInv, PacketInv, RequestOf,
                 Requests, Replies
  <2>2. OriginInv' /\ ElapsedInv'
    BY <1>6 DEF LocalSecond, OriginInv, ElapsedInv, Requests
  <2>3. StampInv'
    <3>1. Resting' => Resting \/ (spc = "idle" /\ gap = MinGap)
      BY <1>6 DEF LocalSecond, Resting
    <3>2. Rested' => Resting
      BY <1>6 DEF LocalSecond, Resting, Rested
    <3>3. clock' = clock + 1 /\ UNCHANGED <<requests, boots>>
      BY <1>6 DEF LocalSecond
    <3>4. ASSUME NEW q \in requests, q.boot = boots, q.stamp # 0
          PROVE  /\ q.stamp <= clock' + EpochOffset
                 /\ Rested' => q.stamp < clock' + EpochOffset
      <4>1. q.stamp \in Nat
        BY DEF Requests
      <4>2. q.stamp <= clock + EpochOffset + 1
            /\ (Resting => q.stamp <= clock + EpochOffset)
        BY <3>4 DEF StampInv
      <4>3. QED
        BY <3>2, <3>3, <4>1, <4>2
    <3>5. QED
      BY <3>3, <3>4 DEF StampInv, Requests
  <2>4. QED
    BY <1>6, <2>1, <2>2, <2>3 DEF LocalSecond
<1>7. CASE Reset
  <2>1. \A q \in requests : q.boot # boots'
    BY <1>7 DEF Reset, RequestInv, Requests
  <2>2. half' \in 0..1 /\ clock' = 0 /\ boots' = boots + 1 /\ spc' = "idle"
        /\ UNCHANGED <<time, requests, replies, req, sentAt>>
        /\ origin' = 0 /\ packet' = NoPacket
    BY <1>7 DEF Reset
  <2>3. RequestInv'
    BY <2>2 DEF RequestInv, Requests
  <2>4. ReplyInv' /\ PacketInv' /\ ElapsedInv'
    BY <2>2 DEF ReplyInv, PacketInv, ElapsedInv, RequestOf
  <2>5. StampInv' /\ OriginInv'
    BY <2>1, <2>2 DEF StampInv, OriginInv
  <2>6. TimeInv'
    <3>1. \A h \in 0..1, n \in Nat : 0 <= n + h
      OBVIOUS
    <3>2. QED
      BY <2>2, <3>1
  <2>7. QED
    BY <2>3, <2>4, <2>5, <2>6 DEF IInv
<1>8. ASSUME NEW ok \in BOOLEAN, Resolve(ok) PROVE IInv'
  <2>1. CASE ok
    BY <1>8, <2>1 DEF Resolve, RequestInv, ReplyInv, PacketInv, StampInv,
                      OriginInv, ElapsedInv, Resting, Rested, RequestOf
  <2>2. CASE ~ok
    BY <1>1, <1>8, <2>2 DEF Resolve
  <2>3. QED
    BY <2>1, <2>2
<1>9. ASSUME NEW ok \in BOOLEAN, Close(ok) PROVE IInv'
  <2>1. CASE Return(FALSE) /\ UNCHANGED clock
    BY <1>1, <1>9, <2>1 DEF Close
  <2>2. CASE /\ clock' = Decoded(packet) /\ spc' = "devset"
             /\ UNCHANGED <<server, toNext, synced, gap, packet, origin>>
             /\ packet # NoPacket /\ Answers(packet)
    <3>1. spc = "close" /\ UNCHANGED <<time, half, netVars, req, sentAt, boots>>
      BY <1>9 DEF Close
    <3>2. packet \in replies /\ packet.originate = origin
      BY <2>2 DEF PacketInv, Answers
    <3>3. packet.srv \in Nat /\ packet.srv <= time /\ packet.at <= packet.srv
          /\ packet.at \in Nat /\ packet.receive = NtpTime(packet.srv)
      BY <3>2 DEF ReplyInv, Replies
    <3>4. clock' = packet.srv
      BY <2>2, <3>3, Timestamps DEF Decoded
    <3>5. RequestInv' /\ ReplyInv' /\ PacketInv' /\ OriginInv'
      BY <2>2, <3>1, <3>2, <3>3, <3>4
         DEF RequestInv, ReplyInv, PacketInv, OriginInv, RequestOf
    <3>6. IF origin = 0 THEN packet.at + EpochOffset + 1 >= StampMod
                        ELSE origin <= packet.at + EpochOffset + 1
      BY <3>2 DEF ReplyInv, RequestInv, RequestOf
    <3>7. ASSUME NEW q \in requests, q.boot = boots, q.stamp # 0
          PROVE  q.stamp <= packet.srv + EpochOffset + 1
      BY <3>1, <3>3, <3>6, <3>7 DEF RequestInv, OriginInv, Requests
    <3>8. StampInv' /\ ElapsedInv'
      BY <2>2, <3>1, <3>4, <3>7 DEF StampInv, ElapsedInv, Resting, Rested
    <3>9. QED
      BY <3>1, <3>3, <3>4, <3>5, <3>8
  <2>3. QED
    BY <1>9, <2>1, <2>2, CloseCases
<1>10. ASSUME NEW ok \in BOOLEAN, DevSet(ok) PROVE IInv'
  BY <1>10 DEF DevSet, Return, RequestInv, ReplyInv, PacketInv, StampInv,
              OriginInv, ElapsedInv, Resting, Rested, RequestOf
<1>11. ASSUME NEW b \in BOOLEAN, SendFails(b) PROVE IInv'
  BY <1>11 DEF SendFails, RequestInv, ReplyInv, PacketInv, StampInv,
               OriginInv, ElapsedInv, Resting, Rested, RequestOf
<1>12. ASSUME NEW r \in replies, Receive(r) PROVE IInv'
  BY <1>12 DEF Receive, RequestInv, ReplyInv, PacketInv, StampInv,
               OriginInv, ElapsedInv, Resting, Rested, RequestOf
<1>13. ASSUME NEW q \in requests, NEW f \in Flaws, NEW p \in Polls,
              Serve(q, f, p)
       PROVE  IInv'
  <2> DEFINE r == [boot |-> q.boot, req |-> q.req, originate |-> q.stamp,
                   at |-> q.at, srv |-> time, receive |-> NtpTime(time),
                   flaw |-> f, poll |-> p]
  <2>1. replies' = replies \cup {r}
        /\ UNCHANGED <<timeVars, clientVars, requests, boots>>
    BY <1>13 DEF Serve
  <2>2. RequestOf(r) = q
    BY DEF RequestOf, Requests
  <2>3. r.at <= r.srv /\ r.srv <= time /\ r.receive = NtpTime(r.srv)
    BY DEF RequestInv
  <2>4. ReplyInv'
    <3>1. ASSUME NEW x \in replies
          PROVE  /\ RequestOf(x) \in requests /\ x.at <= x.srv
                 /\ x.srv <= time /\ x.receive = NtpTime(x.srv)
      BY DEF ReplyInv
    <3>2. QED
      BY <2>1, <2>2, <2>3, <3>1 DEF ReplyInv
  <2>5. RequestInv' /\ PacketInv'
    BY <2>1 DEF RequestInv, PacketInv
  <2>6. StampInv' /\ OriginInv' /\ ElapsedInv'
    BY <2>1 DEF StampInv, OriginInv, ElapsedInv, Resting, Rested
  <2>7. QED
    BY <2>1, <2>4, <2>5, <2>6
<1>14. CASE UNCHANGED vars
  BY <1>14 DEF vars, RequestInv, ReplyInv, PacketInv, StampInv,
               OriginInv, ElapsedInv, Resting, Rested, RequestOf
<1>15. QED
  BY StepCases, <1>2, <1>3, <1>4, <1>5, <1>6, <1>7, <1>8, <1>9, <1>10, <1>11,
     <1>12, <1>13, <1>14

\* The types and the inductive invariant hold in every state.
LEMMA IInvHolds == Spec => [](TypeOK /\ IInv)
<1>1. Init => TypeOK /\ IInv
  BY InitTypeOK DEF Init, IInv, TimeInv, RequestInv, ReplyInv, PacketInv,
                    StampInv, OriginInv, ElapsedInv
<1>2. TypeOK /\ IInv /\ [Next]_vars => (TypeOK /\ IInv)'
  BY TypeStep, IInvStep DEF IInv
<1>3. QED
  BY <1>1, <1>2, PTL DEF Spec

-----------------------------------------------------------------------------
\* Every variable keeps its type: the stages of uiso_sntp_request hand over
\* what the next one expects, and timestamps stay within their 32 bits.
THEOREM TypeCorrect == Spec => []TypeOK
  BY IInvHolds, PTL

\* uiso_sntp_request accepts a reply to the request it sent and to no other,
\* for any delay and duplication, within a boot and an NTP era.
THEOREM AcceptsOwnReply == Spec => []ReplyAnswersRequest
<1>1. TypeOK /\ IInv => ReplyAnswersRequest
  BY DEF TypeOK, IInv, PacketInv, ReplyInv, OriginInv, RequestOf,
         ReplyAnswersRequest, Accepted, Tied
<1>2. QED
  BY <1>1, IInvHolds, PTL

\* The error of a clock that was just set is at most the time since the
\* request was sent.
THEOREM ErrorWithinRoundTrip == Spec => []ClockNotBehindRequest
<1>1. ASSUME TypeOK, IInv, Accepted, Tied PROVE clock >= sentAt
  <2>1. packet \in replies /\ packet.originate = origin
        /\ clock >= packet.srv /\ packet.at <= packet.srv
    BY <1>1 DEF IInv, PacketInv, ReplyInv, Accepted
  <2>2. RequestOf(packet) \in requests
    BY <1>1, <2>1 DEF IInv, ReplyInv
  <2>3. RequestOf(packet).at = sentAt
    BY <1>1, <2>1, <2>2 DEF IInv, OriginInv, RequestOf, Accepted, Tied
  <2>4. packet.at = sentAt
    BY <2>3 DEF RequestOf
  <2>5. packet.at \in Nat /\ packet.srv \in Nat /\ clock \in Nat
    BY <1>1 DEF TypeOK, Replies
  <2>6. QED
    BY <2>1, <2>4, <2>5
<1>2. TypeOK /\ IInv => ClockNotBehindRequest
  BY <1>1 DEF ClockNotBehindRequest
<1>3. QED
  BY <1>2, IInvHolds, PTL

\* No sequence of requests, replies and resets sets the clock ahead of time; it
\* may run ahead of it by what is left of a second.
THEOREM NeverAhead == Spec => []ClockNeverAhead
<1>1. IInv => ClockNeverAhead
  BY DEF IInv, TimeInv, ClockNeverAhead
<1>2. QED
  BY <1>1, IInvHolds, PTL

-----------------------------------------------------------------------------
\* Whatever fails on the way, no request leaves its socket open behind it.
THEOREM EveryRequestCloses == Spec => []SocketClosed
<1>1. Init => SocketClosed
  BY DEF Init, SocketClosed
<1>2. ASSUME SocketClosed, [Next]_vars PROVE SocketClosed'
  <2> USE <1>2 DEF SocketClosed
  <2>1. CASE \/ UNCHANGED vars \/ Second \/ LocalSecond \/ Reset \/ Request
             \/ Send \/ ReceiveFails
    BY <2>1 DEF vars, clientVars, Second, LocalSecond, Reset, Request, Send,
                ReceiveFails
  <2>2. ASSUME NEW ok \in BOOLEAN, Resolve(ok) \/ Close(ok) \/ DevSet(ok)
        PROVE  SocketClosed'
    BY <2>2 DEF Resolve, Close, DevSet, Return, OpenAfterClose
  <2>3. ASSUME NEW b \in BOOLEAN, SendFails(b) PROVE SocketClosed'
    BY <2>3 DEF SendFails
  <2>4. ASSUME NEW r \in replies, Receive(r) PROVE SocketClosed'
    BY <2>4 DEF Receive
  <2>5. ASSUME NEW q \in requests, NEW f \in Flaws, NEW p \in Polls,
               Serve(q, f, p)
        PROVE  SocketClosed'
    BY <2>5 DEF Serve, clientVars
  <2>6. QED
    BY StepCases, <2>1, <2>2, <2>3, <2>4, <2>5
<1>3. QED
  BY <1>1, <1>2, PTL DEF Spec

-----------------------------------------------------------------------------
\* The phases that TimeKeeping sees, stage by stage.
LEMMA PhaseOf ==
  /\ spc = "idle" => Phase = "idle"
  /\ spc \in {"resolve", "socket"} => Phase = "begun"
  /\ spc = "recv" => Phase = "asked"
  /\ spc = "close" => Phase = IF packet = NoPacket THEN "failed" ELSE "asked"
  /\ spc = "devset" => Phase = "set"
  BY DEF Phase

\* The same after a step.
LEMMA PhaseOfNext ==
  /\ spc' = "idle" => Phase' = "idle"
  /\ spc' \in {"resolve", "socket"} => Phase' = "begun"
  /\ spc' = "recv" => Phase' = "asked"
  /\ spc' = "close" => Phase' = IF packet' = NoPacket THEN "failed"
                                                      ELSE "asked"
  /\ spc' = "devset" => Phase' = "set"
  BY DEF Phase

\* A reply that is accepted moves the clock no further than TimeKeeping
\* allows, also when it answers a request from before a reset.
LEMMA AcceptedIsSound ==
  ASSUME TypeOK, IInv, spc = "close", packet # NoPacket, Answers(packet)
  PROVE  Keeping!Sound(Decoded(packet))
<1> USE DEF TypeOK, IInv, TimeInv
<1>1. packet \in replies /\ packet.originate = origin
  BY DEF PacketInv, Answers
<1>2. PICK q \in requests : q = RequestOf(packet)
  BY <1>1 DEF ReplyInv
<1>3. q.boot = packet.boot /\ q.stamp = origin /\ q.at = packet.at
  BY <1>1, <1>2 DEF RequestOf
<1>4. /\ packet.srv \in Nat /\ packet.at \in Nat /\ packet.boot \in Nat
      /\ packet.at <= packet.srv /\ packet.srv <= time
      /\ packet.receive = NtpTime(packet.srv)
  BY <1>1 DEF ReplyInv, Replies
<1>5. Decoded(packet) = packet.srv
  BY <1>4, Timestamps DEF Decoded
<1>6. packet.srv \in 0..time
  BY <1>4
<1>7. ASSUME origin # 0 PROVE clock + sentAt <= packet.srv + time + 2
  <2>1. origin <= packet.at + EpochOffset + 1
    BY <1>3, <1>7 DEF RequestInv
  <2>2. clock + EpochOffset + sentAt <= origin + time + half
    BY <1>7 DEF ElapsedInv
  <2>3. QED
    BY <1>4, <2>1, <2>2
<1>8. ASSUME origin # 0, boots = 0 PROVE sentAt <= packet.srv
  <2>1. q.boot = boots
    BY <1>3, <1>4, <1>8 DEF RequestInv
  <2>2. q.at = sentAt
    BY <1>3, <1>8, <2>1 DEF OriginInv
  <2>3. QED
    BY <1>3, <1>4, <2>2
<1>9. ASSUME origin = 0 PROVE StampMod - EpochOffset <= packet.srv + 1
  <2>1. packet.at + EpochOffset + 1 >= StampMod
    BY <1>3, <1>9 DEF RequestInv
  <2>2. QED
    BY <1>4, <2>1
<1>10. QED
  BY <1>5, <1>6, <1>7, <1>8, <1>9 DEF Keeping!Sound

\* Every step of the client, of the network and of time is a step that
\* TimeKeeping allows, or one that it does not see.
LEMMA KeepingStep ==
  ASSUME TypeOK, IInv, SocketClosed, [Next]_vars
  PROVE  [Keeping!Next]_(Keeping!vars)
<1> USE PhaseOf, PhaseOfNext DEF TypeOK, timeVars
<1>1. CASE Request
  BY <1>1 DEF Request, Keeping!Next, Keeping!Begin
<1>2. CASE Send
  <2>1. (origin' # 0) = (clock < StampMod - EpochOffset)
    BY <1>2, Timestamps DEF Send, IInv, TimeInv
  <2>2. Keeping!Ask
    BY <1>2, <2>1 DEF Send, Keeping!Ask
  <2>3. QED
    BY <2>2 DEF Keeping!Next
<1>3. CASE ReceiveFails
  <2>1. packet = NoPacket
    BY <1>3 DEF ReceiveFails, IInv, PacketInv
  <2>2. Keeping!Fail
    BY <1>3, <2>1 DEF ReceiveFails, Keeping!Fail
  <2>3. QED
    BY <2>2 DEF Keeping!Next
<1>4. CASE Second \/ LocalSecond
  <2>1. CASE Second
    BY <2>1 DEF Second, clientVars, Phase, Keeping!Next, Keeping!Second
  <2>2. CASE LocalSecond
    BY <2>2 DEF LocalSecond, Phase, Keeping!Next, Keeping!LocalSecond
  <2>3. QED
    BY <1>4, <2>1, <2>2
<1>5. CASE Reset
  BY <1>5 DEF Reset, Keeping!Next, Keeping!Restart
<1>6. ASSUME NEW ok \in BOOLEAN, Resolve(ok)
      PROVE  [Keeping!Next]_(Keeping!vars)
  <2>1. CASE ok
    BY <1>6, <2>1 DEF Resolve, Keeping!vars
  <2>2. CASE ~ok
    <3>1. Keeping!GiveUp
      BY <1>6, <2>2 DEF Resolve, Return, SocketClosed, Keeping!GiveUp
    <3>2. QED
      BY <3>1 DEF Keeping!Next
  <2>3. QED
    BY <2>1, <2>2
<1>7. ASSUME NEW ok \in BOOLEAN, Close(ok)
      PROVE  [Keeping!Next]_(Keeping!vars)
  <2>1. /\ spc = "close" /\ open' = FALSE
        /\ UNCHANGED <<time, half, sentAt, boots>>
    BY <1>7 DEF Close, OpenAfterClose
  <2>2. CASE Return(FALSE) /\ UNCHANGED clock
    <3>1. Keeping!GiveUp
      BY <2>1, <2>2 DEF Return, Keeping!GiveUp
    <3>2. QED
      BY <3>1 DEF Keeping!Next
  <2>3. CASE /\ clock' = Decoded(packet) /\ spc' = "devset"
             /\ UNCHANGED <<synced, packet, origin>>
             /\ packet # NoPacket /\ Answers(packet)
    <3>1. Keeping!Sound(Decoded(packet))
      BY <2>1, <2>3, AcceptedIsSound
    <3>2. Keeping!Set(Decoded(packet))
      BY <2>1, <2>3, <3>1 DEF Keeping!Set
    <3>3. Decoded(packet) \in 0..time
      BY <3>1 DEF Keeping!Sound
    <3>4. QED
      BY <3>2, <3>3 DEF Keeping!Next
  <2>4. QED
    BY <1>7, <2>2, <2>3, CloseCases
<1>8. ASSUME NEW ok \in BOOLEAN, DevSet(ok)
      PROVE  [Keeping!Next]_(Keeping!vars)
  BY <1>8 DEF DevSet, Return, Keeping!Next, Keeping!Done
<1>9. ASSUME NEW b \in BOOLEAN, SendFails(b)
      PROVE  [Keeping!Next]_(Keeping!vars)
  <2>1. packet = NoPacket
    BY <1>9 DEF SendFails, IInv, PacketInv
  <2>2. Keeping!Fail
    BY <1>9, <2>1 DEF SendFails, Keeping!Fail
  <2>3. QED
    BY <2>2 DEF Keeping!Next
<1>10. ASSUME NEW r \in replies, Receive(r)
       PROVE  [Keeping!Next]_(Keeping!vars)
  <2>1. r # NoPacket
    <3>1. r.receive = NtpTime(r.srv)
      BY DEF IInv, ReplyInv
    <3>2. NtpTime(0) # 0
      BY DEF NtpTime, Wrap
    <3>3. QED
      BY <3>1, <3>2 DEF NoPacket
  <2>2. QED
    BY <1>10, <2>1 DEF Receive, Keeping!vars
<1>11. ASSUME NEW q \in requests, NEW f \in Flaws, NEW p \in Polls,
              Serve(q, f, p)
       PROVE  [Keeping!Next]_(Keeping!vars)
  BY <1>11 DEF Serve, Phase, clientVars, Keeping!vars
<1>12. CASE UNCHANGED vars
  BY <1>12 DEF vars, clientVars, Phase, Keeping!vars
<1>13. QED
  BY StepCases, <1>1, <1>2, <1>3, <1>4, <1>5, <1>6, <1>7, <1>8, <1>9, <1>10,
     <1>11, <1>12

\* The client implements TimeKeeping: for any number of requests, replies and
\* resets and any delay, a request moves the clock no further than the time it
\* took and the rounding of timestamps to seconds, and no way through
\* uiso_sntp_request skips setting it and reports success.
THEOREM ClientImplementsTimeKeeping == Spec => ImplementsTimeKeeping
<1>1. Init => Keeping!Init
  BY PhaseOf DEF Init, Keeping!Init
<1>2. TypeOK /\ IInv /\ SocketClosed /\ [Next]_vars
        => [Keeping!Next]_(Keeping!vars)
  BY KeepingStep
<1>3. QED
  BY <1>1, <1>2, IInvHolds, EveryRequestCloses, PTL
     DEF Spec, ImplementsTimeKeeping, Keeping!Spec

=============================================================================
