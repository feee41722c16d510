-------------------------- MODULE Lwm2mClientProofs --------------------------
(***************************************************************************)
(* Proofs about Lwm2mClient, for any set of descriptors and any time limit. *)
(***************************************************************************)
EXTENDS Lwm2mClient, TLAPS

Creating == {"dns", "socket", "handshake"}
Reading == {"read", "read_reset", "read_handshake"}
Sending == {"send", "renegotiate", "reneg_reset", "reneg_handshake", "write",
            "write_reset", "write_handshake"}

\* A call into the connection is made from one place of the client each, the
\* ones that use the connection when there is one.
CallInv ==
  /\ npc \in Creating => cpc = "connecting"
  /\ npc \in Reading => cpc = "reading"
  /\ npc \in Sending => cpc = "sending"
  /\ cpc \in {"reading", "sending"} => conn
  /\ cpc = "connecting" => ~conn

\* What a connection that was made, or is being made, has behind it.
UsableInv ==
  /\ ConnectionIsUsable
  /\ npc = "handshake" => sd \in open /\ protocol = "dtls"
  /\ npc \in Creating => session # "freed"
  /\ cpc = "connecting" /\ npc = "idle" /\ ret = "ok"
       => sd \in open /\ bio /\ session # "freed"

\* A handshake without a transport is the first since the reset, because it
\* comes after the protocol is stored.
BlindInv ==
  /\ BlindHandshakeOnce
  /\ blind # 0 => protocol = "dtls"
  /\ npc \in Creating /\ ~bio => blind = 0

IInv == CallInv /\ UsableInv /\ BlindInv /\ WritesInSession

\* The Boolean variables, and the others.
FlagsOK == bio \in BOOLEAN /\ conn \in BOOLEAN /\ rxBit \in BOOLEAN
DataOK ==
  /\ sd \in Sds \cup {NoSd} /\ open \subseteq Sds
  /\ protocol \in {"none", "dtls"}
  /\ session \in {"freed", "new", "up"}
  /\ age \in 0..(IdleLimit + 1) /\ blind \in 0..2
  /\ npc \in Positions /\ ret \in Results /\ message \in Messages
  /\ cpc \in ClientPositions /\ caller \in {"step", "close"}
  /\ clockSets \in 0..MaxClockSets

-----------------------------------------------------------------------------
\* TypeOK is the two together.
LEMMA TypeParts == TypeOK <=> FlagsOK /\ DataOK
  BY Zenon DEF TypeOK, NetworkTypeOK, FlagsOK, DataOK

\* The same of the next state.
LEMMA TypePartsNext == TypeOK' <=> FlagsOK' /\ DataOK'
  BY Zenon DEF TypeOK, NetworkTypeOK, FlagsOK, DataOK

\* Once the connection is being made its transport does not change.
LEMMA FlagsKept == NetworkStep => UNCHANGED bio
  BY DEF NetworkStep, Resolve, ResolveFails, OpenSocket, OpenSocketFails,
         FirstHandshake, ReadData, ReadFails, ReadReset, ReadHandshake,
         SendCheck, Renegotiate, RenegotiateFails, RenegReset,
         RenegHandshake, Write, WriteAgain, WriteFails, WriteReset,
         WriteHandshake, networkVars, tlsVars

\* Every variable keeps its type: no sequence of calls and failures takes
\* ctx->sd or the pause since the last send out of its range.
THEOREM TypeCorrect == Spec => []TypeOK
<1> USE ConnectionAssumption, ClientAssumption
<1>1. Init => TypeOK
  <2> SUFFICES ASSUME Init PROVE FlagsOK /\ DataOK
    BY TypeParts
  <2>1. FlagsOK
    <3>1. bio = FALSE /\ conn = FALSE /\ rxBit = FALSE
      BY DEF Init, NetworkInit
    <3>2. QED
      BY <3>1 DEF FlagsOK
  <2>2. DataOK
    <3>1. /\ sd \in Sds \cup {NoSd} /\ open \subseteq Sds
          /\ age \in 0..(IdleLimit + 1) /\ blind \in 0..2
          /\ clockSets \in 0..MaxClockSets
      BY DEF Init, NetworkInit
    <3>2. /\ protocol \in {"none", "dtls"} /\ session \in {"freed", "new", "up"}
          /\ npc \in Positions /\ ret \in Results /\ message \in Messages
          /\ cpc \in ClientPositions /\ caller \in {"step", "close"}
      BY DEF Init, NetworkInit, Positions, ClientPositions, Results, Messages
    <3>3. QED
      BY <3>1, <3>2 DEF DataOK
  <2>3. QED
    BY <2>1, <2>2
<1>2. TypeOK /\ [Next]_vars => TypeOK'
  <2> SUFFICES ASSUME FlagsOK, DataOK, [Next]_vars PROVE FlagsOK' /\ DataOK'
    BY TypeParts, TypePartsNext
  <2> USE DEF clientVars, networkVars, ctxVars, tlsVars, ClientGoto, Goto,
              Return, SendReturns, SendOn
  <2>1. FlagsOK'
    <3> USE DEF FlagsOK
    <3>1. CASE InConnection
      BY <3>1, FlagsKept DEF InConnection
    <3>2. CASE Connect
      BY <3>2 DEF Connect, CreateConnection, CreateFails, SetBio
    <3>3. CASE ConnectReturns
      BY <3>3 DEF ConnectReturns, Created
    <3>4. CASE StartClient \/ StartFails \/ NoReception
               \/ ReceptionWithoutConnection \/ ReadReturns \/ StepDone
               \/ StepFails \/ WaitReports \/ WaitEnds \/ Reception
      BY <3>4 DEF StartClient, StartFails, NoReception,
                  ReceptionWithoutConnection, ReadReturns, StepDone,
                  StepFails, WaitReports, WaitEnds, Reception, Read
    <3>5. CASE EndClient \/ SendMessageReturns \/ CloseSession
               \/ \E m \in Messages : SendMessage(m)
      BY <3>5 DEF EndClient, SendMessage, Send, SendMessageReturns,
                  CloseSession
    <3>6. CASE Reset \/ TimePasses \/ ClockIsSet \/ UNCHANGED vars
      BY <3>6 DEF Reset, TimePasses, Tick, ClockIsSet, SetClock, vars
    <3>7. QED
      BY <3>1, <3>2, <3>3, <3>4, <3>5, <3>6 DEF Next
  <2>2. DataOK'
    <3> USE DEF DataOK, NoSd, Positions, ClientPositions, Results, Messages,
                JustSent, StoredProtocol
    <3>1. CASE StartClient \/ StartFails \/ NoReception
               \/ ReceptionWithoutConnection \/ ReadReturns \/ StepDone
               \/ StepFails \/ WaitReports \/ WaitEnds \/ Reception
      BY <3>1 DEF StartClient, StartFails, NoReception,
                  ReceptionWithoutConnection, ReadReturns, StepDone,
                  StepFails, WaitReports, WaitEnds, Reception, Read
    <3>2. CASE EndClient
      BY <3>2 DEF EndClient, CloseConnection
    <3>3. CASE Connect \/ ConnectReturns
      BY <3>3 DEF Connect, CreateConnection, CreateFails, ConnectReturns
    <3>4. CASE SendMessageReturns \/ CloseSession
               \/ \E m \in Messages : SendMessage(m)
      BY <3>4 DEF SendMessage, Send, SendMessageReturns, CloseSession
    <3>5. CASE InConnection
      <4> USE <3>5 DEF InConnection
      <4>1. CASE Resolve \/ ResolveFails \/ OpenSocketFails
                 \/ \E s \in Sds : OpenSocket(s)
        BY <4>1 DEF Resolve, ResolveFails, OpenSocketFails, OpenSocket
      <4>2. CASE \E ok \in BOOLEAN : FirstHandshake(ok)
        BY <4>2 DEF FirstHandshake
      <4>3. CASE ReadData \/ ReadFails
                 \/ \E ok \in BOOLEAN : ReadReset(ok) \/ ReadHandshake(ok)
        BY <4>3 DEF ReadData, ReadFails, ReadReset, ReadHandshake
      <4>4. CASE SendCheck \/ Renegotiate \/ RenegotiateFails
        BY <4>4 DEF SendCheck, AfterCheck, Renegotiate, RenegotiateFails
      <4>5. CASE \/ \E closed, reset \in BOOLEAN : RenegReset(closed, reset)
                 \/ \E ok \in BOOLEAN : RenegHandshake(ok)
        BY <4>5 DEF RenegReset, RenegHandshake
      <4>6. CASE Write \/ WriteAgain \/ WriteFails
        <5>1. npc' \in Positions /\ ret' \in Results
              /\ age' \in 0..(IdleLimit + 1)
          BY <4>6 DEF Write, WriteAgain, WriteFails
        <5>2. QED
          BY <4>6, <5>1 DEF Write, WriteAgain, WriteFails
      <4>7. CASE \E ok \in BOOLEAN : WriteReset(ok)
        BY <4>7 DEF WriteReset
      <4>8. CASE \E ok \in BOOLEAN : WriteHandshake(ok)
        BY <4>8 DEF WriteHandshake, WriteHandshakeFails
      <4>9. QED
        BY <4>1, <4>2, <4>3, <4>4, <4>5, <4>6, <4>7, <4>8 DEF NetworkStep
    <3>6. CASE Reset
      BY <3>6 DEF Reset
    <3>7. CASE TimePasses
      <4>1. age' \in 0..(IdleLimit + 1)
        BY <3>7 DEF TimePasses, Tick
      <4>2. QED
        BY <3>7, <4>1 DEF TimePasses, Tick
    <3>8. CASE ClockIsSet
      <4>1. age' \in 0..(IdleLimit + 1) /\ clockSets' \in 0..MaxClockSets
        BY <3>8 DEF ClockIsSet, SetClock
      <4>2. QED
        BY <3>8, <4>1 DEF ClockIsSet, SetClock
    <3>9. CASE UNCHANGED vars
      BY <3>9 DEF vars
    <3>10. QED
      BY <3>1, <3>2, <3>3, <3>4, <3>5, <3>6, <3>7, <3>8, <3>9 DEF Next
  <2>3. QED
    BY <2>1, <2>2
<1>3. QED
  BY <1>1, <1>2, PTL DEF Spec


-----------------------------------------------------------------------------
\* The inductive invariant holds initially.
LEMMA IInvInit == Init => IInv
  BY DEF Init, NetworkInit, IInv, CallInv, UsableInv, BlindInv,
         ConnectionIsUsable, BlindHandshakeOnce, WritesInSession, Creating,
         Reading, Sending

\* The calls into the connection, and what they return, keep it.
LEMMA IInvNetwork == ASSUME TypeOK, IInv, InConnection PROVE IInv'
<1> USE DEF IInv, CallInv, UsableInv, BlindInv, ConnectionIsUsable,
            BlindHandshakeOnce, WritesInSession, Creating, Reading, Sending,
            InConnection, clientVars, ctxVars, tlsVars, Goto, Return,
            SendReturns, SendOn, Handshake
<1>1. CASE Resolve \/ ResolveFails \/ OpenSocketFails
           \/ \E s \in Sds : OpenSocket(s)
  BY <1>1 DEF Resolve, ResolveFails, OpenSocketFails, OpenSocket,
              StoredProtocol
<1>2. ASSUME NEW ok \in BOOLEAN, FirstHandshake(ok) PROVE IInv'
  BY <1>2 DEF FirstHandshake, TypeOK, NetworkTypeOK
<1>3. CASE ReadData \/ ReadFails
           \/ \E ok \in BOOLEAN : ReadReset(ok) \/ ReadHandshake(ok)
  BY <1>3 DEF ReadData, ReadFails, ReadReset, ReadHandshake
<1>4. CASE SendCheck \/ Renegotiate \/ RenegotiateFails
  BY <1>4, ConnectionAssumption
     DEF SendCheck, AfterCheck, PeerCidFails, Renegotiate, RenegotiateFails
<1>5. CASE \/ \E closed, reset \in BOOLEAN : RenegReset(closed, reset)
           \/ \E ok \in BOOLEAN : RenegHandshake(ok)
  BY <1>5 DEF RenegReset, RenegHandshake
<1>6. CASE Write \/ WriteAgain \/ WriteFails
  BY <1>6 DEF Write, WriteAgain, WriteFails, networkVars
<1>7. CASE \E ok \in BOOLEAN : WriteReset(ok) \/ WriteHandshake(ok)
  BY <1>7 DEF WriteReset, WriteHandshake, WriteHandshakeFails
<1>8. QED
  BY <1>1, <1>2, <1>3, <1>4, <1>5, <1>6, <1>7 DEF NetworkStep

\* So do the steps of the client and of the rest of the system.
LEMMA IInvStep == ASSUME TypeOK, IInv, [Next]_vars PROVE IInv'
<1> USE DEF IInv, CallInv, UsableInv, BlindInv, ConnectionIsUsable,
            BlindHandshakeOnce, WritesInSession, Creating, Reading, Sending,
            clientVars, networkVars, ctxVars, tlsVars, ClientGoto, Return
<1>1. CASE StartClient \/ StartFails \/ NoReception
           \/ ReceptionWithoutConnection \/ ReadReturns \/ StepDone
           \/ StepFails \/ WaitReports \/ WaitEnds
  BY <1>1 DEF StartClient, StartFails, NoReception,
              ReceptionWithoutConnection, ReadReturns, StepDone, StepFails,
              WaitReports, WaitEnds
<1>2. CASE Reception \/ \E m \in Messages : SendMessage(m)
  BY <1>2 DEF Reception, Read, SendMessage, Send
<1>3. CASE EndClient
  BY <1>3 DEF EndClient, CloseConnection
<1>4. CASE Connect
  BY <1>4 DEF Connect, CreateConnection, CreateFails, SetBio, TypeOK,
              NetworkTypeOK
<1>5. CASE ConnectReturns
  BY <1>5 DEF ConnectReturns, Created
<1>6. CASE SendMessageReturns \/ CloseSession
  BY <1>6 DEF SendMessageReturns, CloseSession, TypeOK
<1>7. CASE Reset
  BY <1>7 DEF Reset
<1>8. CASE TimePasses \/ ClockIsSet
  BY <1>8 DEF TimePasses, Tick, ClockIsSet, SetClock
<1>9. CASE UNCHANGED vars
  BY <1>9 DEF vars
<1>10. QED
  BY <1>1, <1>2, <1>3, <1>4, <1>5, <1>6, <1>7, <1>8, <1>9, IInvNetwork
     DEF Next

\* The inductive invariant holds in every state.
THEOREM IInvHolds == Spec => []IInv
  BY IInvInit, IInvStep, TypeCorrect, PTL DEF Spec

\* The handle wakaama has always stands for an open descriptor and a live
\* ssl_context with a transport, whatever fails in between.
THEOREM ConnectionUsable == Spec => []ConnectionIsUsable
<1>1. IInv => ConnectionIsUsable
  BY DEF IInv, UsableInv
<1>2. QED
  BY <1>1, IInvHolds, PTL

\* Every path of _send_dtls that comes to the write has a session.
THEOREM NoWriteWithoutSession == Spec => []WritesInSession
<1>1. IInv => WritesInSession
  BY DEF IInv
<1>2. QED
  BY <1>1, IInvHolds, PTL

\* At most the first handshake after a reset has no transport.
THEOREM OneBlindHandshake == Spec => []BlindHandshakeOnce
<1>1. IInv => BlindHandshakeOnce
  BY DEF IInv, BlindInv
<1>2. QED
  BY <1>1, IInvHolds, PTL

=============================================================================
