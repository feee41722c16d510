------------------------------ MODULE SntpClient ------------------------------
(***************************************************************************)
(* The SNTP client of src/uiso_ntp.c and src/sntp_packet.c: one call of    *)
(* uiso_sntp_request after the other, made by wifi_task.                   *)
(*                                                                         *)
(* The network is UDP: requests and replies may be lost, delayed and       *)
(* duplicated, and the client always receives on port 123, so a reply to   *)
(* an earlier request, also one from before a reset, may arrive during a   *)
(* later one.  What ties a reply to a request is its originate timestamp:  *)
(* the local clock in whole seconds, with a fraction that is always 0.     *)
(*                                                                         *)
(* Every SimpleLink call may block, so each one ends a step of the model.  *)
(*                                                                         *)
(* The local clock and true time run at the same pace, but their seconds   *)
(* do not begin together: a reset begins a second of the local clock       *)
(* anywhere in one of true time, and sl_sleeptimer_set_time assigns the    *)
(* number of the second and leaves the running second as it is.            *)
(***************************************************************************)
EXTENDS Naturals, FiniteSets, Sequences

CONSTANTS
  StampMod,     \* 2^32: seconds an NTP timestamp can count
  EpochOffset,  \* TIME_NTP_EPOCH_OFFSET_SEC: 1970 as an NTP timestamp
  UnixMax,      \* TIME_UNIX_TIMESTAMP_MAX: last second of the local clock
  MinGap,       \* shortest period wifi_task starts the SNTP timer with
  BootTime,     \* true time at which the device starts for the first time
  Polls,        \* values of the poll interval byte of a reply
  MaxTime,      \* bound: last second of true time
  MaxRequests,  \* bound: requests in a behaviour
  MaxReplies,   \* bound: replies in the network
  MaxBoots      \* bound: resets of the device

ASSUME SntpAssumption ==
  /\ StampMod \in Nat /\ EpochOffset \in Nat \ {0} /\ UnixMax \in Nat
  /\ EpochOffset < StampMod /\ UnixMax < StampMod
  /\ MinGap \in Nat \ {0, 1}
  /\ BootTime \in Nat /\ Polls \subseteq 0..255
  /\ MaxTime \in Nat /\ MaxTime + 1 < StampMod /\ BootTime <= MaxTime
  /\ MaxRequests \in Nat /\ MaxReplies \in Nat /\ MaxBoots \in Nat

VARIABLES
  time,       \* true time, which the servers know
  clock,      \* sl_sleeptimer_get_time()
  half,       \* 1 from where a second of clock begins to where one of time does
  spc,        \* where uiso_sntp_request is
  origin,     \* its local_origin_timestamp
  packet,     \* the reply in ntp_packet, or NoPacket
  open,       \* its socket is open
  synced,     \* sntp_sync_state
  server,     \* the sntp_server_t: last_time_stamp and next_time_stamp
  toNext,     \* *time_to_next_sync, in seconds
  gap,        \* seconds until wifi_task may call again
  requests,   \* requests the network has carried; it may deliver them again
  replies,    \* replies likewise
  req,        \* number of the current request
  sentAt,     \* history: true time of the last request sent
  boots       \* number of resets

clientVars == <<spc, origin, packet, open, synced, server, toNext, gap, req,
                sentAt>>
netVars    == <<requests, replies>>
timeVars   == <<time, clock, half>>
vars == <<timeVars, clientVars, netVars, boots>>

NoPacket == [boot |-> 0, req |-> 0, originate |-> 0, at |-> 0, srv |-> 0,
             receive |-> 0, flaw |-> "none", poll |-> 0]

Stages == {"idle", "resolve", "socket", "recv", "close", "devset"}

\* What makes a reply useless: another source address, a header that is not a
\* server response of version 3 or 4, stratum 0, a zero transmit timestamp.
Flaws == {"none", "source", "header", "kod", "transmit"}

Requests == [boot : Nat, req : Nat, stamp : Nat, at : Nat]
Replies == [boot : Nat, req : Nat, originate : Nat, at : Nat, srv : Nat,
            receive : Nat, flaw : Flaws, poll : Nat]

TypeOK ==
  /\ time \in Nat /\ clock \in Nat /\ half \in 0..1
  /\ spc \in Stages
  /\ origin \in 0..(StampMod - 1)
  /\ packet \in Replies
  /\ open \in BOOLEAN /\ synced \in BOOLEAN
  /\ server \in [last : Nat, next : 0..(StampMod - 1)]
  /\ toNext \in Nat /\ gap \in 0..MinGap
  /\ requests \subseteq Requests /\ replies \subseteq Replies
  /\ req \in Nat /\ sentAt \in Nat /\ boots \in Nat

-----------------------------------------------------------------------------
(* Timestamps.                                                             *)

\* uint32_t addition of two timestamps
Wrap(n) == IF n >= StampMod THEN n - StampMod ELSE n

\* A correct NTP timestamp for true time t.
NtpTime(t) == Wrap(t + EpochOffset)

\* get_local_ntp_time: 0 when the conversion fails, which it does from the
\* end of the first NTP era on.
LocalNtpTime(t) == IF NtpTime(t) >= EpochOffset THEN NtpTime(t) ELSE 0

\* sl_sleeptimer_convert_ntp_time_to_unix
UnixTime(n) == Wrap(n + (StampMod - EpochOffset))

\* enum sntp_poll_interval_e: the seconds for the exponents 4 to 17
PollSeconds == <<16, 32, 64, 128, 256, 512, 1024, 2048, 4096, 8192, 16384,
                 32768, 65536, 131072>>

\* The poll exponent of a reply is clamped before it is used.
PollInterval(p) ==
  PollSeconds[IF p < 4 THEN 1 ELSE IF p > 17 THEN 14 ELSE p - 3]

-----------------------------------------------------------------------------
Init ==
  /\ time = BootTime /\ clock = 0 /\ half \in 0..1
  /\ spc = "idle" /\ origin = 0 /\ packet = NoPacket
  /\ open = FALSE /\ synced = FALSE
  /\ server = [last |-> 0, next |-> 0]
  /\ toNext = 0 /\ gap = MinGap
  /\ requests = {} /\ replies = {}
  /\ req = 0 /\ sentAt = 0 /\ boots = 0

\* The return of uiso_sntp_request; wifi_task restarts the timer.
Return(ok) ==
  /\ spc' = "idle"
  /\ synced' = ok
  /\ gap' = MinGap
  /\ packet' = NoPacket
  /\ origin' = 0

\* wifi_task calls uiso_sntp_request with *time_to_next_sync = 0.
Request ==
  /\ spc = "idle" /\ gap = 0
  /\ req < MaxRequests
  /\ spc' = "resolve"
  /\ req' = req + 1
  /\ toNext' = 0
  /\ UNCHANGED <<timeVars, origin, packet, open, synced, server, gap,
                 netVars, sentAt, boots>>

\* sl_NetAppDnsGetHostByName
Resolve(ok) ==
  /\ spc = "resolve"
  /\ IF ok THEN spc' = "socket" /\ UNCHANGED <<synced, gap, packet, origin>>
           ELSE Return(FALSE)
  /\ UNCHANGED <<timeVars, open, server, toNext, netVars, req, sentAt,
                 boots>>

\* sl_Socket, sl_Bind, sntp_packet_create_request and sl_SendTo succeed.
Send ==
  /\ spc = "socket"
  /\ origin' = LocalNtpTime(clock)
  /\ requests' = requests \cup {[boot |-> boots, req |-> req,
                                 stamp |-> origin', at |-> time]}
  /\ open' = TRUE
  /\ sentAt' = time
  /\ spc' = "recv"
  /\ UNCHANGED <<timeVars, packet, synced, server, toNext, gap, replies,
                 req, boots>>

\* One of them fails: without a socket, or with one that is open.
SendFails(withSocket) ==
  /\ spc = "socket"
  /\ open' = withSocket
  /\ spc' = "close"
  /\ UNCHANGED <<timeVars, origin, packet, synced, server, toNext, gap,
                 netVars, req, sentAt, boots>>

\* sl_RecvFrom returns a reply, whichever has arrived.  It has no timeout.
Receive(p) ==
  /\ spc = "recv"
  /\ p \in replies
  /\ packet' = p
  /\ spc' = "close"
  /\ UNCHANGED <<timeVars, origin, open, synced, server, toNext, gap,
                 netVars, req, sentAt, boots>>

\* It fails, for instance when the link is lost.
ReceiveFails ==
  /\ spc = "recv"
  /\ spc' = "close"
  /\ UNCHANGED <<timeVars, origin, packet, open, synced, server, toNext,
                 gap, netVars, req, sentAt, boots>>

\* Mutated form: the originate timestamp is not compared.
AnswersAnything(p) == TRUE

\* The reply carries the timestamp of this request.
Answers(p) == p.originate = origin

\* Mutated form: the days between the epochs are counted one short.
DecodedOff(p) == UnixTime(p.receive) + 1

\* Mutated form: the originate timestamp is decoded.
DecodedOriginate(p) == UnixTime(p.originate)

\* The receive timestamp of the reply as local time.
Decoded(p) == UnixTime(p.receive)

\* Mutated form: one more than a uint32_t can hold.
NeverOverflow == StampMod

\* UINT32_MAX: no further request is due
Never == StampMod - 1

\* Mutated form: the socket is closed only after a reply.
OpenWithoutReply == open /\ packet = NoPacket

\* sl_Close is called whether a reply came or not.
OpenAfterClose == FALSE

\* sl_Close, then the checks of the reply.  A failure up to the transmit
\* timestamp leaves server alone; a later one sets its next_time_stamp.  When
\* every check passes the local clock is set to the receive timestamp.
Close(ok) ==
  /\ spc = "close"
  /\ open' = OpenAfterClose
  /\ IF ~ok \/ packet = NoPacket \/ packet.flaw # "none"
     THEN Return(FALSE) /\ UNCHANGED <<clock, server, toNext>>
     ELSE IF Answers(packet) /\ Decoded(packet) <= UnixMax
     THEN /\ clock' = Decoded(packet)
          /\ spc' = "devset"
          /\ UNCHANGED <<server, toNext, synced, gap, packet, origin>>
     ELSE /\ Return(FALSE)
          /\ server' = [server EXCEPT !.next = Never]
          /\ toNext' = 0
          /\ UNCHANGED clock
  /\ UNCHANGED <<time, half, netVars, req, sentAt, boots>>

\* sl_DevSet of the date in the network processor, then the poll interval.
DevSet(ok) ==
  /\ spc = "devset"
  /\ IF ok
     THEN /\ server' = [last |-> Decoded(packet),
                        next |-> (Decoded(packet)
                                  + PollInterval(packet.poll)) % StampMod]
          /\ toNext' = PollInterval(packet.poll)
     ELSE /\ server' = [server EXCEPT !.next = Never]
          /\ toNext' = 0
  /\ Return(ok)
  /\ UNCHANGED <<timeVars, open, netVars, req, sentAt, boots>>

Client ==
  \/ Request
  \/ \E ok \in BOOLEAN : Resolve(ok) \/ Close(ok) \/ DevSet(ok)
  \/ Send \/ \E b \in BOOLEAN : SendFails(b)
  \/ \E p \in replies : Receive(p)
  \/ ReceiveFails

-----------------------------------------------------------------------------
(* The servers, time and the watchdog.                                     *)

\* A server receives a request, possibly not for the first time, and answers.
Serve(q, flaw, poll) ==
  /\ Cardinality(replies) < MaxReplies
  /\ replies' = replies \cup
       {[boot |-> q.boot, req |-> q.req, originate |-> q.stamp, at |-> q.at,
         srv |-> time, receive |-> NtpTime(time), flaw |-> flaw,
         poll |-> poll]}
  /\ UNCHANGED <<timeVars, clientVars, requests, boots>>

\* A second of true time begins.
Second ==
  /\ half = 1 /\ time < MaxTime
  /\ time' = time + 1
  /\ half' = 0
  /\ UNCHANGED <<clock, clientVars, netVars, boots>>

\* A second of the local clock begins.  The timer of wifi_task runs with it: a
\* period of n seconds is one in which n of them begin.
LocalSecond ==
  /\ half = 0
  /\ clock' = clock + 1
  /\ half' = 1
  /\ gap' = IF spc = "idle" /\ gap > 0 THEN gap - 1 ELSE gap
  /\ UNCHANGED <<time, spc, origin, packet, open, synced, server, toNext,
                 netVars, req, sentAt, boots>>

\* The device is reset: the clock and sntp_sync_state start from 0 again.
Reset ==
  /\ boots < MaxBoots
  /\ boots' = boots + 1
  /\ clock' = 0 /\ half' \in 0..1
  /\ spc' = "idle" /\ origin' = 0 /\ packet' = NoPacket
  /\ open' = FALSE /\ synced' = FALSE
  /\ server' = [last |-> 0, next |-> 0]
  /\ toNext' = 0 /\ gap' = MinGap
  /\ UNCHANGED <<time, netVars, req, sentAt>>

Next ==
  \/ Client
  \/ \E q \in requests, f \in Flaws, p \in Polls : Serve(q, f, p)
  \/ Second \/ LocalSecond
  \/ Reset

Spec == Init /\ [][Next]_vars

-----------------------------------------------------------------------------
(* Properties.                                                             *)

\* The client has accepted a reply and set the clock by it.
Accepted == spc = "devset"

\* Neither a reset nor the end of the NTP era took its meaning from the
\* originate timestamp: the reply is to a request of this boot, and that
\* request carried a timestamp.
Tied == packet.boot = boots /\ origin # 0

\* The reply uiso_sntp_request accepts is one to the request it sent, however
\* late replies to earlier requests arrive: two requests never carry the same
\* originate second although an accepted reply may set the clock back.
ReplyAnswersRequest == Accepted /\ Tied => packet.req = req

\* An accepted reply sets the clock to a time not before the request was
\* sent: the error of the clock is at most the round trip of this request.
ClockNotBehindRequest == Accepted /\ Tied => clock >= sentAt

\* The clock is ahead of true time by no more than what sl_sleeptimer_set_time
\* leaves of the running second, whatever replies are accepted, also over a
\* reset and over the end of the NTP era.
ClockNeverAhead == clock <= time + half

\* However a request ends, its socket is closed: wifi_task repeats it every
\* 16 s, and the network processor has eight sockets.
SocketClosed == spc \in {"idle", "resolve", "socket", "devset"} => ~open

-----------------------------------------------------------------------------
\* The phase of the request as TimeKeeping sees it.  A request that has no
\* reply when the socket is closed has failed.
Phase ==
  CASE spc = "idle" -> "idle"
    [] spc \in {"resolve", "socket"} -> "begun"
    [] spc = "recv" -> "asked"
    [] spc = "close" -> IF packet = NoPacket THEN "failed" ELSE "asked"
    [] spc = "devset" -> "set"

Keeping == INSTANCE TimeKeeping WITH
             EraEnd <- StampMod - EpochOffset,
             phase  <- Phase,
             asked  <- sentAt,
             inEra  <- origin # 0,
             resets <- boots

\* The client keeps the promise of TimeKeeping although replies are late,
\* duplicated or from before a reset: a request sets the clock back by no more
\* than the time it took and the rounding of two timestamps, and never ahead,
\* reports success only after it has set the clock, and is without a socket
\* whenever it is not waiting for one.
ImplementsTimeKeeping == Keeping!Spec

=============================================================================
