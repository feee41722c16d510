# uiso: a TLA+ verification project

This directory holds TLA+ models of the connectivity core of the `uiso`
firmware (Bosch XDK110, FreeRTOS, TI CC3100 SimpleLink network processor), the
TLC configurations that check them, and TLAPS proofs about them. Paths below
are relative to the repository root; the firmware's own code is in `src/` and
`include/`, everything in `system/` is vendored.

## 1. The system

### Tasks

| task | code | priority | role |
|---|---|---|---|
| timer daemon | FreeRTOS | 5 | SNTP timer callback, reset callback, loads the configuration at start-up |
| SimpleLink spawn task | CC3100 SDK | 4 | runs the WLAN, NetApp and socket event handlers |
| `wifi_task` | `src/wifi_service.c` | 4 | connection manager: link, IP address, SNTP; suspends and resumes the tasks below |
| `select_task` | `src/network.c` | 3 | network mediator: `sl_Select` for all waiting tasks |
| `user_task` | `src/user.c`, `src/lwm2m/` | 3 | LWM2M client |
| MQTT task | `src/mqtt/` | 3 | MQTT client (created, never resumed) |
| sensor, monitor | `src/sensor_service.c`, `src/monitor_service.c` | 1 | sampling, logging |
| idle | `src/main.c:129` | 0 | feeds the 4 s watchdog |

### Components: state, operations, interaction, what is hard

**Network mediator** (`src/network.c:25-322`). State: `system_sockets[]`, one
context per service with a descriptor, a receive and a transmit deadline and
two binary semaphores; `network_monitor_mutex`; the task notification of
`select_task`. Operations: `enqueue_select_rx/tx` store a deadline under the
mutex, drain the semaphore, notify `select_task` and wait; `select_task`
collects the registered descriptors, calls `sl_Select`, clears the deadlines of
what is ready and gives the semaphores. Hard: three tasks of equal priority
interleave at every kernel call, `wifi_task` suspends them anywhere (with the
mutex held too), the owner changes the descriptor without the mutex, deadlines
are absolute times of a clock that SNTP sets. Correct when: no task sleeps
through data without a reason, nobody is woken unasked, `select_task` never
sleeps over a registration, every call returns.

**Connection manager** (`src/wifi_service.c`). State: `wifi_status`, the
notification value of `wifi_task`, the SNTP timer, which tasks are suspended.
Operations: event handlers and the timer callback set bits; `wifi_task` takes
all bits at once and handles them in a fixed order, the SNTP request in the
middle. Hard: bits are OR-ed and lose their order, most of all while the
request blocks. Correct when: the LWM2M client does not run before the time is
known, a link leads to synchronisation and to the client running.

**SNTP client** (`src/uiso_ntp.c`, `src/sntp_packet.c`). State: the request in
progress, `sntp_sync_state`, the server record, the real-time clock. Hard: UDP
replies that are late, duplicated or lost; 32-bit timestamps over the end of
the NTP era in 2036; resets; no receive timeout. Correct when: only the answer
to the current request sets the clock, and to a time that is not older than the
request.

**Connections and DTLS** (`src/network.c:324-793`): connect, handshake, read,
send with renegotiation, close. State: descriptor, protocol, TLS session, time
of the last send. Hard: every step can fail and leaves something behind.
Correct when: what is handed out as a connection can be used, writes happen in
a session, a lost session comes back, descriptors are given back.

**LWM2M client** (`src/lwm2m/lightclient/uiso_lightclient.c`,
`src/lwm2m/connection.c`, `src/user.c`): the client loop with its notification
bits, the connection list, the retry. Hard: bits that outlive the connection
they are about. Correct when: it uses a connection only while it has one, and a
retry can succeed.

**MQTT client** (`src/mqtt/`): the library `MQTTClient.c`, its port to
SimpleLink and FreeRTOS timers `MQTTuiso.c`, and the echo task
`mqtt_client.c`. State: `isconnected`, `ping_outstanding`, `next_packetid`, the
table of message handlers, the two keepalive timers, the buffers; the stream of
bytes to the broker. Operations: connect, subscribe, unsubscribe, publish,
yield, disconnect, each a send followed by `cycle` until the answer comes or the
call's timer runs out. Hard: messages arrive between a request and its
acknowledgement, writes are partial, timers run out inside blocking calls, the
connection ends in the middle of a packet. Correct when: the stream stays a
sequence of packets while the session is open, an answer belongs to its
request, what the broker grants is heard, every call returns.

**Sensor service and I2C bus** (`src/sensor_service.c`,
`src/board/board_i2c_sensors.c`, `board_bma280.c`, `board_bme280.c`, and
`object_accelerometer.c`, through which values reach the LWM2M observers).
State: the notification words of the two tasks, the bus mutex, the transfer of
the peripheral, a queue of one result, the three axis values. Operations: a
register access takes the mutex, starts a transfer and waits for the result the
interrupt handler posts; the accelerometer's FIFO signals by one edge; a mean is
written axis by axis, and the client is told. Hard: task, interrupt handler and
the power-up of the other sensor share the peripheral; an edge comes once.
Correct when: a transfer gets its own result, the bus comes free, a full FIFO
is read, no observer is left with an old value.

**LWM2M server and security objects**, **mbedTLS timers**, **SimpleLink SPI
transport**, **configuration and monitor**: see `PROJECT.json` for each one's status and reason, and the list of
hazards for what can go wrong in them.

## 2. Plan

| # | module | models | status |
|---|---|---|---|
| 1 | `SelectMediator` | network mediator | modelled, proved |
| 2 | `WifiService` | connection manager | modelled, proved |
| 3 | `SntpClient` | SNTP client | modelled, proved |
| 4 | `NetworkConnection` | connect, handshake, DTLS send and read, close | modelled, proved in 5 |
| 5 | `Lwm2mClient` | client loop, connection, retry, over 4 | modelled, proved |
| 6 | `ReadinessWait` | abstract promise of `enqueue_select_rx`: a wait ends by a report or by time | done, 1 implements it (checked and proved) |
| 7 | `TimeKeeping` | abstract promise of `uiso_sntp_request`: how far it moves the clock, what its result means | done, 3 implements it (checked and proved) |
| 8 | `MqttClient` | library, port and task of `src/mqtt/` | modelled, proved |
| | `MqttSession` | abstract promise of the calls of `MQTTClient.c`: results, session, handlers | done, 8 implements it (checked and proved) |
| | `MqttTopics`, `MqttDispatch` | topic matching; `deliverMessage` and `isTopicMatched` | modelled, proved |
| 9 | `SensorService` | sensor tasks, I2C transfers, reports to observers | modelled, proved |
| | `SpiTransfer` | transfers of the SimpleLink SPI between task and DMA | later |
| 10 | `ServerObject` | instance list of `object_server.c` | later |
| 11 | `TlsTimer` | intermediate and final DTLS delay of `uiso_timing.c` | later |

## 3. Modules

Every module names the function each definition models; `PROJECT.json` maps
definitions to lines. Definitions commented "Mutated form" are the plausible
bugs used to show that a property can fail; no specification uses them.

### SelectMediator

One waiting task per context; `pc` walks through `enqueue_select_rx/tx`
(`lock`, `store`, `drain`, `notify`, `wait`) and `spc` through the loop of
`select_task`. A step is the code between two kernel calls. Direction `rx` and
`tx` share the code, as the two functions do; only publishing differs, because
the transmit branch gives a NULL handle (`PublishTx`, which halts the system
until `WatchdogReset`). `Disconnected`, `IpAcquired` and `TimeSynced` are what
`wifi_task` does to the tasks: resuming a task that was suspended inside a
notification wait ends that wait, as the kernel does, while a semaphore wait
goes on. `OpenSocket`, `CloseSocket` and `UseSocket` are the owner of the
connection; only the LWM2M context is ever given a descriptor
(`src/lwm2m/connection.c:79`), hence the constant `Owner`. A descriptor 0 may be
opened (`network.c:380` takes it) but `Scanned` passes it over, as `ctx->sd > 0`
does (`:217`, `:283`): a wait on it always ends by time.

Deadlines are readings of the real-time clock in whole seconds, waits are
counted in ticks of the kernel. `Tick` is one tick: every wait has one less to
go, and after `Parts` of them (`part` counts) the clock shows the next second.
So a registration may be made at any point of a second. `SetClock` is the SNTP
client, which leaves the running second as it is. `fate` and `regAt` are
history: what became of a registration and at which instant it was made.

`rc` is the result of the last call. `ReadinessWait` is what a caller is
promised, with two variables only: a call is armed, may be reported to, may lose
that report, and returns 0 exactly when it ends with a report. `Wait` is its
instance under the mapping `Phase` (out of the wait part of a call, armed,
reported, lost), and `ImplementsWait` says that every behaviour of the mediator
is one of it; many callers move at once, because one scan of `select_task`
expires or reports several.

`MCSelectMediator` gives the task sets for TLC.

### WifiService

`link` is the association the network processor has, `bits` and `pending` the
notification of `wifi_task`, `wpc` where it is: `Receive` takes all bits,
`Handle` runs the branches up to the SNTP request, `NtpDone` is the return of
the request and the rest of the pass. Events and the timer interleave between
these steps. The request has stages of its own: it is sent over a link (`Ask`),
and then waits in `sl_RecvFrom`, which has no timeout. `ReplyArrives` needs a
link; after `ReplyLost` nothing but an error of the call ends the wait.
`NtpDone` may be a failure at any stage, a success only with an answer, and then
whether or not the link still stands. `StartConnection` ends any association,
because the setup stops and starts the network processor before it connects.
`suspended` has the user, monitor and MQTT task. `mixed` is history: the last
link bits came as connected and disconnected in one value.

### SntpClient

`spc` is the SimpleLink call `uiso_sntp_request` is in. `time` is true time,
which servers know; `clock` is the local clock, 0 after a reset. Requests and
replies stay in the network once sent, so any may be delivered late and again;
one that is never delivered is lost. Replies carry, besides the fields the
client looks at, the request they belong to (`boot`, `req`, `at`) and the time
of the answer (`srv`), which only properties use. `Wrap` is the addition of
32-bit timestamps, `LocalNtpTime` the conversion that fails once the era ends.

Seconds of `time` and of `clock` begin at different instants, in turn: `Second`
and `LocalSecond`. A reset begins a second of the clock anywhere, and
`sl_sleeptimer_set_time` assigns the number of the second but does not begin a
new one, so that a clock just set may show the next second up to one second
early. `half` is 1 while it may. The drift of the oscillator is left out.
`gap` is the time before `wifi_task` calls again: at least `MinGap` beginnings
of a second. The shortest period the code starts the timer with is 5 s. The
model has 2, the least for which the properties hold (with 1 a late reply can
be taken for the answer), and the proof is for every larger one. The timer
reloads itself; that its bit is not set once more between the wait of
`wifi_task` and the `xTimerStop` behind it is taken from the priority of
`wifi_task`, which is not kept from running for a whole period.

`TimeKeeping` is what the rest of the system may expect of the clock, without
packets, timestamps and network: a request begins, asks, fails or sets the
clock, and ends. `Sound` says how far the clock may be moved: never to a time
that has not come, back by no more than the time since the request asked and
two seconds, one for each timestamp that is rounded, and in the first boot to an
error of at most that time; a request after the end of the era may set any time
of the new era that has been. The two seconds are needed: with one the run of a
slightly larger instance finds a violation. A request reports success only
after it has set the clock, and has no socket when it ends. `Keeping` is its
instance under the mapping `Phase`, and `ImplementsTimeKeeping` the refinement.
After a reset a reply from before it may be taken for the answer, so an error
within the round trip is not promised there; the bound on moving back is, and
it is what keeps one bad answer from undoing what the clock had already
reached.

### NetworkConnection and Lwm2mClient

`NetworkConnection` has the state of the LWM2M context and of its
`ssl_context`, and one action for each SimpleLink or mbedTLS call that can
fail; `npc` is the call in progress. It is a library of actions: `Lwm2mClient`
extends it with the task that makes the calls. `session` is "freed", "new"
(handshake not over) or "up". `age` is the pause since `last_send_time`,
counted up to just beyond the limit, which keeps it finite without a bound on
time. `blind` is history, the handshakes without a transport.

`Lwm2mClient`: `cpc` is the place in `user_task` and
`lwm2m_client_task_runner`. The wakaama library is a submodule that is not in
the repository; at "step" and "close" it may call `lwm2m_connect_server`,
`lwm2m_buffer_send` and `lwm2m_close_connection` in any order that its session
handle (`conn`) allows. Whether `lwm2m_close` closes the session or leaves it
to `connection_free` is a choice too. The wait on the mediator ends with or
without a report; a report may be spurious, as a descriptor number that is used
again allows. A suspension by `wifi_task` is a pause between two steps.

### MqttClient, MqttTopics and MqttDispatch

`MqttClient`: `app` is the place in `prvMQTTEchoTask`, `op` the library call it
is in and `pc` where that call is; a step is the code between two SimpleLink
calls. The calls share their parts as the code does: `Request` begins them,
`EnterWrite`, `Write`, `SendFails`, `SendSucceeds` are `sendPacket`, `EnterRead`
to `ReadOverflow` are `readPacket` and the switch of `cycle`, the `Keepalive`
actions follow it, and `Finish` is what a call does with its answer.
A packet has a type, an identifier, a topic, a quality of service and a body
that is whole, a refusal, broken off with the connection ("cut"), or longer than
`readbuf`. Of a packet that is cut, `readPacket` either finds too little and
returns 0 (`ReadNothing`), or it has got the first byte, takes the missing
length for 0 and returns the type (`ReadPacket`). The deserializers then return
1 without having found anything, which their callers take for success: a CONNACK
of one byte opens the session, a SUBACK of one byte stores the handler, a PUBACK
of one byte ends `MQTTPublish` with SUCCESS. What they were to fill keeps what
was on the stack: `IdsOf` is then any identifier, and `deliverMessage` has any
topic, which changes nothing in the state of the client; that the pointer in it
may lead to a fault is outside the model. `sent` counts bytes: `sendPacket` passes the whole length in every
round, so a partial write is followed by bytes from behind the packet (a write
may also send nothing, and the round is repeated), and `aligned` says whether the stream is still a sequence of packets. Timers are a
set of those that have run out; any may run out while the task blocks.
`MQTTSubscribe` of further filters, `MQTTUnsubscribe` and `MQTTDisconnect` are
not called by the task at present (constant `Unused`), but are part of the
library. The broker is external: it reads packets in order, may refuse, may
publish for a subscription before acknowledging it, and the connection may end
with any prefix of what is under way, the last packet cut. `pingFresh` is
history.

`MqttSession` is what a caller of the library sees: the call in progress, what
the last one returned, the session (none until `MQTTConnect` has ended, then
open, then closed) and the filters that have a handler. It says what the
interface leaves to the reader of the code: which calls close the session, that
it may close under a call that then still succeeds (`Close`), that a
subscription may succeed without a handler because the broker refused it, and
that a successful `MQTTUnsubscribe` leaves a closed session. In `MqttClient`,
`SessionState` and `Session` are the mapping.

`MqttClient` knows of filters and topics only which match (`Matching`).
`MqttDispatch` is how `deliverMessage` decides it: the loop over the handlers
and, in `isTopicMatched`, the loop with one cursor in the filter and one in the
topic. One step is one round of a loop: a character is passed, `+` enters the
inner loop, which looks one character ahead, and `#` jumps to the end. The
filters are any sequences of characters, well formed or not.
`MqttTopics` has what the result should be, twice and without cursors. `Covers`:
the topic can be cut into parts, one for each character of the filter. `OnLevels`:
the levels of the filter stand for the levels of the topic. Levels may be empty,
and of a topic nothing is asked. `OnLevels` is the rule of MQTT but for two
things: "a/#" does not stand for "a", and a wildcard does not stand for an empty
level ("#" and "/finance", "a/+" and "a/", "a/+/b" and "a//b"). The loop of
`isTopicMatched` ends with the topic (`MQTTClient.c:154`), where a filter may
still have a wildcard, and at a separator that faces one (`:156`).

`MCMqttClient` gives the filter and topic of the task, with the relation
`Delivers` of `MqttTopics` for them. `MCMqttDispatch` gives filters, topics and
handler tables, and states the rule of MQTT once more on sequences of levels; its
assumption `OnLevelsIsTheRule`, which TLC evaluates, says that `OnLevels` is that
rule without these two cases (`LevelAbove`, `EmptyUnderWildcard`).

### SensorService

`pc` and `job` say where `sensor_task` ("accel") and `bme280_task` ("temp") are.
A register access is the transfer of `board_i2c0_transfer` in five steps:
`Lock` (mutex and NVIC, nothing happens between them that matters), `TransferInit`
up to the START it sends, the end of `I2C_TransferInit` (`InProgress`, or
`Overtaken` when the interrupt handler was faster; or `UsageFault`, when it
returns before it has begun), `Receive`, `Finish`. `bus`,
`ien` and `alive` are the transfer of the peripheral, its interrupt enable and
whether the sequence, a local of the caller, still exists. Results carry the
mark "stale" once their transfer is over; the code does not see it. A set-up is
any number of accesses, as `initialize_bma280` and `initialize_bme280` make
some whose errors they ignore and stop at others. `PowerUp` is
`board_bma280_enable` and `board_bme280_enable` with their `I2CSPM_Init`.
`fifo` is the full FIFO and with it the level of INT1; only the falling edge
notifies. `UpdateAxis`, `AccelNotifies`, `ValuesChanged` and `SendValue` are the
way of a mean to the observers, unless the FIFO cannot be read or its content
not be extracted (`AccelGivesUp`): `unreported` has the axes whose observer has an
older value. The temperature goes the same way with one value and is left out.
`overtaken` and `failed` are history.

`SelectMediatorProofs`, `WifiServiceProofs`, `SntpClientProofs`,
`Lwm2mClientProofs`, `MqttClientProofs`, `MqttDeliveryProofs`,
`MqttDispatchProofs` and `SensorServiceProofs` hold the theorems.

## 4. Runs

| run | shows | bounds |
|---|---|---|
| `mediator_one` | `NoSleepOverRegistration`, `NoUnaskedWake`, `OnlyDrainOrExpiryLoses`, `NoEarlyExpiry` | one task, descriptors 0 and 1, receive and transmit waits, timeout 0, two ticks to a second, 3 s, one clock setting |
| `mediator_two` | `TypeOK`, `WakeUsesUpRegistration`, `ImplementsWait`, `EveryCallReturns`, `RegistrationIsScanned` | two tasks, one descriptor, timeout 0, one tick to a second, clock up to 2 s; waits keep running out |
| `mediator_tx_assert` | violation: the NULL handle of `network.c:304` | one task |
| `wifi` | `TypeOK`, `UserRunsOnlyAfterSync`, `SyncIsScheduled`, `UserRunsInTheEnd` | 6 network events |
| `wifi_connected_timer`, `wifi_disconnected_user` | violations: what the comments of the connected and disconnected branch say does not hold for coalesced bits | 4 network events |
| `sntp` | `TypeOK`, `ReplyAnswersRequest`, `ClockNotBehindRequest`, `ImplementsTimeKeeping` | 3 requests, 2 replies in the network, one reset, a gap of 2 s, 5 s before the end of time, the era ends within them |
| `lwm2m` | `TypeOK`, `ConnectionIsUsable`, `WritesInSession`, `BlindHandshakeOnce`, `SendsReturn`, `SessionRecovers` | three descriptors (0 included), idle limit 1 s, one clock setting; unlimited time, sends and reconnections |
| `lwm2m_sockets` | violation: closed and failed connections keep their descriptors | three descriptors |
| `mqtt` | `TypeOK`, `StreamIntact`, `AckIsForRequest`, `GrantedHasHandler`, `UnheardOnlyBeforeSuback`, `KeepaliveNotEarly`, `ImplementsSession`, `CallsReturn` | packets of 2 bytes, identifiers 1 and 2, one handler slot, two filters, one message of the broker, one packet in the connection before a write blocks |
| `mqtt_dispatch` | `DispatchByCover`, `MatchesByLevels` | two handlers; every filter and topic of up to 3 characters; of up to 5 characters and 3 levels, every topic of these letters and every well-formed filter |
| `sensors` | `TypeOK`, `OwnResult`, `SequenceExists`, `EdgeNotLost`, `ReportsCatchUp`, `BusComesFree`, `FifoServed` | both tasks, one observed axis; no other bound |

Why the bounds are enough. A deadline needs three readings of the clock to be
set, late by the grace second, and expired; 3 s with timeout 0 give all of
them, and a longer timeout only shifts them. Two ticks to a second are enough
for a registration in the middle of one. Descriptor 0 is the one that is not
looked at, and with it as the other one a close and reopen during `sl_Select`
happens. Six network events allow two losses of the link with addresses and
unrelated events between; all violations need four at most. Two requests would
do for one stale reply; the third lets a stale one arrive after the clock was
set by another. The SNTP run uses a small modulus with the order of the real
constants (epoch offset < end of era < largest local time < modulus); time ends
at `MaxTime`, where the run may stop, so it does not check deadlock.
Two bytes are what a write needs to be partial and to go too far; two
identifiers wrap around within one session; one slot and two filters fill the
handler table. The MQTT run has no bound on calls or time: the only counter is
the messages of the broker, and one is enough to come before, between or after
a request and its answer, with any of the acknowledgement exchanges. Topics
and filters of five characters have three levels with something in each, or
some of them empty, with `+` and `#` at each place the format allows; the second
handler shows what the first one's
filter leaves behind. The two-task run of the mediator has a timeout of 0: a
wait is then still registered for the grace second, and the safety properties
and `ImplementsWait` are proved for all timeouts. In the sensor run axes do not influence each
other (each is observed, marked and sent on its own), so one stands for all; the
one in the middle is both preceded and followed by other writes.

Fairness. `SelectMediator`: FreeRTOS time-slices tasks of equal priority and
serves a mutex in the order of waiting, so a task that is not suspended takes
its steps and gets a mutex that becomes free again and again; time passes.
Nothing is assumed of the callers, the connection or `wifi_task`.
`WifiService`: `wifi_task` and the timer daemon are the highest priorities, so
they take their steps. Nothing is assumed of any one request: once its datagram
is lost it may stay in `sl_RecvFrom` for ever, and `UserRunsInTheEnd` says that
this is the only thing that can keep the user task suspended over a link that
stays. Of the network and the servers: among requests tried again and again over
a link some are sent, some of those are answered, and some answers are accepted.
`Lwm2mClient`: the task runs when it is not suspended, and time passes; the
registration timer of `user.c` makes the library send again and again while it
has a connection. Of the network: among handshakes, resets and writes tried
again and again some succeed. Handshakes within the write loop and in a read may
fail for ever.
`MqttClient`: the task runs, the timer of a call, and that of a ping, runs out
in the end if the task waits again and again (a ping that sends nothing, round
after round, needs the second), and a broker ends a connection on which it has heard nothing for one
and a half keepalive intervals, as the protocol demands. The last is an
assumption on the broker that `CallsReturn` really needs: `uiso_mqtt_read`
ignores the timeout it is given. A write is not bound to fail while there is a
connection.
`SensorService`: the two tasks have the same priority above idle and are
scheduled, and the peripheral ends a transfer it has begun as long as its
interrupts are enabled. A slave that holds the bus for ever would break the
last; the code has no timeout for it.

### What the findings say

* `network.c:304` gives `tx_wait_deadline_s`, just cleared, in the place of
  `tx_signal`. No code calls `enqueue_select_tx` yet.
* `wifi_service.c:209-241`: a value with both link bits is handled as connected,
  then disconnected. If the link is up the timer is off, and nothing starts it
  before the next WLAN event. `SyncIsScheduled` and `UserRunsInTheEnd` hold
  when this does not happen (`~mixed`), which is the precise condition (the
  second also excepts a lost answer).
* `wifi_service.c:263-304`: a disconnection in one value with the timer or the
  synced bit leaves the timer or the user task running without a link. The
  synced bit is that of a request which had its answer before the link was lost.
  The second is the run `wifi_disconnected_user`; the first follows in the same
  way from line 293, which restarts what line 231 has stopped.
* Seen while modelling, without a run: `uiso_ntp.c:286` lets the poll exponent
  be 17, that is 36 hours, while `include/uiso_ntp.h:23` has a maximum of 24.
* `uiso_lightclient.c:202-234` and `network.c:596-606`: no path of the DTLS
  client closes a descriptor unless `lwm2m_close` leaves a session behind. With
  every reconnection one of the sockets of the network processor is lost. When
  none is left the client fails at every retry, and its runner returns 0, so
  `user_task` does not reset the device either.
* Seen while modelling, without a run. `_set_mbedtls_bio` (`network.c:504`)
  reads `ctx->protocol` before `_network_connect` (`:378`) sets it, so the first
  handshake after every reset has no transport and fails; `BlindHandshakeOnce`
  shows that this happens once only. A packet that arrives after
  `lwm2m_close_connection`, on the descriptor it left open, is read through
  `data.connList`, which is NULL (`ReceptionWithoutConnection`,
  `uiso_lightclient.c:492`). A message longer than a DTLS record fails every
  `mbedtls_ssl_write`, and while handshakes succeed `_send_dtls` does not
  return; hence the condition of `SendsReturn`.

* Seen while modelling the MQTT client, without a run. `MQTTClient.c:38` passes
  `length` and not `length - sent`: after a partial write bytes from behind the
  packet go out, and the session is closed for it (`StreamIntact` shows that it
  never goes unnoticed). UNSUBACK has no case in `cycle`, so a successful
  `MQTTUnsubscribe` returns SUCCESS and leaves a closed session
  (`UnsubscribeSucceeds` of `MqttSession`, which the library implements); a refused
  SUBACK also returns SUCCESS. A message that comes before the SUBACK of its
  subscription is acknowledged and dropped (`UnheardOnlyBeforeSuback` says that
  no other is). `deliverMessage` does not count "a/#" as a match of "a", nor a
  wildcard as a match of an empty level, as MQTT does (`LevelAbove` and
  `EmptyUnderWildcard` of `MCMqttDispatch`); the comment at `MQTTClient.c:145`
  asks for neither. An acknowledgement of which only the first byte arrives
  counts as a good one (`MQTTDeserializePublish.c:95-99`,
  `MQTTConnectClient.c:146-149`); `AckIsForRequest` shows that it is still the
  broker's answer to this request, and that of a connection that has ended. The
  task never reconnects.
* Seen while modelling the sensors, without a run. When the interrupt handler
  ends a transfer before `I2C_TransferInit` has returned
  (`board_i2c_sensors.c:104`), the caller sees a fault and the result stays in
  the queue. The next transfer then takes that result at once, returns while its
  own transfer is still in progress, and the handler works on a sequence that is
  gone; this goes on from transfer to transfer. `OwnResult` and `SequenceExists`
  hold when it does not happen (`overtaken`), the precise condition.
  `I2CSPM_Init` in `board_bma280.c:87` and `board_bme280.c:73` runs without the
  bus mutex: if it hits a transfer of the other task, that task waits for ever
  and holds the mutex, and every access of the other fails after ten seconds
  (`Wiped`). A failed read of the status or FIFO leaves INT1 low, so no further
  edge comes and acceleration is not measured again (`failed`).

Two limits of the SNTP client appear as the condition `Tied` of its
properties, and the runs without that condition fail: a reply from before a
reset, and, after the end of the era when all requests carry 0, any reply.
`ImplementsTimeKeeping` needs no condition: it has in `Sound` what is left in
these cases, and in it that the clock is never set ahead and no socket stays
open, which `ClockNeverAhead` and `SocketClosed` say as invariants.

Two ways of losing a wake-up in the mediator are real and appear as the two
outcomes `OnlyDrainOrExpiryLoses` allows: the drain of `enqueue_select_rx:156`
takes a wake-up given since the registration, and a clock set forward expires a
registration. Both end with the caller's own timeout (`EveryCallReturns`).
Expiry does not wait for that timeout: a registration made late in a second is
dropped when the clock reads its deadline plus two, little more than
`timeout_s + 1` seconds later, while the caller waits for `timeout_s + 2`. What
arrives in between is not reported. `NoEarlyExpiry` says that it is never
earlier than that, so that the caller has at least the time it asked for.

## 5. Proofs

All theorems hold for every value of the constants that satisfies the module's
assumption (`MediatorAssumption`, `WifiAssumption`, `SntpAssumption`,
`ConnectionAssumption`, `ClientAssumption`, `MqttAssumption`,
`DispatchAssumption`, `SensorAssumption`).

**SelectMediatorProofs.** `TypeCorrect` first; resets are handled by one lemma
that a reset leads to an initial state. `WakeUpsUsedOnce` and
`RegistrationsAreSeen` are inductive with small strengthenings: for the second,
that a registration made after the last scan is still to be notified. It is
about descriptors above 0, the only ones `select_task` looks at.
`NobodyWokenUnasked` needs to know that the sets of `select_task` hold only
descriptors of registered contexts, and that only the owner has one.
`LossesAreKnown` follows the history of a registration: armed, reported,
swallowed, expired. `ExpiryIsNotEarly` adds that the time `select_task` works
with is never ahead of the clock while nobody sets it, and that a deadline is
the whole second of the instant of the registration plus the timeout; so more
than `timeout_s + 1` seconds have passed when it is dropped, counted in ticks
of any length.
`MediatorImplementsWait` is the refinement: initial states map to initial
states, and each action to a step of `ReadinessWait` or a stutter. Besides the
invariants above it rests on `ReportInv`: a semaphore that is given once its
caller has drained it stands for a report to this very call, and a call in
progress has no result yet.

**WifiServiceProofs.** `UserWaitsForTime`: a synced bit, notified or being
handled, comes from a successful request. `SyncScheduled`: while there is a
link, a disconnected bit that is not handled has a connected bit with it or
after it, and a request is scheduled, under way (at any of its stages, lost
too) or owed by a connected bit.

**SntpClientProofs.** The invariant says why late replies are told apart. The
local clock is never ahead of true time by more than `half`; a request's second
is therefore at most one after the true time of its sending; a reply's receive
time is not before that time; so setting the clock by a reply takes it at most
one second behind a second that a request of this boot has carried, and two
beginnings of a second in the gap before the next request make the next second a
new one (`StampInv`, with `Resting` after the first and `Rested` after the
second). The end of the era needs a case of its own: requests that
carry 0 were sent after it, so their replies set the clock beyond every second
that was ever carried. `EveryRequestCloses` needs no
strengthening: `SocketClosed` is inductive.
`ClientImplementsTimeKeeping` is the refinement of `TimeKeeping`. `KeepingStep`
takes each action to a step of it or a stutter; what an accepted reply may do is
`AcceptedIsSound`. It rests on the invariant above and on `ElapsedInv`: from the
moment a request carries a reading of the clock, clock and true time advance
by the same number of seconds, but for one, so that a bound on the reply's time by the request's second becomes a
bound on how far the clock is moved.

**Lwm2mClientProofs.** One invariant in four parts. `CallInv`: a call into the
connection is made from one place of the client, the ones that use it only with
a connection. `UsableInv`: what a connection that is being made has behind it
at each stage. `BlindInv`: a handshake without a transport comes after the
protocol was stored, so that the next connection has one. The fourth is
`WritesInSession` itself. `ConnectionUsable`, `NoWriteWithoutSession` and
`OneBlindHandshake` follow. The proof uses that no connection identifier is
negotiated (`CidEnabled = FALSE`, `mbedtls_connector.c:243`).

**MqttClientProofs.** `TypeCorrect` needs two facts beyond the types: a write
begins only with bytes left to send, which keeps `sent` within two packet
lengths, and the topic of a SUBSCRIBE is a filter, so that what the broker
grants is one (`Outgoing`). `SessionInv` joins session and stream: while the session
is open the stream is whole, and until the end of `MQTTConnect`, the one call
that may fail without closing the session, there is no session and nothing has
gone wrong with the stream. `SessionStreamIntact` and `FailureClosesSession`
follow. `PingInv`, relative to it: with a fresh ping outstanding and the
connection up, `last_sent` has been restarted by the ping, and wherever a packet
has just been read, which is the only way to `keepalive`, `last_received` has
been restarted too. `KeepaliveGivesTime` follows.

**MqttDeliveryProofs.** The library never compares identifiers and never looks
for what an earlier call has left in the stream; that it works all the same is
the content of one invariant in four parts, over both directions of the
connection. `OpInv`: which calls have an identifier, and that an UNSUBACK in
`readbuf` means a closed session. `TokenInv`: while the session is open, or a
call with an identifier is in progress (`Live`), one packet of an exchange at
most is under way, in `c->buf`, to the broker, from it or in `readbuf`, and it
carries the identifier of the call in progress, or goes nowhere because the
connection has ended. The last is the answer to a PUBREC of which only the type
has come, with whatever identifier; `CutInv` says that packets are cut only by a
connection that ends, and that none is made after it. It is kept because a call that
ends without its answer closes the session, and there is no second one
(`FailCloses`). `AnswerIsForRequest` follows, for a `MAX_PACKET_ID` of one too.
`SubInv`: what the broker has granted has a handler or is what `MQTTSubscribe`
waits for, a SUBSCRIBE under way is that of the call, and a refusal under way is
of a filter that is not granted; `SlotIsFree`, that `MQTTSetMessageHandler`
overwrites no other filter, carries the last step to `SubscriptionsHaveHandlers`.
`PubInv`: a message without a handler is for the filter `MQTTSubscribe` waits
for, and no refusal is in front of it; `MessagesAreHeard` follows. The steps of
the client are first sorted by what they do to an exchange (`Plain`, `Closes`,
`Begins`, `Sends`, `Takes`, `Ends`; lemmas `TaskSteps` and `LibrarySteps`), so
that each invariant meets six kinds of step instead of twenty-four actions.
`MqttAssumption` says that no filter is NULL, which a caller's string never is.

`LibraryImplementsSession`, in the same module, is the refinement of
`MqttSession`. Each way for a call to begin, to fail and to succeed is a lemma
(`RequestRefines`, `FailRefines`, `SuccessRefines`, `FinishRefines`,
`SendRefines`, `ReadRefines`); all other steps leave what the caller sees alone
(`StepIsHidden`). It rests on the type, session and call invariants above and on
`KindInv`: a call in progress has a kind, a subscription a filter, and
`MQTTDisconnect` never reads. The run checks `ImplementsSession`, which includes
`FailureCloses`; the theorem about the latter stands on its own.

**MqttDispatchProofs.** Nothing is assumed of filters and topics but that they
are finite. The loop invariant is `Reached`: the characters of the filter before
the cursor can be cut off in front of the topic's cursor, and every way to cut
the whole topic goes through this point. The second half is what makes a loop
without backtracking complete; it holds because the part a character stands for
is given by where it begins (`TakesOnePart`). `StopDecides` says that where the
loop stops the question is decided, `PlusInv` is the same in the inner loop, and
`SlotInv` that the handlers passed so far are called as they should be and that
each call of `isTopicMatched` starts afresh. `DispatchIsExact` and
`CursorsStayInside` follow. `DispatchFollowsRule` then has no cursors left:
`DeliversByLevels` says that for well-formed filters and any topic cutting
character by character and matching level by level are the same, empty levels
included.
`CutGivesLevels` sends each bound of a level to the cut in front of it;
`LevelsGiveCut` builds the cut from the images of the bounds around each
character. Both need that every position of a string lies in exactly one level
(`LevelAt`, `OneLevelAt`, from the least number with a property, the one place
that uses the well-foundedness of the numbers, `LeastNumber`).

**SensorServiceProofs.** `BusInv`: the holder of the mutex, and nobody else, is
at a place between `Lock` and `Finish` (`Holder`); and, unless a transfer was
overtaken, a result in the queue belongs to the transfer waited for and a
transfer in progress has an owner (`Leftover`). `TransferGetsOwnResult` and
`HandlerSequenceExists` follow. `ReportsCatchUp` is inductive once `unreported`
is known to hold observed axes only (`ClientInv`, for `ObserversCatchUp`).
`EdgeInv`, for `FullFifoNotForgotten`: `sensor_task` is at an access of the INT1
branch only with the bit taken (`Branch`), and a FIFO that is full although its
own read is done (`Read`) has filled, and raised INT1, again. `SensorTypes`
collects the types from all of them.

Only model-checked: the liveness properties (`EveryCallReturns`,
`RegistrationIsScanned`, `UserRunsInTheEnd`, `SendsReturn`, `SessionRecovers`,
`CallsReturn`, `BusComesFree`, `FifoServed`), which the prover does not treat,
and the assumption `OnLevelsIsTheRule` of `MCMqttDispatch`, which compares two
ways to write down the rule of MQTT on the strings of the run.

## 6. Not modelled

Nearly all lines of the repository are vendored code under `system/` (FatFs,
emlib, sensor drivers, radio drivers, the SimpleLink and mbedTLS sources): about
580,000 lines of tables, register access and libraries, against some 12,600 of
the firmware itself. They appear as the effect of the calls made to them; the
wakaama library and the kernel are not even in the repository. The I2C driver is
the exception, as far as `board_i2c0_transfer` depends on it.

Priorities are not modelled beyond the choice of steps: every interleaving of
the tasks is allowed, which includes those the priorities rule out. Printing and
LEDs are left out.

Without a module: the SPI transport of the network processor, the instance
lists of the server object, the DTLS retransmission timers, and the composition
of connection manager and SNTP client (`WifiService` takes the result of a
request as a choice, which `TimeKeeping` allows). Left out for
good: configuration file and monitor (I/O), board support (pins and registers),
and the upstream example code this firmware does not run. `PROJECT.json` has
each with its reason and its hazards.

Further hazards, beside the ones `PROJECT.json` lists, that no property covers.
`ctx->sd` is written by its owner without the mutex, so that `FD_SET` may be
given the -1 of a close in progress (`network.c:217`); what it does with it is
outside the model. `pdMS_TO_TICKS` of twelve hours (`wifi_service.c:287`)
overflows if the kernel's macro multiplies in 32 bits. `connection_free`
(`connection.c:124`) does not close the last of several connections; the
security object has one server, so there is never more than one. The result of
`bme280_get_sensor_data` (`sensor_service.c:108`) is ignored, so a failed first
reading publishes uninitialised data; values are not part of the model.
