--------------------------- MODULE SelectMediator ---------------------------
(***************************************************************************)
(* The network mediator of src/network.c: one FreeRTOS task, select_task,  *)
(* runs sl_Select for every task that called enqueue_select_rx or          *)
(* enqueue_select_tx and wakes the caller through a binary semaphore.      *)
(*                                                                         *)
(* One waiting task per socket context (enum wifi_socket_id_e).  All of    *)
(* them have the priority of select_task and are time sliced with it, so   *)
(* every kernel call is a point where another task may run: a step of the  *)
(* model is the code between two kernel calls.  wifi_task (wifi_service.c) *)
(* has a higher priority and suspends or resumes the other tasks at any    *)
(* point, also while they hold network_monitor_mutex.                      *)
(***************************************************************************)
EXTENDS Naturals, FiniteSets

CONSTANTS
  Ids,            \* socket contexts, system_sockets[], and their tasks
  Owner,          \* the context that is given a descriptor (connection.c)
  Started,        \* tasks wifi_task resumes once the time is synchronised
  TxCallers,      \* tasks that call enqueue_select_tx too
  SelectTask,     \* select_task
  Nobody,         \* "no task holds the mutex"
  Sds,            \* descriptors sl_Socket returns
  NoSd,           \* UISO_NETWORK_INVALID_SOCKET
  Timeouts,       \* values of timeout_s
  MaxResponse,    \* MONITOR_MAX_RESPONSE_S
  Parts,          \* ticks of the kernel in a second of the real-time clock
  MaxTime,        \* bound: last reading of the real-time clock
  MaxClockSets    \* bound: how often SNTP sets the real-time clock

ASSUME MediatorAssumption ==
  /\ Owner \in Ids /\ Started \subseteq Ids /\ TxCallers \subseteq Ids
  /\ SelectTask \notin Ids /\ Nobody \notin Ids /\ Nobody # SelectTask
  /\ NoSd \notin Sds
  /\ Timeouts \subseteq Nat /\ MaxResponse \in Nat
  /\ Parts \in Nat \ {0}
  /\ MaxTime \in Nat \ {0} /\ MaxClockSets \in Nat

VARIABLES
  sd,        \* ctx->sd
  deadline,  \* ctx->rx_wait_deadline_s and ctx->tx_wait_deadline_s, 0 = none
  signal,    \* contexts whose rx_signal or tx_signal is given, by direction
  mutex,     \* holder of network_monitor_mutex
  pc,        \* where each waiting task is in enqueue_select_rx/tx
  call,      \* the arguments of the call in progress: direction, timeout_s
  left,      \* ticks left of the semaphore wait of each waiting task
  rc,        \* what the last call of each task returned
  spc,       \* where select_task is
  cur,       \* its local current_time
  fds,       \* its read_fd_set and write_fd_set
  stimer,    \* ticks left of the sl_Select in progress
  notified,  \* a task notification is pending for select_task
  suspended, \* tasks suspended with vTaskSuspend
  ready,     \* descriptors the network processor would report, by direction
  now,       \* sl_sleeptimer_get_time(), whole seconds
  part,      \* ticks passed of the second that runs
  halted,    \* a configASSERT failed: interrupts off, endless loop
  clockSets, \* how often the clock was set (bounded)
  fate,      \* history: what became of the last registration of a task
  regAt      \* history: instant of that registration, in ticks

waiterVars == <<pc, call, left, rc, fate, regAt>>
selectVars == <<spc, cur, fds, stimer>>
envVars    == <<now, part, clockSets, ready>>
vars == <<sd, deadline, signal, mutex, waiterVars, selectVars, notified,
          suspended, envVars, halted>>

Dirs  == {"rx", "tx"}
Tasks == Ids \cup {SelectTask}
WaiterPcs == {"out", "lock", "store", "drain", "notify", "wait"}
SelectPcs == {"entry", "clock", "lock", "scan", "select", "relock",
              "publish_rx", "publish_tx", "sleep"}
Fates == {"none", "armed", "reported", "swallowed", "expired"}

\* enqueue_select_rx/tx: no result yet, 0, -1
Results == {"none", "ok", "timeout"}

NoCall == [dir |-> "rx", timeout |-> 0]

TypeOK ==
  /\ sd \in [Ids -> Sds \cup {NoSd}]
  /\ deadline \in [Dirs -> [Ids -> Nat]]
  /\ signal \in [Dirs -> SUBSET Ids]
  /\ mutex \in Tasks \cup {Nobody}
  /\ pc \in [Ids -> WaiterPcs]
  /\ call \in [Ids -> [dir : Dirs, timeout : Nat]]
  /\ left \in [Ids -> Nat]
  /\ rc \in [Ids -> Results]
  /\ spc \in SelectPcs
  /\ cur \in Nat
  /\ fds \in [Dirs -> SUBSET Sds]
  /\ stimer \in Nat
  /\ notified \in BOOLEAN
  /\ suspended \subseteq Tasks
  /\ ready \in [Dirs -> SUBSET Sds]
  /\ now \in Nat
  /\ part \in 0..(Parts - 1)
  /\ halted \in BOOLEAN
  /\ clockSets \in Nat
  /\ fate \in [Ids -> Fates]
  /\ regAt \in [Ids -> Nat]

-----------------------------------------------------------------------------
(* Initial state: create_network_mediator, and every task suspends itself. *)

\* _initialize_network_ctx, create_network_mediator
Init ==
  /\ sd = [i \in Ids |-> NoSd]
  /\ deadline = [d \in Dirs |-> [i \in Ids |-> 0]]
  /\ signal = [d \in Dirs |-> {}]
  /\ mutex = Nobody
  /\ pc = [i \in Ids |-> "out"]
  /\ call = [i \in Ids |-> NoCall]
  /\ left = [i \in Ids |-> 0]
  /\ rc = [i \in Ids |-> "none"]
  /\ spc = "entry"
  /\ cur = 0
  /\ fds = [d \in Dirs |-> {}]
  /\ stimer = 0
  /\ notified = FALSE
  /\ suspended = Tasks
  /\ ready = [d \in Dirs |-> {}]
  /\ now = 1
  /\ part = 0
  /\ halted = FALSE
  /\ clockSets = 0
  /\ fate = [i \in Ids |-> "none"]
  /\ regAt = [i \in Ids |-> 0]

Running(t) == ~halted /\ t \notin suspended

Goto(i, from, to) ==
  /\ Running(i)
  /\ pc[i] = from
  /\ pc' = [pc EXCEPT ![i] = to]

SelectGoto(from, to) ==
  /\ Running(SelectTask)
  /\ spc = from
  /\ spc' = to

NoFds == [d \in Dirs |-> {}]

\* Seconds in ticks of the kernel (1000 * s in the code)
Ticks(s) == Parts * s

\* The time in ticks, finer than the clock reads it.
Instant == Ticks(now) + part

-----------------------------------------------------------------------------
(* The waiting tasks: enqueue_select_rx, enqueue_select_tx.                *)

\* Entry of enqueue_select_rx(id, sd, timeout_s) or of its tx twin.
Enqueue(i, d, t) ==
  /\ Goto(i, "out", "lock")
  /\ d = "tx" => i \in TxCallers
  /\ call' = [call EXCEPT ![i] = [dir |-> d, timeout |-> t]]
  /\ rc' = [rc EXCEPT ![i] = "none"]
  /\ UNCHANGED <<sd, deadline, signal, mutex, left, fate, regAt, selectVars,
                 notified, suspended, envVars, halted>>

\* wifi_service_register_*_socket: xSemaphoreTake(network_monitor_mutex)
TakeMutex(i) ==
  /\ mutex = Nobody
  /\ Goto(i, "lock", "store")
  /\ mutex' = i
  /\ UNCHANGED <<sd, deadline, signal, call, left, fate, regAt, rc, selectVars,
                 notified, suspended, envVars, halted>>

\* wifi_service_register_*_socket: the deadline, then the mutex is given back
Register(i) ==
  /\ Goto(i, "store", "drain")
  /\ deadline' = [deadline EXCEPT
                    ![call[i].dir][i] = now + call[i].timeout]
  /\ mutex' = Nobody
  /\ fate' = [fate EXCEPT ![i] = "armed"]
  /\ regAt' = [regAt EXCEPT ![i] = Instant]
  /\ UNCHANGED <<sd, signal, call, left, rc, selectVars, notified, suspended,
                 envVars, halted>>

\* Mutated form: the semaphore is not drained.
DrainNothing(i) ==
  /\ Goto(i, "drain", "notify")
  /\ UNCHANGED <<sd, deadline, signal, mutex, call, left, fate, regAt, rc,
                 selectVars, notified, suspended, envVars, halted>>

\* xSemaphoreTake(signal, 0): a wake-up left over from an earlier call goes,
\* and with it the one select_task gave since Register.
Drain(i) ==
  /\ Goto(i, "drain", "notify")
  /\ signal' = [signal EXCEPT ![call[i].dir] = @ \ {i}]
  /\ fate' = [fate EXCEPT ![i] = IF @ = "reported" THEN "swallowed" ELSE @]
  /\ UNCHANGED <<sd, deadline, mutex, call, left, regAt, rc, selectVars,
                 notified, suspended, envVars, halted>>

\* Mutated form: the notification is sent after the wait has begun.
NotifyNobody(i) ==
  /\ Goto(i, "notify", "wait")
  /\ left' = [left EXCEPT ![i] = Ticks(call[i].timeout + 2)]
  /\ UNCHANGED <<sd, deadline, signal, mutex, call, fate, regAt, rc,
                 selectVars, notified, suspended, envVars, halted>>

\* xTaskNotifyIndexed(network_monitor_task_handle), then the wait begins:
\* xSemaphoreTake(signal, 1000 * (timeout_s + 2)).
Notify(i) ==
  /\ Goto(i, "notify", "wait")
  /\ notified' = TRUE
  /\ left' = [left EXCEPT ![i] = Ticks(call[i].timeout + 2)]
  /\ UNCHANGED <<sd, deadline, signal, mutex, call, fate, regAt, rc,
                 selectVars, suspended, envVars, halted>>

\* The call returns r and its locals are gone.
Leave(i, r) ==
  /\ Goto(i, "wait", "out")
  /\ call' = [call EXCEPT ![i] = NoCall]
  /\ left' = [left EXCEPT ![i] = 0]
  /\ rc' = [rc EXCEPT ![i] = r]
  /\ fate' = [fate EXCEPT ![i] = "none"]
  /\ regAt' = [regAt EXCEPT ![i] = 0]

\* The semaphore was given: enqueue_select returns 0.
ReturnOk(i) ==
  /\ i \in signal[call[i].dir]
  /\ Leave(i, "ok")
  /\ signal' = [signal EXCEPT ![call[i].dir] = @ \ {i}]
  /\ UNCHANGED <<sd, deadline, mutex, selectVars, notified, suspended,
                 envVars, halted>>

\* The wait ran out: enqueue_select returns -1.  The deadline stays.
ReturnTimeout(i) ==
  /\ i \notin signal[call[i].dir] /\ left[i] = 0
  /\ Leave(i, "timeout")
  /\ UNCHANGED <<sd, deadline, signal, mutex, selectVars, notified,
                 suspended, envVars, halted>>

Waiter(i) == TakeMutex(i) \/ Register(i) \/ Drain(i) \/ Notify(i)
             \/ ReturnOk(i) \/ ReturnTimeout(i)

-----------------------------------------------------------------------------
(* select_task.                                                            *)

\* uint32_t current_time = sl_sleeptimer_get_time(), before the mutex.
ReadClock ==
  /\ SelectGoto("clock", "lock")
  /\ cur' = now
  /\ UNCHANGED <<sd, deadline, signal, mutex, waiterVars, fds, stimer,
                 notified, suspended, envVars, halted>>

SelectTakeMutex(from, to) ==
  /\ mutex = Nobody
  /\ SelectGoto(from, to)
  /\ mutex' = SelectTask
  /\ UNCHANGED <<sd, deadline, signal, waiterVars, cur, fds, stimer,
                 notified, suspended, envVars, halted>>

\* Mutated form: no grace second after the deadline.
NotExpiredStrict(dl, t) == dl >= t

\* rx_wait_deadline_s >= current_time, or exactly one second late
NotExpired(dl, t) == dl + 1 >= t

\* Mutated form: the descriptor is not looked at.
ArmedAnySd(d, i) == deadline[d][i] # 0

\* ctx->sd > 0: a context whose descriptor is 0 is passed over
Scanned(i) == sd[i] \notin {NoSd, 0}

\* ... and a deadline is set
Armed(d, i) == Scanned(i) /\ deadline[d][i] # 0

\* Mutated form: an expired registration is watched once more.
WatchedOnceMore(d, i) == Armed(d, i)

Watched(d, i) == Armed(d, i) /\ NotExpired(deadline[d][i], cur)
Expired(d, i) == Armed(d, i) /\ ~NotExpired(deadline[d][i], cur)

\* timeout_min: the nearest deadline, 0 when one is a second late, and never
\* more than MONITOR_MAX_RESPONSE_S.
Remaining(d, i) == IF deadline[d][i] >= cur THEN deadline[d][i] - cur ELSE 0
IsTimeoutMin(m) ==
  /\ \/ m = MaxResponse
     \/ \E d \in Dirs, i \in Ids : Watched(d, i) /\ m = Remaining(d, i)
  /\ m <= MaxResponse
  /\ \A d \in Dirs, i \in Ids : Watched(d, i) => m <= Remaining(d, i)

\* Mutated form: a scan that finds nothing to watch keeps the mutex.
ScanKeepsMutex ==
  /\ Running(SelectTask) /\ spc = "scan"
  /\ fds' = [d \in Dirs |-> {sd[i] : i \in {j \in Ids : Watched(d, j)}}]
  /\ IF \E d \in Dirs, i \in Ids : Watched(d, i)
     THEN /\ spc' = "select" /\ mutex' = Nobody
          /\ \E m \in 0..MaxResponse : IsTimeoutMin(m) /\ stimer' = Ticks(m)
     ELSE spc' = "sleep" /\ UNCHANGED <<stimer, mutex>>
  /\ UNCHANGED <<sd, deadline, signal, waiterVars, cur, notified, suspended,
                 envVars, halted>>

\* The first cycle: collect the descriptors to watch, drop what has expired,
\* give the mutex back; sl_Select when there is something to watch.
Scan ==
  /\ Running(SelectTask) /\ spc = "scan"
  /\ fds' = [d \in Dirs |-> {sd[i] : i \in {j \in Ids : Watched(d, j)}}]
  /\ deadline' = [d \in Dirs |-> [i \in Ids |->
                    IF Expired(d, i) THEN 0 ELSE deadline[d][i]]]
  /\ fate' = [i \in Ids |->
                IF fate[i] = "armed" /\ Expired(call[i].dir, i)
                THEN "expired" ELSE fate[i]]
  /\ cur' = 0
  /\ IF \E d \in Dirs, i \in Ids : Watched(d, i)
     THEN spc' = "select" /\ \E m \in 0..MaxResponse :
                               IsTimeoutMin(m) /\ stimer' = Ticks(m)
     ELSE spc' = "sleep" /\ UNCHANGED stimer
  /\ mutex' = Nobody
  /\ UNCHANGED <<sd, signal, pc, call, left, regAt, rc, notified, suspended,
                 envVars, halted>>

Reported(d) == fds[d] \cap ready[d]

\* sl_Select returns the number of descriptors that are ready and leaves just
\* them in the sets.
SelectReady ==
  /\ SelectGoto("select", "relock")
  /\ \E d \in Dirs : Reported(d) # {}
  /\ fds' = [d \in Dirs |-> Reported(d)]
  /\ stimer' = 0
  /\ UNCHANGED <<sd, deadline, signal, mutex, waiterVars, cur, notified,
                 suspended, envVars, halted>>

\* sl_Select returns 0 after its timeout, or an error when a descriptor of
\* the sets was closed meanwhile: the next cycle starts.
SelectNothing ==
  /\ SelectGoto("select", "clock")
  /\ \/ stimer = 0 /\ \A d \in Dirs : Reported(d) = {}
     \/ \E d \in Dirs : ~(fds[d] \subseteq {sd[i] : i \in Ids})
  /\ fds' = NoFds /\ stimer' = 0
  /\ UNCHANGED <<sd, deadline, signal, mutex, waiterVars, cur, notified,
                 suspended, envVars, halted>>

Hit(d, i) == Scanned(i) /\ sd[i] \in fds[d]

\* Mutated form: the wake-up is given and the registration stays.
PublishRxKeepsDeadline ==
  /\ SelectGoto("publish_rx", "publish_tx")
  /\ signal' = [signal EXCEPT !["rx"] = @ \cup {i \in Ids : Hit("rx", i)}]
  /\ fate' = [i \in Ids |->
                IF fate[i] = "armed" /\ call[i].dir = "rx" /\ Hit("rx", i)
                THEN "reported" ELSE fate[i]]
  /\ UNCHANGED <<sd, deadline, mutex, pc, call, left, regAt, rc, cur, fds,
                 stimer, notified, suspended, envVars, halted>>

\* Mutated form: the registration is consumed and nobody is woken.
PublishRxNoSignal ==
  /\ SelectGoto("publish_rx", "publish_tx")
  /\ deadline' = [deadline EXCEPT !["rx"] =
                    [i \in Ids |-> IF Hit("rx", i) THEN 0 ELSE @[i]]]
  /\ UNCHANGED <<sd, signal, mutex, waiterVars, cur, fds, stimer, notified,
                 suspended, envVars, halted>>

\* The second cycle, read set: the registration is consumed and rx_signal
\* given.
PublishRx ==
  /\ SelectGoto("publish_rx", "publish_tx")
  /\ deadline' = [deadline EXCEPT !["rx"] =
                    [i \in Ids |-> IF Hit("rx", i) THEN 0 ELSE @[i]]]
  /\ signal' = [signal EXCEPT !["rx"] = @ \cup {i \in Ids : Hit("rx", i)}]
  /\ fate' = [i \in Ids |->
                IF fate[i] = "armed" /\ call[i].dir = "rx" /\ Hit("rx", i)
                THEN "reported" ELSE fate[i]]
  /\ UNCHANGED <<sd, mutex, pc, call, left, regAt, rc, cur, fds, stimer,
                 notified, suspended, envVars, halted>>

\* The second cycle, write set, nothing to report: the mutex is given back.
PublishTxNone ==
  /\ SelectGoto("publish_tx", "clock")
  /\ \A i \in Ids : ~Hit("tx", i)
  /\ mutex' = Nobody
  /\ fds' = NoFds
  /\ UNCHANGED <<sd, deadline, signal, waiterVars, cur, stimer, notified,
                 suspended, envVars, halted>>

\* The second cycle, write set: the deadline is cleared and then passed to
\* xSemaphoreGive in the place of tx_signal.  The handle is NULL, and the
\* kernel's configASSERT( pxQueue ) stops the system.
PublishTx(i) ==
  /\ Running(SelectTask) /\ spc = "publish_tx"
  /\ Hit("tx", i)
  /\ deadline' = [deadline EXCEPT !["tx"][i] = 0]
  /\ fate' = [fate EXCEPT ![i] = IF @ = "armed" /\ call[i].dir = "tx"
                                 THEN "reported" ELSE @]
  /\ halted' = TRUE
  /\ UNCHANGED <<sd, signal, mutex, pc, call, left, regAt, rc, selectVars,
                 notified, suspended, envVars>>

\* Nothing to watch: xTaskGenericNotifyWait(0, 0, UINT32_MAX, portMAX_DELAY)
NotifyWait ==
  /\ SelectGoto("sleep", "clock")
  /\ notified
  /\ notified' = FALSE
  /\ UNCHANGED <<sd, deadline, signal, mutex, waiterVars, cur, fds, stimer,
                 suspended, envVars, halted>>

SelectStep ==
  \/ ReadClock
  \/ SelectTakeMutex("lock", "scan")
  \/ Scan
  \/ SelectReady \/ SelectNothing
  \/ SelectTakeMutex("relock", "publish_rx")
  \/ PublishRx \/ PublishTxNone
  \/ \E i \in Ids : PublishTx(i)
  \/ NotifyWait

-----------------------------------------------------------------------------
(* What the rest of the firmware and the outside do to the mediator.       *)

\* wifi_task, disconnected: suspend the user, network monitor and MQTT tasks.
Disconnected ==
  /\ ~halted
  /\ suspended' = Tasks
  /\ UNCHANGED <<sd, deadline, signal, mutex, waiterVars, selectVars,
                 notified, envVars, halted>>

\* wifi_task, IP acquired: resume the network monitor task.  Its initial
\* vTaskSuspend returns, and so does a notification wait it was suspended in.
IpAcquired ==
  /\ ~halted /\ SelectTask \in suspended
  /\ suspended' = suspended \ {SelectTask}
  /\ IF spc \in {"entry", "sleep"}
     THEN spc' = "clock" /\ notified' = FALSE
     ELSE UNCHANGED <<spc, notified>>
  /\ UNCHANGED <<sd, deadline, signal, mutex, waiterVars, cur, fds, stimer,
                 envVars, halted>>

\* wifi_task, time synchronised: resume the tasks it resumes.
TimeSynced ==
  /\ ~halted
  /\ suspended' = suspended \ Started
  /\ UNCHANGED <<sd, deadline, signal, mutex, waiterVars, selectVars,
                 notified, envVars, halted>>

\* The owner opens a connection; uiso_create_network_connection overwrites
\* ctx->sd whatever it held.
OpenSocket(s) ==
  /\ Running(Owner) /\ pc[Owner] = "out" /\ s # sd[Owner]
  /\ sd' = [sd EXCEPT ![Owner] = s]
  /\ ready' = [d \in Dirs |-> ready[d] \ {s}]
  /\ UNCHANGED <<deadline, signal, mutex, waiterVars, selectVars, notified,
                 suspended, now, part, clockSets, halted>>

\* The owner closes it (_network_close, which leaves a descriptor that is not
\* above 0 open); the deadlines stay as they are.
CloseSocket ==
  /\ Running(Owner) /\ pc[Owner] = "out" /\ Scanned(Owner)
  /\ sd' = [sd EXCEPT ![Owner] = NoSd]
  /\ ready' = [d \in Dirs |-> ready[d] \ {sd[Owner]}]
  /\ UNCHANGED <<deadline, signal, mutex, waiterVars, selectVars, notified,
                 suspended, now, part, clockSets, halted>>

\* The owner uses the connection until the descriptor is no longer ready.
UseSocket(d) ==
  /\ Running(Owner) /\ pc[Owner] = "out"
  /\ sd[Owner] \in ready[d]
  /\ ready' = [ready EXCEPT ![d] = @ \ {sd[Owner]}]
  /\ UNCHANGED <<sd, deadline, signal, mutex, waiterVars, selectVars,
                 notified, suspended, now, part, clockSets, halted>>

\* Data arrive for an open descriptor, or there is room to send again.
BecomesReady(d) ==
  /\ ~halted /\ sd[Owner] # NoSd /\ sd[Owner] \notin ready[d]
  /\ ready' = [ready EXCEPT ![d] = @ \cup {sd[Owner]}]
  /\ UNCHANGED <<sd, deadline, signal, mutex, waiterVars, selectVars,
                 notified, suspended, now, part, clockSets, halted>>

Less(n) == IF n = 0 THEN 0 ELSE n - 1

\* A kernel tick passes for every wait in progress; the real-time clock shows
\* it once a second.  The clock of the model stops at the end of second
\* MaxTime; waits go on running out.
Tick ==
  /\ ~halted
  /\ left' = [i \in Ids |-> Less(left[i])]
  /\ stimer' = Less(stimer)
  /\ \/ part + 1 < Parts /\ part' = part + 1 /\ UNCHANGED now
     \/ part + 1 = Parts /\ now < MaxTime /\ part' = 0 /\ now' = now + 1
     \/ part + 1 = Parts /\ now >= MaxTime /\ UNCHANGED <<now, part>>
  /\ UNCHANGED <<sd, deadline, signal, mutex, pc, call, fate, regAt, rc, spc,
                 cur, fds, notified, suspended, clockSets, ready, halted>>

\* uiso_sntp_request sets the real-time clock (sl_sleeptimer_set_time); the
\* second that runs is not cut short.
SetClock(t) ==
  /\ ~halted /\ clockSets < MaxClockSets
  /\ t # now
  /\ now' = t
  /\ clockSets' = clockSets + 1
  /\ UNCHANGED <<sd, deadline, signal, mutex, waiterVars, selectVars,
                 notified, suspended, part, ready, halted>>

\* The idle task no longer feeds the watchdog: the device restarts.
WatchdogReset ==
  /\ halted
  /\ sd' = [i \in Ids |-> NoSd]
  /\ deadline' = [d \in Dirs |-> [i \in Ids |-> 0]]
  /\ signal' = [d \in Dirs |-> {}]
  /\ mutex' = Nobody
  /\ pc' = [i \in Ids |-> "out"]
  /\ call' = [i \in Ids |-> NoCall]
  /\ left' = [i \in Ids |-> 0]
  /\ rc' = [i \in Ids |-> "none"]
  /\ spc' = "entry"
  /\ cur' = 0
  /\ fds' = [d \in Dirs |-> {}]
  /\ stimer' = 0
  /\ notified' = FALSE
  /\ suspended' = Tasks
  /\ ready' = [d \in Dirs |-> {}]
  /\ now' = 1
  /\ part' = 0
  /\ halted' = FALSE
  /\ clockSets' = 0
  /\ fate' = [i \in Ids |-> "none"]
  /\ regAt' = [i \in Ids |-> 0]

Environment ==
  \/ Disconnected \/ IpAcquired \/ TimeSynced
  \/ \E s \in Sds : OpenSocket(s)
  \/ CloseSocket
  \/ \E d \in Dirs : UseSocket(d) \/ BecomesReady(d)
  \/ Tick
  \/ \E t \in 1..MaxTime : SetClock(t)
  \/ WatchdogReset

Next ==
  \/ \E i \in Ids : Waiter(i)
  \/ \E i \in Ids, d \in Dirs, t \in Timeouts : Enqueue(i, d, t)
  \/ SelectStep
  \/ Environment

Spec == Init /\ [][Next]_vars

(***************************************************************************)
(* Fairness.  The scheduler runs every task that is not suspended; tasks   *)
(* of equal priority blocked on the mutex are served in turn, so a task    *)
(* that finds it free again and again gets it.  Time passes.  Nothing is   *)
(* assumed of the connection, the clock setting or the callers.            *)
(***************************************************************************)
Fairness ==
  /\ \A i \in Ids :
       /\ SF_vars(TakeMutex(i))
       /\ WF_vars(Register(i) \/ Drain(i) \/ Notify(i)
                  \/ ReturnOk(i) \/ ReturnTimeout(i))
  /\ SF_vars(SelectTakeMutex("lock", "scan")
             \/ SelectTakeMutex("relock", "publish_rx"))
  /\ WF_vars(SelectStep)
  /\ WF_vars(Tick)

FairSpec == Spec /\ Fairness

-----------------------------------------------------------------------------
(* Properties.                                                             *)

\* Waiting(i): task i is blocked on its semaphore in enqueue_select_rx/tx.
Waiting(i) == pc[i] = "wait"

\* A pending wake-up has used up its registration: while rx_signal or
\* tx_signal is given the deadline of that direction is 0, except between
\* Register and Drain of a new call.  So a call that returns 0 leaves nothing
\* registered behind it, and select_task does not report to a task that no
\* longer waits (network.c, deadline cleared before xSemaphoreGive).
WakeUsesUpRegistration ==
  \A d \in Dirs, i \in Ids :
    i \in signal[d] => \/ deadline[d][i] = 0
                       \/ pc[i] = "drain" /\ call[i].dir = d

\* select_task never blocks in xTaskGenericNotifyWait without a pending
\* notification while a task waits on a descriptor above 0 with its deadline
\* set: registering first and notifying second loses no registration.  It does
\* sleep over one on descriptor 0, which uiso_create_network_connection takes
\* for a connection and no scan ever looks at (network.c:380, 217): that
\* caller can only time out.
NoSleepOverRegistration ==
  (spc = "sleep" /\ ~notified) =>
    \A i \in Ids : Waiting(i) /\ Scanned(i) => deadline[call[i].dir][i] = 0

\* While select_task is in sl_Select or publishes its result, a context whose
\* descriptor is in its sets is registered: no task is woken unasked, however
\* the descriptor was closed and opened again during the sl_Select.
NoUnaskedWake ==
  /\ spc \in {"select", "relock", "publish_rx"} =>
       \A d \in Dirs, i \in Ids : Hit(d, i) => deadline[d][i] # 0
  /\ spc = "publish_tx" /\ ~halted =>
       \A i \in Ids : Hit("tx", i) => deadline["tx"][i] # 0

\* The two ways to lose a wake-up.  A task that waits, was not signalled and
\* is not registered any more either drained its own wake-up (select_task
\* reported between Register and Drain) or its deadline expired.
OnlyDrainOrExpiryLoses ==
  \A i \in Ids :
    LET d == call[i].dir IN
    ~halted /\ Waiting(i) /\ i \notin signal[d] /\ deadline[d][i] = 0
      => fate[i] \in {"swallowed", "expired"}

\* How far a call has come, as its caller may know it.
Phase ==
  [i \in Ids |-> CASE fate[i] = "none" -> "idle"
                   [] fate[i] \in {"swallowed", "expired"} -> "lost"
                   [] OTHER -> fate[i]]

Wait == INSTANCE ReadinessWait
          WITH Callers <- Ids, phase <- Phase, result <- rc

\* enqueue_select_rx/tx keep the promise of ReadinessWait: a call returns 0
\* only on a report of select_task made to it since it registered, and -1
\* only without one, whatever semaphore counts, deadlines and descriptor sets
\* earlier calls have left behind.
ImplementsWait == Wait!Spec

\* While nobody sets the clock, select_task drops a registration later than
\* timeout_s + 1 seconds after it was made, so never before the timeout asked
\* for is over.  It may do so before the caller's own wait of timeout_s + 2
\* seconds ends: the deadline is counted in whole seconds of a clock that may
\* have been about to move on when the registration was made.
NoEarlyExpiry ==
  \A i \in Ids :
    fate[i] = "expired" /\ clockSets = 0
      => Instant > regAt[i] + Ticks(call[i].timeout + 1)

Undisturbed == ~halted /\ suspended = {}

\* Every call of enqueue_select_rx/tx returns, unless the system halts or a
\* disconnection suspends the tasks.
EveryCallReturns ==
  \A i \in Ids : (pc[i] # "out") ~> (pc[i] = "out" \/ ~Undisturbed)

\* A registration is looked at after it was made: once a call has registered
\* and drained its signal, select_task comes to scan the contexts.  It is not
\* asleep for good, sl_Select does not keep it, and the mutex is not lost to
\* it by anyone.
RegistrationIsScanned ==
  \A i \in Ids : (pc[i] = "notify") ~> (spc = "scan" \/ ~Undisturbed)

\* FreeRTOS asserts that a semaphore handle is not NULL (configASSERT in
\* xQueueGenericSend): no step of select_task runs into that assertion.
NoAssertFails == ~halted

=============================================================================
