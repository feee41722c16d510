---------------------------- MODULE SensorService ----------------------------
(***************************************************************************)
(* The sensor tasks of src/sensor_service.c, the I2C bus they share        *)
(* (src/board/board_i2c_sensors.c) and the way their measurements reach    *)
(* the observers of the LWM2M client.                                      *)
(*                                                                         *)
(* "accel" is sensor_task (BMA280), "temp" is bme280_task (BME280).  A     *)
(* register access is one board_i2c0_transfer: mutex, interrupt enabled,   *)
(* I2C_TransferInit, a wait for the result the interrupt handler posts,    *)
(* interrupt disabled, mutex given.  The peripheral is the I2C driver of   *)
(* the vendor's SDK as this code uses it.                                  *)
(***************************************************************************)
CONSTANT Observed  \* axes of the accelerometer object a server observes

Axes == {"x", "y", "z"}

ASSUME SensorAssumption == Observed \subseteq Axes

VARIABLES
  pc,         \* where each task is
  job,        \* the register access it is at
  bits,       \* its pending notification bits
  val,        \* its local notification_value
  res,        \* ret of its last transfer
  mutex,      \* i2c0_mutex: the task that holds it, or "free"
  irq,        \* I2C0_IRQn is enabled in the NVIC
  bus,        \* i2cTransfer[0].state
  ien,        \* the interrupts of I2C0 are enabled in the peripheral
  alive,      \* the caller that owns i2cTransfer[0].seq has not returned
  queue,      \* i2c0_semaphore, a queue of one result, or "empty"
  configured, \* the BMA280 signals a full FIFO on INT1
  fifo,       \* its FIFO is full, so INT1 is low (active low, not latched)
  flagged,    \* user_task's lwm2m_notify_accelerometer bit
  changed,    \* axes whose observers the client has still to notify
  unreported, \* observed axes whose value in accelerometer_values is newer
              \* than the one their observers have
  overtaken,  \* history: a transfer ended before I2C_TransferInit returned,
              \* and no transfer has begun with an empty queue since
  failed      \* history: the FIFO is full, and an access of the INT1 branch
              \* has failed meanwhile or got a result that was not its own

Tasks == {"accel", "temp"}
Jobs  == {"none", "setup", "status", "config", "fifo", "heat", "mode", "data"}
Transferring == {"lock", "init", "tail", "receive", "finish"}
Updating     == {"y", "z", "notify"}
Places == Transferring \cup Updating \cup {"power", "return", "wait", "x"}

\* A result, with the mark of one that belongs to another transfer.
Own     == {"done", "error"}
Results == Own \cup {"stale done", "stale error"}
Ok      == {"done", "stale done"}
Stale(r) == IF r \in Ok THEN "stale done" ELSE "stale error"

taskVars    == <<pc, job, bits, val, res>>
busVars     == <<mutex, irq, bus, ien, alive, queue>>
sensorVars  == <<configured, fifo, failed>>
clientVars  == <<flagged, changed, unreported>>
vars == <<taskVars, busVars, sensorVars, clientVars, overtaken>>

TypeOK ==
  /\ pc \in [Tasks -> Places] /\ job \in [Tasks -> Jobs]
  /\ bits \in [Tasks -> SUBSET {"timer", "int1"}]
  /\ val \in [Tasks -> SUBSET {"timer", "int1"}]
  /\ res \in [Tasks -> Results]
  /\ mutex \in Tasks \cup {"free"} /\ irq \in BOOLEAN
  /\ bus \in {"idle", "active", "done"}
  /\ ien \in BOOLEAN /\ alive \in BOOLEAN
  /\ queue \in Results \cup {"empty"}
  /\ configured \in BOOLEAN /\ fifo \in BOOLEAN /\ failed \in BOOLEAN
  /\ flagged \in BOOLEAN /\ changed \in SUBSET Axes
  /\ unreported \in SUBSET Axes
  /\ overtaken \in BOOLEAN

\* board_i2c_init has run, create_sensor_task has made both tasks.
Init ==
  /\ pc = [t \in Tasks |-> "power"] /\ job = [t \in Tasks |-> "setup"]
  /\ bits = [t \in Tasks |-> {}] /\ val = [t \in Tasks |-> {}]
  /\ res = [t \in Tasks |-> "error"]
  /\ mutex = "free" /\ irq = FALSE /\ queue = "empty"
  /\ bus = "idle" /\ ien = FALSE /\ alive = FALSE
  /\ configured = FALSE /\ fifo = FALSE /\ failed = FALSE
  /\ flagged = FALSE /\ changed = {} /\ unreported = {}
  /\ overtaken = FALSE

Goto(t, place) == pc' = [pc EXCEPT ![t] = place]

\* board_i2c0_transfer has ret in hand; it begins as i2cTransferSwFault.
Got(t, r) == res' = [res EXCEPT ![t] = r]
SwFault == "error"

\* The task calls board_i2c0_transfer for the register access j.
Access(t, j) ==
  Goto(t, "lock") /\ job' = [job EXCEPT ![t] = j] /\ Got(t, SwFault)

\* It waits in xTaskNotifyWait, the locals of the next pass reset.
Rest(t) ==
  /\ Goto(t, "wait")
  /\ job' = [job EXCEPT ![t] = "none"] /\ val' = [val EXCEPT ![t] = {}]
  /\ Got(t, SwFault)

-----------------------------------------------------------------------------
(* board_i2c0_transfer.                                                    *)

\* Mutated form: the interrupt stays disabled in the NVIC.
LockOnly(t) ==
  /\ pc[t] = "lock" /\ mutex = "free"
  /\ mutex' = t
  /\ Goto(t, "init")
  /\ UNCHANGED <<job, bits, val, res, irq, bus, ien, alive, queue, sensorVars,
                 clientVars, overtaken>>

\* xSemaphoreTake of the mutex and NVIC_EnableIRQ.  A transfer nobody waits
\* for can interrupt from here on.
Lock(t) ==
  /\ pc[t] = "lock" /\ mutex = "free"
  /\ mutex' = t /\ irq' = TRUE
  /\ Goto(t, "init")
  /\ UNCHANGED <<job, bits, val, res, bus, ien, alive, queue, sensorVars,
                 clientVars, overtaken>>

\* It waits ten seconds in vain: i2cTransferSwFault.
LockTimesOut(t) ==
  /\ pc[t] = "lock" /\ mutex # "free"
  /\ Got(t, SwFault)
  /\ Goto(t, "return")
  /\ UNCHANGED <<job, bits, val, busVars, sensorVars, clientVars, overtaken>>

\* I2C_TransferInit, up to the START it sends: a transfer still in progress is
\* aborted, interrupts of the peripheral are enabled.
TransferInit(t) ==
  /\ pc[t] = "init"
  /\ bus' = "active" /\ ien' = TRUE /\ alive' = TRUE
  /\ overtaken' = (overtaken /\ queue # "empty")
  /\ Goto(t, "tail")
  /\ UNCHANGED <<job, bits, val, res, mutex, irq, queue, sensorVars,
                 clientVars>>

\* It refuses a read of no bytes at once (i2cTransferUsageFault), before the
\* sequence is taken over.
UsageFault(t) ==
  /\ pc[t] = "init"
  /\ Got(t, "error")
  /\ Goto(t, "finish")
  /\ UNCHANGED <<job, bits, val, busVars, sensorVars, clientVars, overtaken>>

\* The end of I2C_TransferInit finds the transfer in progress: its positive
\* value makes the caller wait for the queue.
InProgress(t) ==
  /\ pc[t] = "tail" /\ bus = "active"
  /\ Goto(t, "receive")
  /\ UNCHANGED <<job, bits, val, res, busVars, sensorVars, clientVars,
                 overtaken>>

\* The interrupt handler has finished the transfer before that: an error is
\* returned as it is, and i2cTransferDone (0) leads to one more I2C_Transfer,
\* which answers i2cTransferSwFault.  The posted result stays in the queue.
Overtaken(t) ==
  /\ pc[t] = "tail" /\ bus = "done"
  /\ Got(t, SwFault)
  /\ overtaken' = TRUE
  /\ Goto(t, "finish")
  /\ UNCHANGED <<job, bits, val, busVars, sensorVars, clientVars>>

\* Mutated form: the wait for the result has a timeout.
ReceiveAtMost(t) ==
  /\ pc[t] = "receive"
  /\ Got(t, IF queue = "empty" THEN SwFault ELSE queue)
  /\ queue' = "empty"
  /\ Goto(t, "finish")
  /\ UNCHANGED <<job, bits, val, mutex, irq, bus, ien, alive, sensorVars,
                 clientVars, overtaken>>

\* xQueueReceive(i2c0_semaphore, &ret, portMAX_DELAY)
Receive(t) ==
  /\ pc[t] = "receive" /\ queue # "empty"
  /\ Got(t, queue)
  /\ queue' = "empty"
  /\ Goto(t, "finish")
  /\ UNCHANGED <<job, bits, val, mutex, irq, bus, ien, alive, sensorVars,
                 clientVars, overtaken>>

\* NVIC_DisableIRQ and xSemaphoreGive.  The sequence and its buffers are
\* locals of the caller; a result still in the queue belongs to no transfer
\* to come.
Finish(t) ==
  /\ pc[t] = "finish"
  /\ irq' = FALSE /\ mutex' = "free"
  /\ alive' = FALSE
  /\ queue' = IF queue = "empty" THEN queue ELSE Stale(queue)
  /\ Goto(t, "return")
  /\ UNCHANGED <<job, bits, val, res, bus, ien, sensorVars, clientVars,
                 overtaken>>

\* xQueueSendFromISR: a full queue drops the result.
Post(r) == queue' = IF queue = "empty" THEN r ELSE queue

\* I2C0_IRQHandler at the end of a transfer.  Reading the FIFO empties it; a
\* read that fails may have done so in part.
TransferEnds(r) ==
  /\ irq /\ ien /\ bus = "active"
  /\ bus' = "done" /\ ien' = FALSE
  /\ Post(IF alive THEN r ELSE Stale(r))
  /\ fifo' \in IF alive /\ job[mutex] = "fifo"
               THEN (IF r = "done" THEN {FALSE} ELSE {fifo, FALSE})
               ELSE {fifo}
  /\ failed' = (failed /\ fifo')
  /\ UNCHANGED <<taskVars, mutex, irq, alive, configured, clientVars,
                 overtaken>>

-----------------------------------------------------------------------------
(* Notifications of the sensor tasks.                                      *)

\* Mutated form: eSetValueWithOverwrite in the place of eSetBits.
Overwrite(t, b) == bits' = [bits EXCEPT ![t] = {b}]

\* xTaskNotify and xTaskNotifyFromISR with eSetBits
Notify(t, b) == bits' = [bits EXCEPT ![t] = @ \cup {b}]

\* bma280_timer_callback, bme280_sampling_timer_callback.  The timers start
\* once the task has set up its sensor.
TimerFires(t) ==
  /\ job[t] # "setup"
  /\ Notify(t, "timer")
  /\ UNCHANGED <<pc, job, val, res, busVars, sensorVars, clientVars,
                 overtaken>>

\* The FIFO runs full and INT1 falls: bma280_int1_callback, on that edge only.
FifoFills ==
  /\ configured /\ ~fifo
  /\ fifo' = TRUE
  /\ Notify("accel", "int1")
  /\ UNCHANGED <<pc, job, val, res, busVars, configured, failed, clientVars,
                 overtaken>>

\* xTaskNotifyWait(0, UINT32_MAX, &notification_value, ...) returns pdTRUE.
Take(t, j) ==
  /\ pc[t] = "wait" /\ bits[t] # {}
  /\ val' = [val EXCEPT ![t] = bits[t]]
  /\ bits' = [bits EXCEPT ![t] = {}]
  /\ Access(t, j)
  /\ UNCHANGED <<busVars, sensorVars, clientVars, overtaken>>

-----------------------------------------------------------------------------
(* Set-up, the same for both tasks.                                        *)

\* board_bma280_enable, board_bme280_enable: the sensor gets its supply, and
\* I2CSPM_Init clears the interrupt enables of I2C0, without the mutex.
PowerUp(t) ==
  /\ pc[t] = "power"
  /\ ien' = FALSE
  /\ Access(t, "setup")
  /\ UNCHANGED <<bits, val, mutex, irq, bus, alive, queue, sensorVars,
                 clientVars, overtaken>>

\* The next register access of initialize_bma280 or initialize_bme280, which
\* ignore some errors.
SetUpMore(t) ==
  /\ pc[t] = "return" /\ job[t] = "setup"
  /\ Access(t, "setup")
  /\ UNCHANGED <<bits, val, busVars, sensorVars, clientVars, overtaken>>

\* Its end, by success or by an error, which the task ignores in turn: it
\* starts its timer and waits.  A failed write may have taken effect.
SetUpEnds(t) ==
  /\ pc[t] = "return" /\ job[t] = "setup"
  /\ configured' \in IF t # "accel" THEN {configured}
                     ELSE IF res[t] = "done" THEN {TRUE} ELSE BOOLEAN
  /\ Rest(t)
  /\ UNCHANGED <<bits, busVars, fifo, failed, clientVars, overtaken>>

-----------------------------------------------------------------------------
(* sensor_task.                                                            *)

\* Mutated form: the timer bit shadows the INT1 bit.
TimerFirst == Take("accel", IF "timer" \in bits["accel"] THEN "heat"
                            ELSE "status")

\* The INT1 branch comes first, then the timer branch.
AccelTakes == Take("accel", IF "int1" \in bits["accel"] THEN "status"
                            ELSE "heat")

\* What follows the INT1 branch, whatever came of it.
AfterInt1 ==
  IF "timer" \in val["accel"] THEN Access("accel", "heat") /\ UNCHANGED val
  ELSE Rest("accel")

\* The access of the INT1 branch that has just returned.
NoteFailure ==
  failed' = (failed \/ (fifo /\ res["accel"] # "done"))

\* bma2_get_int_status says FIFO full, bma2_get_fifo_config succeeds: the next
\* access.  A result of another transfer leaves any value in the buffer.
AccelGoesOn ==
  /\ pc["accel"] = "return" /\ res["accel"] \in Ok
  /\ \/ /\ job["accel"] = "status" /\ (fifo \/ res["accel"] \notin Own)
        /\ Access("accel", "config")
     \/ /\ job["accel"] = "config"
        /\ Access("accel", "fifo")
  /\ NoteFailure
  /\ UNCHANGED <<bits, val, busVars, configured, fifo, clientVars, overtaken>>

\* One of the three fails, bma2_extract_accel finds an empty frame in what was
\* read, or the interrupt has another reason (or a result of another transfer
\* makes it look so).
AccelGivesUp ==
  /\ pc["accel"] = "return" /\ job["accel"] \in {"status", "config", "fifo"}
  /\ \/ res["accel"] # "done" \/ job["accel"] = "fifo"
     \/ job["accel"] = "status" /\ ~fifo
  /\ AfterInt1 /\ NoteFailure
  /\ UNCHANGED <<bits, busVars, configured, fifo, clientVars, overtaken>>

\* The FIFO is read and bma2_extract_accel succeeds: mean_and_variance and
\* lwm2m_client_update_accel.
AccelComputes ==
  /\ pc["accel"] = "return" /\ job["accel"] = "fifo" /\ res["accel"] \in Ok
  /\ Goto("accel", "x") /\ NoteFailure
  /\ UNCHANGED <<job, bits, val, res, busVars, configured, fifo, clientVars,
                 overtaken>>

\* update_accelerometer_values writes one axis after the other.
UpdateAxis(a) ==
  /\ pc["accel"] = a
  /\ unreported' = unreported \cup ({a} \cap Observed)
  /\ Goto("accel", CASE a = "x" -> "y" [] a = "y" -> "z"
                     [] a = "z" -> "notify")
  /\ UNCHANGED <<job, bits, val, res, busVars, sensorVars, flagged, changed,
                 overtaken>>

\* xTaskNotify(user_task_handle, lwm2m_notify_accelerometer, eSetBits)
AccelNotifies ==
  /\ pc["accel"] = "notify"
  /\ flagged' = TRUE
  /\ AfterInt1
  /\ UNCHANGED <<bits, busVars, sensorVars, changed, unreported, overtaken>>

\* bma2_get_temperature_data: the value is only printed.
HeatRead ==
  /\ pc["accel"] = "return" /\ job["accel"] = "heat"
  /\ Rest("accel")
  /\ UNCHANGED <<bits, busVars, sensorVars, clientVars, overtaken>>

-----------------------------------------------------------------------------
(* bme280_task.                                                            *)

TempTakes == Take("temp", "mode")

\* bme280_set_sensor_mode makes one access or more; its result is ignored.
ModeSet(j) ==
  /\ pc["temp"] = "return" /\ job["temp"] = "mode"
  /\ j = "mode" => res["temp"] \in Ok
  /\ Access("temp", j)
  /\ UNCHANGED <<bits, val, busVars, sensorVars, clientVars, overtaken>>

\* bme280_get_sensor_data and lwm2m_client_update_temperature, whose value is
\* left out.
TempPublishes ==
  /\ pc["temp"] = "return" /\ job["temp"] = "data"
  /\ Rest("temp")
  /\ UNCHANGED <<bits, busVars, sensorVars, clientVars, overtaken>>

-----------------------------------------------------------------------------
(* user_task: the LWM2M client, of a higher priority than the sensor tasks *)
(* but blocked at times on the network.                                    *)

\* Mutated form: 5703 is forgotten.
NoY(notified) == notified \ {"y"}
\* Mutated form: the timestamp is passed as well.
TimestampToo(notified) == notified \cup {"timestamp"}

\* The resources passed to lwm2m_resource_value_changed, 5702, 5703 and 5704,
\* that are observed.
Watched(notified) == notified \cap Observed

ValuesChanged ==
  /\ flagged
  /\ flagged' = FALSE
  /\ changed' = changed \cup Watched(Axes)
  /\ UNCHANGED <<taskVars, busVars, sensorVars, unreported, overtaken>>

\* lwm2m_step: accel_read of one resource and the message to its observer.
\* Each axis is observed on its own, and the send may let sensor_task run.
SendValue(a) ==
  /\ a \in changed
  /\ changed' = changed \ {a}
  /\ unreported' = unreported \ {a}
  /\ UNCHANGED <<taskVars, busVars, sensorVars, flagged, overtaken>>

-----------------------------------------------------------------------------
Transfer(t) ==
  \/ Lock(t) \/ LockTimesOut(t) \/ TransferInit(t) \/ UsageFault(t)
  \/ InProgress(t) \/ Overtaken(t) \/ Receive(t) \/ Finish(t)
SetUp(t) == PowerUp(t) \/ SetUpMore(t) \/ SetUpEnds(t)

sensor_task ==
  \/ Transfer("accel") \/ SetUp("accel")
  \/ AccelTakes \/ AccelGoesOn \/ AccelGivesUp \/ AccelComputes
  \/ \E a \in Axes : UpdateAxis(a)
  \/ AccelNotifies \/ HeatRead

bme280_task ==
  \/ Transfer("temp") \/ SetUp("temp")
  \/ TempTakes \/ (\E j \in {"mode", "data"} : ModeSet(j)) \/ TempPublishes

Interrupt == \E r \in Own : TransferEnds(r)

Next ==
  \/ sensor_task \/ bme280_task
  \/ Interrupt \/ FifoFills \/ \E t \in Tasks : TimerFires(t)
  \/ ValuesChanged \/ \E a \in Axes : SendValue(a)

Spec == Init /\ [][Next]_vars

\* Both tasks are scheduled, and the peripheral ends what it has begun.
FairSpec ==
  Spec /\ WF_vars(sensor_task) /\ WF_vars(bme280_task) /\ WF_vars(Interrupt)

-----------------------------------------------------------------------------
(* Properties.                                                             *)

\* board_i2c0_transfer returns the result of its own transfer and not one
\* that an earlier transfer left in the queue, unless some transfer ended
\* before I2C_TransferInit had returned and every one since found a result in
\* the queue.
OwnResult ==
  \A t \in Tasks : pc[t] = "finish" /\ res[t] \notin Own => overtaken

\* With the same exception, the interrupt handler never works on a sequence
\* whose owner has returned ("the referenced structure must exist until the
\* transfer has fully completed").
SequenceExists ==
  irq /\ ien /\ bus = "active" => alive \/ overtaken

\* A full FIFO is not forgotten: the task is notified of it or at work on it,
\* although the edge comes once and the bits of all sources share a word.
EdgeNotLost ==
  fifo => \/ "int1" \in bits["accel"]
          \/ failed
          \/ /\ "int1" \in val["accel"] /\ pc["accel"] # "wait"
             /\ job["accel"] \in {"status", "config", "fifo"}

\* What an observer of an axis was last sent is its value, or a message with
\* the value is still to come: an update that overlaps the messages about the
\* one before (user_task blocked in a send) is not lost half-way.
ReportsCatchUp ==
  unreported \subseteq changed \/ flagged \/ pc["accel"] \in Updating

\* I2CSPM_Init, called without the mutex, has hit a transfer its caller waits
\* for: no interrupt will end it.
Wiped == bus = "active" /\ alive /\ ~ien

\* Every call of board_i2c0_transfer gives the mutex back, although it waits
\* for its result without a timeout, unless powering the other sensor has
\* wiped its transfer.
BusComesFree == mutex # "free" ~> mutex = "free" \/ Wiped

\* A full FIFO is read, unless an access of the INT1 branch fails.
FifoServed == fifo ~> ~fifo \/ failed \/ Wiped
=============================================================================
