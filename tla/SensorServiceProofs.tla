------------------------- MODULE SensorServiceProofs -------------------------
(***************************************************************************)
(* What SensorService promises, for every set of observed axes.            *)
(***************************************************************************)
EXTENDS SensorService, TLAPS

USE DEF Tasks, Axes

Started == {"tail", "receive", "finish"}
Holding == Started \cup {"init"}

-----------------------------------------------------------------------------
(* The bus.                                                                *)

\* The mutex and the place of its holder, the sequence of the driver and the
\* one result in the queue.
Holder ==
  /\ pc \in [Tasks -> Places] /\ res \in [Tasks -> Results]
  /\ mutex \in {"accel", "temp", "free"}
  /\ \A t \in Tasks : mutex = t => pc[t] \in Holding
  /\ \A t \in Tasks : pc[t] \in Holding => mutex = t
  /\ queue \in Results \cup {"empty"}
  /\ alive \in BOOLEAN /\ overtaken \in BOOLEAN
  /\ alive => mutex # "free" /\ pc[mutex] \in Started

\* What can be left over from another transfer is left over only after an
\* overtaking.
Leftover ==
  /\ queue \in Own =>
       bus = "done" /\ mutex # "free" /\ pc[mutex] \in Started
  /\ queue \in {"stale done", "stale error"} => overtaken
  /\ bus = "active" /\ ~alive => overtaken
  /\ \A t \in Tasks : pc[t] = "finish" =>
       \/ res[t] \in Own /\ queue = "empty" /\ bus # "active"
       \/ overtaken

BusInv == Holder /\ Leftover

\* Each step keeps the mutex, the sequence and the queue in agreement.
LEMMA BusInvKept == BusInv /\ [Next]_vars => BusInv'
<1> SUFFICES ASSUME BusInv, [Next]_vars PROVE BusInv'
  OBVIOUS
<1> USE DEF BusInv, Leftover, Holding, Started, Holder, Results, Own, Access,
        Goto, Got, Rest, SwFault, Places, Transferring, Updating, taskVars,
        busVars
<1>1. ASSUME NEW t \in Tasks, Lock(t) PROVE BusInv'
  BY <1>1 DEF Lock
<1>2. ASSUME NEW t \in Tasks, LockTimesOut(t) PROVE BusInv'
  BY <1>2 DEF LockTimesOut
<1>3. ASSUME NEW t \in Tasks, TransferInit(t) PROVE BusInv'
  BY <1>3 DEF TransferInit
<1>usage. ASSUME NEW t \in Tasks, UsageFault(t) PROVE BusInv'
  BY <1>usage DEF UsageFault
<1>4. ASSUME NEW t \in Tasks, InProgress(t) PROVE BusInv'
  BY <1>4 DEF InProgress
<1>5. ASSUME NEW t \in Tasks, Overtaken(t) PROVE BusInv'
  BY <1>5 DEF Overtaken
<1>6. ASSUME NEW t \in Tasks, Receive(t) PROVE BusInv'
  BY <1>6 DEF Receive
<1>7. ASSUME NEW t \in Tasks, Finish(t) PROVE BusInv'
  BY <1>7 DEF Finish, Stale, Ok
<1>8. ASSUME NEW t \in Tasks, PowerUp(t) PROVE BusInv'
  BY <1>8 DEF PowerUp
<1>9. ASSUME NEW t \in Tasks, SetUpMore(t) PROVE BusInv'
  BY <1>9 DEF SetUpMore
<1>10. ASSUME NEW t \in Tasks, SetUpEnds(t) PROVE BusInv'
  BY <1>10 DEF SetUpEnds
<1>11. CASE AccelTakes
  BY <1>11 DEF AccelTakes, Take
<1>12. CASE TempTakes
  BY <1>12 DEF TempTakes, Take
<1>13. CASE AccelGoesOn
  <2>1. CASE job["accel"] = "status"
    BY <1>13, <2>1 DEF AccelGoesOn
  <2>2. CASE job["accel"] = "config"
    BY <1>13, <2>2 DEF AccelGoesOn
  <2> QED
    BY <1>13, <2>1, <2>2 DEF AccelGoesOn
<1>14. CASE AccelGivesUp
  <2>1. CASE "timer" \in val["accel"]
    BY <1>14, <2>1 DEF AccelGivesUp, AfterInt1
  <2>2. CASE "timer" \notin val["accel"]
    BY <1>14, <2>2 DEF AccelGivesUp, AfterInt1
  <2> QED
    BY <2>1, <2>2
<1>15. CASE AccelComputes
  BY <1>15 DEF AccelComputes
<1>16. ASSUME NEW a \in Axes, UpdateAxis(a) PROVE BusInv'
  <2>1. CASE a = "x"
    BY <1>16, <2>1 DEF UpdateAxis
  <2>2. CASE a = "y"
    BY <1>16, <2>2 DEF UpdateAxis
  <2>3. CASE a = "z"
    BY <1>16, <2>3 DEF UpdateAxis
  <2> QED
    BY <2>1, <2>2, <2>3
<1>17. CASE AccelNotifies
  <2>1. CASE "timer" \in val["accel"]
    BY <1>17, <2>1 DEF AccelNotifies, AfterInt1
  <2>2. CASE "timer" \notin val["accel"]
    BY <1>17, <2>2 DEF AccelNotifies, AfterInt1
  <2> QED
    BY <2>1, <2>2
<1>18. CASE HeatRead
  BY <1>18 DEF HeatRead
<1>19. ASSUME NEW j \in {"mode", "data"}, ModeSet(j) PROVE BusInv'
  BY <1>19 DEF ModeSet
<1>20. CASE TempPublishes
  BY <1>20 DEF TempPublishes
<1>21. ASSUME NEW r \in Own, TransferEnds(r) PROVE BusInv'
  BY <1>21 DEF TransferEnds, Post, Stale, Ok
<1>22. CASE FifoFills
  BY <1>22 DEF FifoFills
<1>23. ASSUME NEW t \in Tasks, TimerFires(t) PROVE BusInv'
  BY <1>23 DEF TimerFires
<1>24. CASE ValuesChanged
  BY <1>24 DEF ValuesChanged
<1>25. ASSUME NEW a \in Axes, SendValue(a) PROVE BusInv'
  BY <1>25 DEF SendValue
<1>26. CASE UNCHANGED vars
  BY <1>26 DEF vars
<1>27. CASE sensor_task \/ bme280_task
  BY <1>27, <1>usage, <1>1, <1>2, <1>3, <1>4, <1>5, <1>6, <1>7, <1>8, <1>9, <1>10,
     <1>11, <1>12, <1>13, <1>14, <1>15, <1>16, <1>17, <1>18, <1>19, <1>20,
     Zenon
  DEF sensor_task, bme280_task, Transfer, SetUp
<1> QED
  BY <1>21, <1>22, <1>23, <1>24, <1>25, <1>26, <1>27, Zenon
  DEF Next, Interrupt

\* The bus invariant holds from the start.
LEMMA BusInvAlways == Spec => []BusInv
<1>1. Init => BusInv
  BY DEF Init, BusInv, Holder, Leftover, Holding, Started, Results, Own,
         Places, Transferring, Updating
<1> QED
  BY <1>1, BusInvKept, PTL DEF Spec

\* Without an overtaking, board_i2c0_transfer returns the result of its own
\* transfer, whatever transfers came before and whoever ran them.
THEOREM TransferGetsOwnResult == Spec => []OwnResult
<1>1. BusInv => OwnResult
  BY DEF BusInv, Leftover, OwnResult
<1> QED
  BY <1>1, BusInvAlways, PTL

\* Without an overtaking, the interrupt handler works on a sequence whose
\* owner waits for it.
THEOREM HandlerSequenceExists == Spec => []SequenceExists
<1>1. BusInv => SequenceExists
  BY DEF BusInv, Leftover, SequenceExists
<1> QED
  BY <1>1, BusInvAlways, PTL

-----------------------------------------------------------------------------
(* The reports.                                                            *)

\* Only observed axes wait for a report.
ClientInv == unreported \subseteq Observed /\ ReportsCatchUp

\* Each step keeps a report owed to the observers of an axis written.
LEMMA ClientInvKept == ClientInv /\ BusInv /\ [Next]_vars => ClientInv'
<1> SUFFICES ASSUME ClientInv, BusInv, [Next]_vars PROVE ClientInv'
  OBVIOUS
<1> USE DEF ClientInv, ReportsCatchUp, BusInv, Holder, Results, Own, Access,
        Goto, Got, Rest, SwFault, Places, Transferring, Updating, taskVars,
        busVars, clientVars
<1>1. ASSUME NEW t \in Tasks, Lock(t) PROVE ClientInv'
  BY <1>1 DEF Lock
<1>2. ASSUME NEW t \in Tasks, LockTimesOut(t) PROVE ClientInv'
  BY <1>2 DEF LockTimesOut
<1>3. ASSUME NEW t \in Tasks, TransferInit(t) PROVE ClientInv'
  BY <1>3 DEF TransferInit
<1>usage. ASSUME NEW t \in Tasks, UsageFault(t) PROVE ClientInv'
  BY <1>usage DEF UsageFault
<1>4. ASSUME NEW t \in Tasks, InProgress(t) PROVE ClientInv'
  BY <1>4 DEF InProgress
<1>5. ASSUME NEW t \in Tasks, Overtaken(t) PROVE ClientInv'
  BY <1>5 DEF Overtaken
<1>6. ASSUME NEW t \in Tasks, Receive(t) PROVE ClientInv'
  BY <1>6 DEF Receive
<1>7. ASSUME NEW t \in Tasks, Finish(t) PROVE ClientInv'
  BY <1>7 DEF Finish
<1>8. ASSUME NEW t \in Tasks, PowerUp(t) PROVE ClientInv'
  BY <1>8 DEF PowerUp
<1>9. ASSUME NEW t \in Tasks, SetUpMore(t) PROVE ClientInv'
  BY <1>9 DEF SetUpMore
<1>10. ASSUME NEW t \in Tasks, SetUpEnds(t) PROVE ClientInv'
  BY <1>10 DEF SetUpEnds
<1>11. CASE AccelTakes
  BY <1>11 DEF AccelTakes, Take
<1>12. CASE TempTakes
  BY <1>12 DEF TempTakes, Take
<1>13. CASE AccelGoesOn
  <2>1. CASE job["accel"] = "status"
    BY <1>13, <2>1 DEF AccelGoesOn
  <2>2. CASE job["accel"] = "config"
    BY <1>13, <2>2 DEF AccelGoesOn
  <2> QED
    BY <1>13, <2>1, <2>2 DEF AccelGoesOn
<1>14. CASE AccelGivesUp
  <2>1. CASE "timer" \in val["accel"]
    BY <1>14, <2>1 DEF AccelGivesUp, AfterInt1
  <2>2. CASE "timer" \notin val["accel"]
    BY <1>14, <2>2 DEF AccelGivesUp, AfterInt1
  <2> QED
    BY <2>1, <2>2
<1>15. CASE AccelComputes
  BY <1>15 DEF AccelComputes
<1>16. ASSUME NEW a \in Axes, UpdateAxis(a) PROVE ClientInv'
  <2>1. CASE a = "x"
    BY <1>16, <2>1 DEF UpdateAxis
  <2>2. CASE a = "y"
    BY <1>16, <2>2 DEF UpdateAxis
  <2>3. CASE a = "z"
    BY <1>16, <2>3 DEF UpdateAxis
  <2> QED
    BY <2>1, <2>2, <2>3
<1>17. CASE AccelNotifies
  <2>1. CASE "timer" \in val["accel"]
    BY <1>17, <2>1 DEF AccelNotifies, AfterInt1
  <2>2. CASE "timer" \notin val["accel"]
    BY <1>17, <2>2 DEF AccelNotifies, AfterInt1
  <2> QED
    BY <2>1, <2>2
<1>18. CASE HeatRead
  BY <1>18 DEF HeatRead
<1>19. ASSUME NEW j \in {"mode", "data"}, ModeSet(j) PROVE ClientInv'
  BY <1>19 DEF ModeSet
<1>20. CASE TempPublishes
  BY <1>20 DEF TempPublishes
<1>21. ASSUME NEW r \in Own, TransferEnds(r) PROVE ClientInv'
  BY <1>21 DEF TransferEnds, Post
<1>22. CASE FifoFills
  BY <1>22 DEF FifoFills
<1>23. ASSUME NEW t \in Tasks, TimerFires(t) PROVE ClientInv'
  BY <1>23 DEF TimerFires
<1>24. CASE ValuesChanged
  BY <1>24, SensorAssumption DEF ValuesChanged, Watched
<1>25. ASSUME NEW a \in Axes, SendValue(a) PROVE ClientInv'
  BY <1>25 DEF SendValue
<1>26. CASE UNCHANGED vars
  BY <1>26 DEF vars
<1>27. CASE sensor_task \/ bme280_task
  BY <1>27, <1>usage, <1>1, <1>2, <1>3, <1>4, <1>5, <1>6, <1>7, <1>8, <1>9, <1>10,
     <1>11, <1>12, <1>13, <1>14, <1>15, <1>16, <1>17, <1>18, <1>19, <1>20,
     Zenon
  DEF sensor_task, bme280_task, Transfer, SetUp
<1> QED
  BY <1>21, <1>22, <1>23, <1>24, <1>25, <1>26, <1>27, Zenon
  DEF Next, Interrupt

\* No update of an axis is lost to its observers, however the writes of
\* sensor_task, its notification and the messages of user_task interleave.
THEOREM ObserversCatchUp == Spec => []ReportsCatchUp
<1>1. Init => ClientInv
  BY DEF Init, ClientInv, ReportsCatchUp
<1>2. ClientInv => ReportsCatchUp
  BY DEF ClientInv
<1> QED
  BY <1>1, <1>2, ClientInvKept, BusInvAlways, PTL DEF Spec

-----------------------------------------------------------------------------
(* The full FIFO.                                                          *)

Int1Branch == {"status", "config", "fifo"}

\* The locals of sensor_task agree with its place.
Branch ==
  /\ job \in [Tasks -> Jobs]
  /\ bits \in [Tasks -> SUBSET {"timer", "int1"}]
  /\ val \in [Tasks -> SUBSET {"timer", "int1"}]
  /\ job["accel"] \in Int1Branch => "int1" \in val["accel"]
  /\ pc["accel"] = "wait" => job["accel"] = "none"
  /\ pc["accel"] = "power" => job["accel"] = "setup"
  /\ pc["accel"] \in Updating \cup {"x"} => job["accel"] = "fifo"

\* The result of the FIFO's own read is on its way to sensor_task, or there.
Read ==
  \/ pc["accel"] \in Updating \cup {"x"}
  \/ pc["accel"] \in {"finish", "return"} /\ res["accel"] = "done"
  \/ mutex = "accel" /\ queue = "done"

\* A FIFO that is full again after its read has raised INT1 again.
EdgeInv ==
  /\ Branch
  /\ fifo \in BOOLEAN /\ failed \in BOOLEAN
  /\ EdgeNotLost
  /\ fifo /\ job["accel"] = "fifo" /\ Read =>
       "int1" \in bits["accel"] \/ failed

\* Each step keeps the edge of INT1, the bits and the branch in agreement.
LEMMA EdgeInvKept == EdgeInv /\ BusInv /\ [Next]_vars => EdgeInv'
<1> SUFFICES ASSUME EdgeInv, BusInv, [Next]_vars PROVE EdgeInv'
  OBVIOUS
<1> USE DEF EdgeInv, Branch, Int1Branch, Read, EdgeNotLost, Jobs, BusInv,
        Leftover, Holding, Started, Holder, Results, Own, Access, Goto, Got,
        Rest, SwFault, Places, Transferring, Updating, taskVars, busVars,
        sensorVars
<1>1. ASSUME NEW t \in Tasks, Lock(t) PROVE EdgeInv'
  BY <1>1 DEF Lock
<1>2. ASSUME NEW t \in Tasks, LockTimesOut(t) PROVE EdgeInv'
  BY <1>2 DEF LockTimesOut
<1>3. ASSUME NEW t \in Tasks, TransferInit(t) PROVE EdgeInv'
  BY <1>3 DEF TransferInit
<1>usage. ASSUME NEW t \in Tasks, UsageFault(t) PROVE EdgeInv'
  BY <1>usage DEF UsageFault
<1>4. ASSUME NEW t \in Tasks, InProgress(t) PROVE EdgeInv'
  BY <1>4 DEF InProgress
<1>5. ASSUME NEW t \in Tasks, Overtaken(t) PROVE EdgeInv'
  BY <1>5 DEF Overtaken
<1>6. ASSUME NEW t \in Tasks, Receive(t) PROVE EdgeInv'
  BY <1>6 DEF Receive
<1>7. ASSUME NEW t \in Tasks, Finish(t) PROVE EdgeInv'
  BY <1>7 DEF Finish
<1>8. ASSUME NEW t \in Tasks, PowerUp(t) PROVE EdgeInv'
  BY <1>8 DEF PowerUp
<1>9. ASSUME NEW t \in Tasks, SetUpMore(t) PROVE EdgeInv'
  BY <1>9 DEF SetUpMore
<1>10. ASSUME NEW t \in Tasks, SetUpEnds(t) PROVE EdgeInv'
  BY <1>10 DEF SetUpEnds
<1>11. CASE AccelTakes
  BY <1>11 DEF AccelTakes, Take
<1>12. CASE TempTakes
  BY <1>12 DEF TempTakes, Take
<1>13. CASE AccelGoesOn
  <2>1. CASE job["accel"] = "status"
    <3>1. Branch'
      <4>1. job' = [job EXCEPT !["accel"] = "config"] /\ bits' = bits
        BY <1>13, <2>1 DEF AccelGoesOn, NoteFailure
      <4>2. pc' = [pc EXCEPT !["accel"] = "lock"]
        BY <1>13, <2>1 DEF AccelGoesOn, NoteFailure
      <4>3. val' = val
        BY <1>13, <2>1 DEF AccelGoesOn, NoteFailure
      <4> QED
        BY <4>1, <4>2, <4>3, <2>1
    <3>2. fifo' \in BOOLEAN /\ failed' \in BOOLEAN
      BY <1>13, <2>1 DEF AccelGoesOn, NoteFailure
    <3>3. EdgeNotLost'
      BY <1>13, <2>1 DEF AccelGoesOn, NoteFailure
    <3>4. (fifo /\ job["accel"] = "fifo" /\ Read =>
             "int1" \in bits["accel"] \/ failed)'
      BY <1>13, <2>1 DEF AccelGoesOn, NoteFailure
    <3> QED
      BY <3>1, <3>2, <3>3, <3>4 DEF EdgeInv
  <2>2. CASE job["accel"] = "config"
    <3>1. Branch'
      <4>1. job' = [job EXCEPT !["accel"] = "fifo"] /\ bits' = bits
        BY <1>13, <2>2 DEF AccelGoesOn, NoteFailure
      <4>2. pc' = [pc EXCEPT !["accel"] = "lock"]
        BY <1>13, <2>2 DEF AccelGoesOn, NoteFailure
      <4>3. val' = val
        BY <1>13, <2>2 DEF AccelGoesOn, NoteFailure
      <4> QED
        BY <4>1, <4>2, <4>3, <2>2
    <3>2. fifo' \in BOOLEAN /\ failed' \in BOOLEAN
      BY <1>13, <2>2 DEF AccelGoesOn, NoteFailure
    <3>3. EdgeNotLost'
      BY <1>13, <2>2 DEF AccelGoesOn, NoteFailure
    <3>4. (fifo /\ job["accel"] = "fifo" /\ Read =>
             "int1" \in bits["accel"] \/ failed)'
      BY <1>13, <2>2 DEF AccelGoesOn, NoteFailure
    <3> QED
      BY <3>1, <3>2, <3>3, <3>4 DEF EdgeInv
  <2> QED
    BY <1>13, <2>1, <2>2 DEF AccelGoesOn
<1>14. CASE AccelGivesUp
  <2>1. CASE "timer" \in val["accel"]
    <3>1. Branch'
      <4>1. job' = [job EXCEPT !["accel"] = "heat"] /\ bits' = bits
        BY <1>14, <2>1 DEF AccelGivesUp, AfterInt1, NoteFailure
      <4>2. pc' = [pc EXCEPT !["accel"] = "lock"]
        BY <1>14, <2>1 DEF AccelGivesUp, AfterInt1, NoteFailure
      <4>3. val' = val
        BY <1>14, <2>1 DEF AccelGivesUp, AfterInt1, NoteFailure
      <4> QED
        BY <4>1, <4>2, <4>3
    <3>2. fifo' \in BOOLEAN /\ failed' \in BOOLEAN
      BY <1>14, <2>1 DEF AccelGivesUp, AfterInt1, NoteFailure
    <3>3. EdgeNotLost'
      BY <1>14, <2>1 DEF AccelGivesUp, AfterInt1, NoteFailure
    <3>4. (fifo /\ job["accel"] = "fifo" /\ Read =>
             "int1" \in bits["accel"] \/ failed)'
      BY <1>14, <2>1 DEF AccelGivesUp, AfterInt1, NoteFailure
    <3> QED
      BY <3>1, <3>2, <3>3, <3>4 DEF EdgeInv
  <2>2. CASE "timer" \notin val["accel"]
    <3>1. Branch'
      <4>1. job' = [job EXCEPT !["accel"] = "none"] /\ bits' = bits
        BY <1>14, <2>2 DEF AccelGivesUp, AfterInt1, NoteFailure
      <4>2. pc' = [pc EXCEPT !["accel"] = "wait"]
        BY <1>14, <2>2 DEF AccelGivesUp, AfterInt1, NoteFailure
      <4>3. val' = [val EXCEPT !["accel"] = {}]
        BY <1>14, <2>2 DEF AccelGivesUp, AfterInt1, NoteFailure
      <4> QED
        BY <4>1, <4>2, <4>3
    <3>2. fifo' \in BOOLEAN /\ failed' \in BOOLEAN
      BY <1>14, <2>2 DEF AccelGivesUp, AfterInt1, NoteFailure
    <3>3. EdgeNotLost'
      BY <1>14, <2>2 DEF AccelGivesUp, AfterInt1, NoteFailure
    <3>4. (fifo /\ job["accel"] = "fifo" /\ Read =>
             "int1" \in bits["accel"] \/ failed)'
      BY <1>14, <2>2 DEF AccelGivesUp, AfterInt1, NoteFailure
    <3> QED
      BY <3>1, <3>2, <3>3, <3>4 DEF EdgeInv
  <2> QED
    BY <2>1, <2>2
<1>15. CASE AccelComputes
  BY <1>15 DEF AccelComputes, NoteFailure, Ok
<1>16. ASSUME NEW a \in Axes, UpdateAxis(a) PROVE EdgeInv'
  <2>1. CASE a = "x"
    BY <1>16, <2>1 DEF UpdateAxis
  <2>2. CASE a = "y"
    BY <1>16, <2>2 DEF UpdateAxis
  <2>3. CASE a = "z"
    BY <1>16, <2>3 DEF UpdateAxis
  <2> QED
    BY <2>1, <2>2, <2>3
<1>17. CASE AccelNotifies
  <2>1. CASE "timer" \in val["accel"]
    <3>1. Branch'
      <4>1. job' = [job EXCEPT !["accel"] = "heat"] /\ bits' = bits
        BY <1>17, <2>1 DEF AccelNotifies, AfterInt1
      <4>2. pc' = [pc EXCEPT !["accel"] = "lock"]
        BY <1>17, <2>1 DEF AccelNotifies, AfterInt1
      <4>3. val' = val
        BY <1>17, <2>1 DEF AccelNotifies, AfterInt1
      <4> QED
        BY <4>1, <4>2, <4>3
    <3>2. fifo' \in BOOLEAN /\ failed' \in BOOLEAN
      BY <1>17, <2>1 DEF AccelNotifies, AfterInt1
    <3>3. EdgeNotLost'
      BY <1>17, <2>1 DEF AccelNotifies, AfterInt1
    <3>4. (fifo /\ job["accel"] = "fifo" /\ Read =>
             "int1" \in bits["accel"] \/ failed)'
      BY <1>17, <2>1 DEF AccelNotifies, AfterInt1
    <3> QED
      BY <3>1, <3>2, <3>3, <3>4 DEF EdgeInv
  <2>2. CASE "timer" \notin val["accel"]
    <3>1. Branch'
      <4>1. job' = [job EXCEPT !["accel"] = "none"] /\ bits' = bits
        BY <1>17, <2>2 DEF AccelNotifies, AfterInt1
      <4>2. pc' = [pc EXCEPT !["accel"] = "wait"]
        BY <1>17, <2>2 DEF AccelNotifies, AfterInt1
      <4>3. val' = [val EXCEPT !["accel"] = {}]
        BY <1>17, <2>2 DEF AccelNotifies, AfterInt1
      <4> QED
        BY <4>1, <4>2, <4>3
    <3>2. fifo' \in BOOLEAN /\ failed' \in BOOLEAN
      BY <1>17, <2>2 DEF AccelNotifies, AfterInt1
    <3>3. EdgeNotLost'
      BY <1>17, <2>2 DEF AccelNotifies, AfterInt1
    <3>4. (fifo /\ job["accel"] = "fifo" /\ Read =>
             "int1" \in bits["accel"] \/ failed)'
      BY <1>17, <2>2 DEF AccelNotifies, AfterInt1
    <3> QED
      BY <3>1, <3>2, <3>3, <3>4 DEF EdgeInv
  <2> QED
    BY <2>1, <2>2
<1>18. CASE HeatRead
  BY <1>18 DEF HeatRead
<1>19. ASSUME NEW j \in {"mode", "data"}, ModeSet(j) PROVE EdgeInv'
  BY <1>19 DEF ModeSet
<1>20. CASE TempPublishes
  BY <1>20 DEF TempPublishes
<1>21. ASSUME NEW r \in Own, TransferEnds(r) PROVE EdgeInv'
  BY <1>21 DEF TransferEnds, Post, Stale, Ok
<1>22. CASE FifoFills
  BY <1>22 DEF FifoFills, Notify
<1>23. ASSUME NEW t \in Tasks, TimerFires(t) PROVE EdgeInv'
  BY <1>23 DEF TimerFires, Notify
<1>24. CASE ValuesChanged
  BY <1>24 DEF ValuesChanged
<1>25. ASSUME NEW a \in Axes, SendValue(a) PROVE EdgeInv'
  BY <1>25 DEF SendValue
<1>26. CASE UNCHANGED vars
  BY <1>26 DEF vars
<1>27. CASE sensor_task \/ bme280_task
  BY <1>27, <1>usage, <1>1, <1>2, <1>3, <1>4, <1>5, <1>6, <1>7, <1>8, <1>9, <1>10,
     <1>11, <1>12, <1>13, <1>14, <1>15, <1>16, <1>17, <1>18, <1>19, <1>20,
     Zenon
  DEF sensor_task, bme280_task, Transfer, SetUp
<1> QED
  BY <1>21, <1>22, <1>23, <1>24, <1>25, <1>26, <1>27, Zenon
  DEF Next, Interrupt

\* A full FIFO is never forgotten: one edge, one shared notification word and
\* a task that may be busy are enough as long as no access fails.
THEOREM FullFifoNotForgotten == Spec => []EdgeNotLost
<1>1. Init => EdgeInv
  BY DEF Init, EdgeInv, Branch, Int1Branch, Read, EdgeNotLost, Jobs, Updating
<1>2. EdgeInv => EdgeNotLost
  BY DEF EdgeInv
<1> QED
  BY <1>1, <1>2, EdgeInvKept, BusInvAlways, PTL DEF Spec

-----------------------------------------------------------------------------
(* Types.                                                                  *)

\* The rest of the state, of which the invariants above say nothing.
FlagTypes ==
  /\ irq \in BOOLEAN /\ ien \in BOOLEAN /\ bus \in {"idle", "active", "done"}
  /\ configured \in BOOLEAN /\ flagged \in BOOLEAN
  /\ changed \in SUBSET Axes /\ unreported \in SUBSET Axes

\* Each step keeps them in their types.
LEMMA FlagTypesKept == FlagTypes /\ [Next]_vars => FlagTypes'
<1> SUFFICES ASSUME FlagTypes, [Next]_vars PROVE FlagTypes'
  OBVIOUS
<1> USE DEF FlagTypes, taskVars, busVars, sensorVars, clientVars
<1>1. ASSUME NEW t \in Tasks, Lock(t) PROVE FlagTypes'
  BY <1>1 DEF Lock
<1>2. ASSUME NEW t \in Tasks, LockTimesOut(t) PROVE FlagTypes'
  BY <1>2 DEF LockTimesOut
<1>3. ASSUME NEW t \in Tasks, TransferInit(t) PROVE FlagTypes'
  BY <1>3 DEF TransferInit
<1>usage. ASSUME NEW t \in Tasks, UsageFault(t) PROVE FlagTypes'
  BY <1>usage DEF UsageFault
<1>4. ASSUME NEW t \in Tasks, InProgress(t) PROVE FlagTypes'
  BY <1>4 DEF InProgress
<1>5. ASSUME NEW t \in Tasks, Overtaken(t) PROVE FlagTypes'
  BY <1>5 DEF Overtaken
<1>6. ASSUME NEW t \in Tasks, Receive(t) PROVE FlagTypes'
  BY <1>6 DEF Receive
<1>7. ASSUME NEW t \in Tasks, Finish(t) PROVE FlagTypes'
  BY <1>7 DEF Finish
<1>8. ASSUME NEW t \in Tasks, PowerUp(t) PROVE FlagTypes'
  BY <1>8 DEF PowerUp
<1>9. ASSUME NEW t \in Tasks, SetUpMore(t) PROVE FlagTypes'
  BY <1>9 DEF SetUpMore
<1>10. ASSUME NEW t \in Tasks, SetUpEnds(t) PROVE FlagTypes'
  BY <1>10 DEF SetUpEnds
<1>11. CASE AccelTakes
  BY <1>11 DEF AccelTakes, Take
<1>12. CASE TempTakes
  BY <1>12 DEF TempTakes, Take
<1>13. CASE AccelGoesOn
  <2>1. CASE job["accel"] = "status"
    BY <1>13, <2>1 DEF AccelGoesOn
  <2>2. CASE job["accel"] = "config"
    BY <1>13, <2>2 DEF AccelGoesOn
  <2> QED
    BY <1>13, <2>1, <2>2 DEF AccelGoesOn
<1>14. CASE AccelGivesUp
  <2>1. CASE "timer" \in val["accel"]
    BY <1>14, <2>1 DEF AccelGivesUp, AfterInt1
  <2>2. CASE "timer" \notin val["accel"]
    BY <1>14, <2>2 DEF AccelGivesUp, AfterInt1
  <2> QED
    BY <2>1, <2>2
<1>15. CASE AccelComputes
  BY <1>15 DEF AccelComputes
<1>16. ASSUME NEW a \in Axes, UpdateAxis(a) PROVE FlagTypes'
  <2>1. CASE a = "x"
    BY <1>16, <2>1 DEF UpdateAxis
  <2>2. CASE a = "y"
    BY <1>16, <2>2 DEF UpdateAxis
  <2>3. CASE a = "z"
    BY <1>16, <2>3 DEF UpdateAxis
  <2> QED
    BY <2>1, <2>2, <2>3
<1>17. CASE AccelNotifies
  <2>1. CASE "timer" \in val["accel"]
    BY <1>17, <2>1 DEF AccelNotifies, AfterInt1
  <2>2. CASE "timer" \notin val["accel"]
    BY <1>17, <2>2 DEF AccelNotifies, AfterInt1
  <2> QED
    BY <2>1, <2>2
<1>18. CASE HeatRead
  BY <1>18 DEF HeatRead
<1>19. ASSUME NEW j \in {"mode", "data"}, ModeSet(j) PROVE FlagTypes'
  BY <1>19 DEF ModeSet
<1>20. CASE TempPublishes
  BY <1>20 DEF TempPublishes
<1>21. ASSUME NEW r \in Own, TransferEnds(r) PROVE FlagTypes'
  BY <1>21 DEF TransferEnds, Post
<1>22. CASE FifoFills
  BY <1>22 DEF FifoFills
<1>23. ASSUME NEW t \in Tasks, TimerFires(t) PROVE FlagTypes'
  BY <1>23 DEF TimerFires
<1>24. CASE ValuesChanged
  BY <1>24 DEF ValuesChanged, Watched
<1>25. ASSUME NEW a \in Axes, SendValue(a) PROVE FlagTypes'
  BY <1>25 DEF SendValue
<1>26. CASE UNCHANGED vars
  BY <1>26 DEF vars
<1>27. CASE sensor_task \/ bme280_task
  BY <1>27, <1>usage, <1>1, <1>2, <1>3, <1>4, <1>5, <1>6, <1>7, <1>8, <1>9, <1>10,
     <1>11, <1>12, <1>13, <1>14, <1>15, <1>16, <1>17, <1>18, <1>19, <1>20,
     Zenon
  DEF sensor_task, bme280_task, Transfer, SetUp
<1> QED
  BY <1>21, <1>22, <1>23, <1>24, <1>25, <1>26, <1>27, Zenon
  DEF Next, Interrupt

\* Every variable keeps its type.
THEOREM SensorTypes == Spec => []TypeOK
<1>1. Init => FlagTypes /\ EdgeInv
  BY DEF Init, FlagTypes, EdgeInv, Branch, Int1Branch, Read, EdgeNotLost,
         Jobs, Updating
<1>2. BusInv /\ EdgeInv /\ FlagTypes => TypeOK
  BY DEF BusInv, Holder, EdgeInv, Branch, FlagTypes, TypeOK
<1> QED
  BY <1>1, <1>2, BusInvAlways, EdgeInvKept, FlagTypesKept, PTL DEF Spec
=============================================================================
