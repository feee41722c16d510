------------------------ MODULE SelectMediatorProofs ------------------------
(***************************************************************************)
(* Proofs about SelectMediator, for every set of socket contexts,          *)
(* descriptors and timeouts.                                               *)
(***************************************************************************)
EXTENDS SelectMediator, TLAPS

\* Seconds in ticks are added and ordered like the seconds themselves.
LEMMA TicksAdd ==
  \A a, b \in Nat : Ticks(a + b) = Ticks(a) + Ticks(b)
  BY MediatorAssumption DEF Ticks

\* More seconds are more ticks.
LEMMA TicksGrow ==
  \A a, b \in Nat : a <= b => Ticks(a) <= Ticks(b)
  BY MediatorAssumption DEF Ticks

\* A number of seconds is a number of ticks, and one more is Parts more.
LEMMA TicksNat ==
  \A a \in Nat : Ticks(a) \in Nat /\ Ticks(a + 1) = Ticks(a) + Parts
  BY MediatorAssumption DEF Ticks

\* The instant is a natural number, before the end of the second it is in.
LEMMA InstantFacts ==
  TypeOK => Instant \in Nat /\ Instant < Ticks(now + 1)
<1> SUFFICES ASSUME TypeOK PROVE Instant \in Nat /\ Instant < Ticks(now + 1)
  OBVIOUS
<1>1. now \in Nat /\ part \in Nat /\ part < Parts
  BY MediatorAssumption DEF TypeOK
<1>2. QED
  BY <1>1, TicksNat, MediatorAssumption DEF Instant

\* The initial state has the right types.
LEMMA InitTypeOK == Init => TypeOK
<1> USE MediatorAssumption
<1> SUFFICES ASSUME Init PROVE TypeOK
  OBVIOUS
<1>1. /\ sd \in [Ids -> Sds \cup {NoSd}]
      /\ mutex \in Tasks \cup {Nobody}
      /\ suspended \subseteq Tasks
  BY DEF Init
<1>2. /\ deadline \in [Dirs -> [Ids -> Nat]]
      /\ signal \in [Dirs -> SUBSET Ids]
  BY DEF Init
<1>3. /\ fds \in [Dirs -> SUBSET Sds]
      /\ ready \in [Dirs -> SUBSET Sds]
  BY DEF Init
<1>4. NoCall \in [dir : Dirs, timeout : Nat]
  BY DEF NoCall, Dirs
<1>5. /\ call \in [Ids -> [dir : Dirs, timeout : Nat]]
      /\ left \in [Ids -> Nat]
      /\ regAt \in [Ids -> Nat]
  BY <1>4 DEF Init
<1>6. /\ pc \in [Ids -> WaiterPcs]
      /\ fate \in [Ids -> Fates]
      /\ rc \in [Ids -> Results]
      /\ spc \in SelectPcs
  BY DEF Init, WaiterPcs, Fates, Results, SelectPcs
<1>7. /\ cur \in Nat /\ stimer \in Nat /\ now \in Nat /\ clockSets \in Nat
      /\ notified \in BOOLEAN /\ halted \in BOOLEAN
  BY DEF Init
<1>8. part \in 0..(Parts - 1)
  BY DEF Init
<1>9. QED
  BY <1>8, <1>1, <1>2, <1>3, <1>5, <1>6, <1>7 DEF TypeOK

\* A watchdog reset (main.c, board_watchdog.c) leads back to the initial state.
LEMMA ResetIsInit == WatchdogReset => Init'
  BY DEF WatchdogReset, Init

\* So a watchdog reset keeps the types.
LEMMA ResetTypeOK == WatchdogReset => TypeOK'
  BY ResetIsInit, InitTypeOK, PTL

\* Every variable keeps its type: in particular the mutex always has at most
\* one holder among the tasks and the deadlines stay natural numbers.
THEOREM TypeCorrect == Spec => []TypeOK
<1> USE MediatorAssumption
<1>1. Init => TypeOK
  BY InitTypeOK
<1>2. TypeOK /\ [Next]_vars => TypeOK'
  <2> SUFFICES ASSUME TypeOK, [Next]_vars PROVE TypeOK'
    OBVIOUS
  <2> USE DEF TypeOK, Goto, SelectGoto, Running, envVars, selectVars,
              waiterVars
  <2>1. ASSUME NEW i \in Ids, Waiter(i) PROVE TypeOK'
    <3>1. CASE TakeMutex(i)
      BY <3>1 DEF TakeMutex, WaiterPcs, Tasks
    <3>2. CASE Register(i)
      <4>1. Instant \in Nat
        BY InstantFacts
      <4>2. QED
        BY <3>2, <4>1 DEF Register, WaiterPcs, Tasks, Fates
    <3>3. CASE Drain(i)
      BY <3>3 DEF Drain, WaiterPcs, Fates
    <3>4. CASE Notify(i)
      <4>1. Ticks(call[i].timeout + 2) \in Nat
        BY TicksNat
      <4>2. QED
        BY <3>4, <4>1 DEF Notify, WaiterPcs
    <3>5. CASE ReturnOk(i)
      BY <3>5 DEF ReturnOk, Leave, NoCall, WaiterPcs, Fates, Results, Dirs
    <3>6. CASE ReturnTimeout(i)
      BY <3>6 DEF ReturnTimeout, Leave, NoCall, WaiterPcs, Fates, Results,
                  Dirs
    <3>7. QED
      BY <2>1, <3>1, <3>2, <3>3, <3>4, <3>5, <3>6 DEF Waiter
  <2>2. ASSUME NEW i \in Ids, NEW d \in Dirs, NEW t \in Timeouts,
               Enqueue(i, d, t)
        PROVE TypeOK'
    BY <2>2 DEF Enqueue, WaiterPcs, Results
  <2>3. CASE SelectStep
    <3>1. CASE ReadClock
      BY <3>1 DEF ReadClock, SelectPcs
    <3>2. CASE SelectTakeMutex("lock", "scan")
      BY <3>2 DEF SelectTakeMutex, SelectPcs, Tasks
    <3>3. CASE SelectTakeMutex("relock", "publish_rx")
      BY <3>3 DEF SelectTakeMutex, SelectPcs, Tasks
    <3>4. CASE Scan
      <4>1. fds' \in [Dirs -> SUBSET Sds]
        BY <3>4 DEF Scan, Watched, Armed, Scanned
      <4>2. deadline' \in [Dirs -> [Ids -> Nat]]
        BY <3>4 DEF Scan
      <4>3. fate' \in [Ids -> Fates]
        BY <3>4 DEF Scan, Fates
      <4>4. stimer' \in Nat
        BY <3>4, TicksNat DEF Scan
      <4>5. QED
        BY <3>4, <4>1, <4>2, <4>3, <4>4 DEF Scan, SelectPcs
    <3>5. CASE SelectReady
      BY <3>5 DEF SelectReady, SelectPcs, Reported
    <3>6. CASE SelectNothing
      BY <3>6 DEF SelectNothing, SelectPcs, NoFds
    <3>7. CASE PublishRx
      BY <3>7 DEF PublishRx, SelectPcs, Fates, Dirs
    <3>8. CASE PublishTxNone
      BY <3>8 DEF PublishTxNone, SelectPcs, NoFds
    <3>9. ASSUME NEW i \in Ids, PublishTx(i) PROVE TypeOK'
      BY <3>9 DEF PublishTx, Fates, Dirs
    <3>10. CASE NotifyWait
      BY <3>10 DEF NotifyWait, SelectPcs
    <3>11. QED
      BY <2>3, <3>1, <3>2, <3>3, <3>4, <3>5, <3>6, <3>7, <3>8, <3>9, <3>10
         DEF SelectStep
  <2>4. CASE Environment
    <3>1. CASE Disconnected
      BY <3>1 DEF Disconnected
    <3>2. CASE IpAcquired
      BY <3>2 DEF IpAcquired, SelectPcs
    <3>3. CASE TimeSynced
      BY <3>3 DEF TimeSynced
    <3>4. ASSUME NEW s \in Sds, OpenSocket(s) PROVE TypeOK'
      BY <3>4 DEF OpenSocket
    <3>5. CASE CloseSocket
      BY <3>5 DEF CloseSocket
    <3>6. ASSUME NEW d \in Dirs, UseSocket(d) PROVE TypeOK'
      BY <3>6 DEF UseSocket
    <3>7. ASSUME NEW d \in Dirs, BecomesReady(d) PROVE TypeOK'
      BY <3>7 DEF BecomesReady
    <3>8. CASE Tick
      <4>1. now' \in Nat /\ part' \in 0..(Parts - 1) /\ stimer' \in Nat
        BY <3>8 DEF Tick, Less
      <4>2. left' \in [Ids -> Nat]
        <5>1. \A n \in Nat : Less(n) \in Nat
          BY DEF Less
        <5>2. QED
          BY <3>8, <5>1 DEF Tick
      <4>3. QED
        BY <3>8, <4>1, <4>2 DEF Tick
    <3>9. ASSUME NEW t \in 1..MaxTime, SetClock(t) PROVE TypeOK'
      BY <3>9 DEF SetClock
    <3>10. CASE WatchdogReset
      BY <3>10, ResetTypeOK
    <3>11. QED
      BY <2>4, <3>1, <3>2, <3>3, <3>4, <3>5, <3>6, <3>7, <3>8, <3>9, <3>10
         DEF Environment
  <2>idle. CASE UNCHANGED vars
    BY <2>idle DEF vars
  <2> QED
    BY <2>idle, <2>1, <2>2, <2>3, <2>4 DEF Next
<1>3. QED
  BY <1>1, <1>2, PTL DEF Spec

-----------------------------------------------------------------------------
(* The registration protocol.  Most steps leave the table of registrations *)
(* and the callers alone; the others are named one by one.                 *)

table == <<deadline, signal, pc, call, rc, fate, regAt, halted>>

\* What a step may do to the registrations.
LEMMA StepCases ==
  [Next]_vars =>
    \/ \E i \in Ids : Waiter(i)
    \/ \E i \in Ids, d \in Dirs, t \in Timeouts : Enqueue(i, d, t)
    \/ Scan \/ PublishRx
    \/ \E i \in Ids : PublishTx(i)
    \/ WatchdogReset
    \/ UNCHANGED table
<1> SUFFICES ASSUME [Next]_vars,
                    ~ \E i \in Ids : Waiter(i),
                    ~ \E i \in Ids, d \in Dirs, t \in Timeouts :
                         Enqueue(i, d, t),
                    ~Scan, ~PublishRx,
                    ~ \E i \in Ids : PublishTx(i),
                    ~WatchdogReset
             PROVE  UNCHANGED table
  OBVIOUS
<1> USE DEF table, waiterVars
<1>1. CASE SelectStep
  BY <1>1 DEF SelectStep, ReadClock, SelectTakeMutex, SelectReady,
              SelectNothing, PublishTxNone, NotifyWait
<1>2. CASE Environment
  BY <1>2 DEF Environment, Disconnected, IpAcquired, TimeSynced, OpenSocket,
              CloseSocket, UseSocket, BecomesReady, Tick, SetClock
<1>3. CASE UNCHANGED vars
  BY <1>3 DEF vars
<1>4. QED
  BY <1>1, <1>2, <1>3 DEF Next

\* A given semaphore has used up its registration, for every number of
\* contexts and whatever order the tasks run in.
THEOREM WakeUpsUsedOnce == Spec => []WakeUsesUpRegistration
<1> USE MediatorAssumption
<1>1. Init => WakeUsesUpRegistration
  BY DEF Init, WakeUsesUpRegistration
<1>2. TypeOK /\ WakeUsesUpRegistration /\ [Next]_vars
        => WakeUsesUpRegistration'
  <2> SUFFICES ASSUME TypeOK, WakeUsesUpRegistration, [Next]_vars,
                      NEW d \in Dirs, NEW i \in Ids
               PROVE  (i \in signal[d] => \/ deadline[d][i] = 0
                                          \/ pc[i] = "drain" /\ call[i].dir = d)'
    BY DEF WakeUsesUpRegistration
  <2> USE DEF TypeOK, WakeUsesUpRegistration, Goto, SelectGoto, Running
  <2>1. ASSUME NEW j \in Ids, Waiter(j)
        PROVE  (i \in signal[d] => \/ deadline[d][i] = 0
                                   \/ pc[i] = "drain" /\ call[i].dir = d)'
    <3>1. CASE TakeMutex(j)
      BY <3>1 DEF TakeMutex
    <3>2. CASE Register(j)
      BY <3>2 DEF Register
    <3>3. CASE Drain(j)
      BY <3>3 DEF Drain
    <3>4. CASE Notify(j)
      BY <3>4 DEF Notify
    <3>5. CASE ReturnOk(j)
      BY <3>5 DEF ReturnOk, Leave
    <3>6. CASE ReturnTimeout(j)
      BY <3>6 DEF ReturnTimeout, Leave
    <3>7. QED
      BY <2>1, <3>1, <3>2, <3>3, <3>4, <3>5, <3>6 DEF Waiter
  <2>2. ASSUME NEW j \in Ids, NEW e \in Dirs, NEW t \in Timeouts,
               Enqueue(j, e, t)
        PROVE  (i \in signal[d] => \/ deadline[d][i] = 0
                                   \/ pc[i] = "drain" /\ call[i].dir = d)'
    BY <2>2 DEF Enqueue
  <2>3. CASE Scan
    BY <2>3 DEF Scan
  <2>4. CASE PublishRx
    BY <2>4 DEF PublishRx
  <2>5. ASSUME NEW j \in Ids, PublishTx(j)
        PROVE  (i \in signal[d] => \/ deadline[d][i] = 0
                                   \/ pc[i] = "drain" /\ call[i].dir = d)'
    BY <2>5 DEF PublishTx, Dirs
  <2>6. CASE WatchdogReset
    BY <2>6 DEF WatchdogReset
  <2>7. CASE UNCHANGED table
    BY <2>7 DEF table
  <2>8. QED
    BY StepCases, <2>1, <2>2, <2>3, <2>4, <2>5, <2>6, <2>7
<1>3. QED
  BY <1>1, <1>2, TypeCorrect, PTL DEF Spec

-----------------------------------------------------------------------------
\* Entering the wait leaves a notification behind, so select_task cannot be
\* asleep over a registration made since its last scan.
THEOREM RegistrationsAreSeen == Spec => []NoSleepOverRegistration
<1> USE MediatorAssumption
<1>1. Init => NoSleepOverRegistration
  BY DEF Init, NoSleepOverRegistration
<1>2. TypeOK /\ NoSleepOverRegistration /\ [Next]_vars
        => NoSleepOverRegistration'
  <2> SUFFICES ASSUME TypeOK, NoSleepOverRegistration, [Next]_vars,
                      spc' = "sleep", ~notified', NEW i \in Ids,
                      pc'[i] = "wait", sd'[i] \notin {NoSd, 0}
               PROVE  deadline'[call'[i].dir][i] = 0
    BY DEF NoSleepOverRegistration, Waiting, Scanned
  <2> USE DEF TypeOK, NoSleepOverRegistration, Waiting, Scanned, Goto, SelectGoto,
              Running, selectVars, waiterVars, envVars
  <2>1. ASSUME NEW j \in Ids, Waiter(j)
        PROVE  deadline'[call'[i].dir][i] = 0
    <3>1. CASE TakeMutex(j)
      BY <3>1 DEF TakeMutex
    <3>2. CASE Register(j)
      BY <3>2 DEF Register
    <3>3. CASE Drain(j)
      BY <3>3 DEF Drain
    <3>4. CASE Notify(j)
      BY <3>4 DEF Notify
    <3>5. CASE ReturnOk(j)
      BY <3>5 DEF ReturnOk, Leave
    <3>6. CASE ReturnTimeout(j)
      BY <3>6 DEF ReturnTimeout, Leave
    <3>7. QED
      BY <2>1, <3>1, <3>2, <3>3, <3>4, <3>5, <3>6 DEF Waiter
  <2>2. ASSUME NEW j \in Ids, NEW e \in Dirs, NEW t \in Timeouts,
               Enqueue(j, e, t)
        PROVE  deadline'[call'[i].dir][i] = 0
    BY <2>2 DEF Enqueue
  <2>3. CASE Scan
    <3>1. ~Watched(call[i].dir, i)
      BY <2>3 DEF Scan
    <3>2. QED
      BY <2>3, <3>1 DEF Scan, Watched, Expired, Armed
  <2>4. CASE SelectStep /\ ~Scan
    BY <2>4 DEF SelectStep, ReadClock, SelectTakeMutex, SelectReady,
                SelectNothing, PublishRx, PublishTxNone, PublishTx, NotifyWait
  <2>5. CASE Environment
    BY <2>5 DEF Environment, Disconnected, IpAcquired, TimeSynced, OpenSocket,
                CloseSocket, UseSocket, BecomesReady, Tick, SetClock,
                WatchdogReset
  <2>6. CASE UNCHANGED vars
    BY <2>6 DEF vars
  <2>7. QED
    BY <2>1, <2>2, <2>3, <2>4, <2>5, <2>6 DEF Next
<1>3. QED
  BY <1>1, <1>2, TypeCorrect, PTL DEF Spec

-----------------------------------------------------------------------------
\* Only the owner's context ever holds a descriptor.
OnlyOwnerOpens == \A i \in Ids : i # Owner => sd[i] = NoSd

\* The clock reads at least 1, so that a deadline is never mistaken for none.
ClockRuns == now >= 1

\* While select_task holds descriptors in a set, the owner stays registered
\* in that direction, even if its descriptor is replaced meanwhile.
SetsAreRegistered ==
  /\ spc \in {"select", "relock", "publish_rx"} =>
       \A d \in Dirs : fds[d] # {} => deadline[d][Owner] # 0
  /\ spc = "publish_tx" /\ ~halted =>
       (fds["tx"] # {} => deadline["tx"][Owner] # 0)

\* The inductive invariant behind NoUnaskedWake.
WatchInv == OnlyOwnerOpens /\ ClockRuns /\ SetsAreRegistered

\* The watch invariant is kept by every step.
LEMMA WatchInvInductive ==
  /\ Init => WatchInv
  /\ TypeOK /\ WatchInv /\ [Next]_vars => WatchInv'
<1> USE MediatorAssumption
<1>1. Init => WatchInv
  BY DEF Init, WatchInv, OnlyOwnerOpens, ClockRuns, SetsAreRegistered
<1>2. TypeOK /\ WatchInv /\ [Next]_vars => WatchInv'
  <2> SUFFICES ASSUME TypeOK, WatchInv, [Next]_vars PROVE WatchInv'
    OBVIOUS
  <2> USE DEF TypeOK, WatchInv, OnlyOwnerOpens, ClockRuns, SetsAreRegistered,
              Goto, SelectGoto, Running, selectVars, waiterVars, envVars
  <2>1. ASSUME NEW j \in Ids, Waiter(j) PROVE WatchInv'
    <3>1. CASE Register(j)
      BY <3>1 DEF Register
    <3>2. CASE ~Register(j)
      BY <2>1, <3>2 DEF Waiter, TakeMutex, Drain, Notify, ReturnOk,
                        ReturnTimeout, Leave
    <3>3. QED
      BY <3>1, <3>2
  <2>2. ASSUME NEW j \in Ids, NEW e \in Dirs, NEW t \in Timeouts,
               Enqueue(j, e, t)
        PROVE  WatchInv'
    BY <2>2 DEF Enqueue
  <2>3. CASE SelectStep
    <3>1. CASE ReadClock
      BY <3>1 DEF ReadClock
    <3>2. CASE SelectTakeMutex("lock", "scan")
      BY <3>2 DEF SelectTakeMutex
    <3>3. CASE SelectTakeMutex("relock", "publish_rx")
      BY <3>3 DEF SelectTakeMutex
    <3>4. CASE Scan
      <4>1. ASSUME NEW d \in Dirs, fds'[d] # {} PROVE deadline'[d][Owner] # 0
        <5>1. PICK j \in Ids : Watched(d, j)
          BY <3>4, <4>1 DEF Scan
        <5>2. j = Owner
          BY <5>1 DEF Watched, Armed, Scanned
        <5>3. QED
          BY <3>4, <5>1, <5>2 DEF Scan, Watched, Expired, Armed
      <4>2. QED
        BY <3>4, <4>1 DEF Scan
    <3>5. CASE SelectReady
      BY <3>5 DEF SelectReady, Reported
    <3>6. CASE SelectNothing
      BY <3>6 DEF SelectNothing
    <3>7. CASE PublishRx
      BY <3>7 DEF PublishRx, Dirs
    <3>8. CASE PublishTxNone
      BY <3>8 DEF PublishTxNone
    <3>9. ASSUME NEW j \in Ids, PublishTx(j) PROVE WatchInv'
      BY <3>9 DEF PublishTx
    <3>10. CASE NotifyWait
      BY <3>10 DEF NotifyWait
    <3>11. QED
      BY <2>3, <3>1, <3>2, <3>3, <3>4, <3>5, <3>6, <3>7, <3>8, <3>9, <3>10
         DEF SelectStep
  <2>4. CASE Environment
    <3>1. CASE Tick
      BY <3>1 DEF Tick
    <3>2. ASSUME NEW t \in 1..MaxTime, SetClock(t) PROVE WatchInv'
      BY <3>2 DEF SetClock
    <3>3. ASSUME NEW s \in Sds, OpenSocket(s) PROVE WatchInv'
      BY <3>3 DEF OpenSocket
    <3>4. CASE CloseSocket
      BY <3>4 DEF CloseSocket
    <3>5. CASE WatchdogReset
      BY <3>5 DEF WatchdogReset
    <3>6. CASE Disconnected \/ IpAcquired \/ TimeSynced
      BY <3>6 DEF Disconnected, IpAcquired, TimeSynced
    <3>7. ASSUME NEW d \in Dirs, UseSocket(d) \/ BecomesReady(d)
          PROVE  WatchInv'
      BY <3>7 DEF UseSocket, BecomesReady
    <3>8. QED
      BY <2>4, <3>1, <3>2, <3>3, <3>4, <3>5, <3>6, <3>7 DEF Environment
  <2>idle. CASE UNCHANGED vars
    BY <2>idle DEF vars
  <2> QED
    BY <2>idle, <2>1, <2>2, <2>3, <2>4 DEF Next
<1>3. QED
  BY <1>1, <1>2

\* The watch invariant holds in every state.
LEMMA WatchInvHolds == Spec => []WatchInv
  BY WatchInvInductive, TypeCorrect, PTL DEF Spec

\* select_task reports only to a context that is registered, although the
\* descriptor may be closed and replaced while sl_Select runs.
THEOREM NobodyWokenUnasked == Spec => []NoUnaskedWake
<1>1. TypeOK /\ WatchInv => NoUnaskedWake
  <2> SUFFICES ASSUME TypeOK, WatchInv PROVE NoUnaskedWake
    OBVIOUS
  <2>1. \A d \in Dirs, i \in Ids : Hit(d, i) => i = Owner /\ fds[d] # {}
    BY DEF Hit, Scanned, WatchInv, OnlyOwnerOpens
  <2>2. QED
    BY <2>1 DEF NoUnaskedWake, WatchInv, SetsAreRegistered, Dirs
<1>2. QED
  BY <1>1, WatchInvHolds, TypeCorrect, PTL

-----------------------------------------------------------------------------
Registered == {"drain", "notify", "wait"}

\* From Register to the return of the call its fate is known: armed exactly
\* while the deadline is set, and reported only with the semaphore given.
FateInv ==
  \A i \in Ids :
    /\ pc[i] \notin Registered => fate[i] = "none"
    /\ pc[i] \in Registered /\ ~halted =>
         /\ fate[i] # "none"
         /\ deadline[call[i].dir][i] # 0 <=> fate[i] = "armed"
         /\ fate[i] = "reported" => i \in signal[call[i].dir]

\* The fate invariant is kept by every step.
LEMMA FateInvInductive ==
  /\ Init => FateInv
  /\ TypeOK /\ WatchInv /\ FateInv /\ [Next]_vars => FateInv'
<1> USE MediatorAssumption
<1>1. Init => FateInv
  BY DEF Init, FateInv, Registered
<1>2. TypeOK /\ WatchInv /\ FateInv /\ [Next]_vars => FateInv'
  <2> SUFFICES ASSUME TypeOK, WatchInv, FateInv, [Next]_vars PROVE FateInv'
    OBVIOUS
  <2> USE DEF TypeOK, FateInv, Registered, Goto, SelectGoto, Running
  <2>1. ASSUME NEW j \in Ids, Waiter(j) PROVE FateInv'
    <3>1. CASE TakeMutex(j)
      BY <3>1 DEF TakeMutex
    <3>2. CASE Register(j)
      <4>1. now + call[j].timeout # 0
        BY DEF WatchInv, ClockRuns
      <4>2. QED
        BY <3>2, <4>1 DEF Register
    <3>3. CASE Drain(j)
      BY <3>3 DEF Drain
    <3>4. CASE Notify(j)
      BY <3>4 DEF Notify
    <3>5. CASE ReturnOk(j)
      BY <3>5 DEF ReturnOk, Leave
    <3>6. CASE ReturnTimeout(j)
      BY <3>6 DEF ReturnTimeout, Leave
    <3>7. QED
      BY <2>1, <3>1, <3>2, <3>3, <3>4, <3>5, <3>6 DEF Waiter
  <2>2. ASSUME NEW j \in Ids, NEW e \in Dirs, NEW t \in Timeouts,
               Enqueue(j, e, t)
        PROVE  FateInv'
    BY <2>2 DEF Enqueue
  <2>3. CASE Scan
    BY <2>3 DEF Scan, Expired, Armed
  <2>4. CASE PublishRx
    <3>1. \A i \in Ids : Hit("rx", i) => deadline["rx"][i] # 0
      BY <2>4 DEF PublishRx, Hit, Scanned, WatchInv, OnlyOwnerOpens,
                  SetsAreRegistered, Dirs
    <3>2. QED
      BY <2>4, <3>1 DEF PublishRx, Dirs
  <2>5. ASSUME NEW j \in Ids, PublishTx(j) PROVE FateInv'
    BY <2>5 DEF PublishTx
  <2>6. CASE WatchdogReset
    BY <2>6 DEF WatchdogReset
  <2>7. CASE UNCHANGED table
    BY <2>7 DEF table
  <2>8. QED
    BY StepCases, <2>1, <2>2, <2>3, <2>4, <2>5, <2>6, <2>7
<1>3. QED
  BY <1>1, <1>2

\* The fate invariant holds in every state.
LEMMA FateInvHolds == Spec => []FateInv
  BY FateInvInductive, WatchInvHolds, TypeCorrect, PTL DEF Spec

\* The drain before the wait and the expiry of the deadline are the only ways
\* in which a waiting task loses its wake-up.
THEOREM LossesAreKnown == Spec => []OnlyDrainOrExpiryLoses
<1>1. TypeOK /\ FateInv => OnlyDrainOrExpiryLoses
  BY DEF TypeOK, FateInv, Registered, OnlyDrainOrExpiryLoses, Waiting, Fates
<1>2. QED
  BY <1>1, FateInvHolds, TypeCorrect, PTL

-----------------------------------------------------------------------------
\* While nobody has set the clock, select_task's reading of it is not ahead,
\* and an armed registration was made in the second its deadline is counted
\* from.
ExpiryInv ==
  /\ clockSets = 0 => cur <= now
  /\ \A i \in Ids : fate[i] = "armed" =>
       \A n \in Nat : deadline[call[i].dir][i] = n + call[i].timeout
                         => regAt[i] < Ticks(n + 1)
  /\ \A i \in Ids : fate[i] = "armed" =>
       deadline[call[i].dir][i] >= call[i].timeout
  /\ NoEarlyExpiry

\* The expiry invariant is kept by every step while the clock is not set.
LEMMA ExpiryInvInductive ==
  /\ Init => ExpiryInv
  /\ TypeOK /\ WatchInv /\ FateInv /\ ExpiryInv /\ [Next]_vars => ExpiryInv'
<1> USE MediatorAssumption
<1>1. Init => ExpiryInv
  BY DEF Init, ExpiryInv, NoEarlyExpiry
<1>2. TypeOK /\ WatchInv /\ FateInv /\ ExpiryInv /\ [Next]_vars => ExpiryInv'
  <2> SUFFICES ASSUME TypeOK, WatchInv, FateInv, ExpiryInv, [Next]_vars
               PROVE ExpiryInv'
    OBVIOUS
  <2> USE DEF TypeOK, ExpiryInv, NoEarlyExpiry, Instant, Goto, SelectGoto, Running,
              envVars, selectVars, waiterVars
  <2>1. ASSUME NEW j \in Ids, Waiter(j) PROVE ExpiryInv'
    <3>1. CASE TakeMutex(j)
      BY <3>1 DEF TakeMutex
    <3>2. CASE Register(j)
      <4>1. Instant < Ticks(now + 1)
        BY InstantFacts
      <4>2. now \in Nat /\ call[j].timeout \in Nat
        OBVIOUS
      <4>3. /\ fate'[j] = "armed" /\ regAt'[j] = Instant
            /\ call' = call /\ now' = now /\ part' = part
            /\ deadline'[call[j].dir][j] = now + call[j].timeout
            /\ cur' = cur /\ clockSets' = clockSets
        BY <3>2 DEF Register
      <4>4. \A i \in Ids \ {j} :
              /\ fate'[i] = fate[i] /\ regAt'[i] = regAt[i]
              /\ deadline'[call[i].dir][i] = deadline[call[i].dir][i]
        BY <3>2 DEF Register
      <4>5. \A n \in Nat : now + call[j].timeout = n + call[j].timeout
                             => n = now
        BY <4>2
      <4>6. ASSUME NEW i \in Ids, fate'[i] = "armed", NEW n \in Nat,
                   deadline'[call[i].dir][i] = n + call[i].timeout
            PROVE  regAt'[i] < Ticks(n + 1)
        <5>1. CASE i = j
          BY <5>1, <4>1, <4>3, <4>5, <4>6
        <5>2. CASE i # j
          BY <5>2, <4>4, <4>6
        <5>3. QED
          BY <5>1, <5>2
      <4>7. ASSUME NEW i \in Ids, fate'[i] = "armed"
            PROVE  deadline'[call[i].dir][i] >= call[i].timeout
        <5>1. CASE i = j
          BY <5>1, <4>2, <4>3
        <5>2. CASE i # j
          BY <5>2, <4>4, <4>7
        <5>3. QED
          BY <5>1, <5>2
      <4>8. NoEarlyExpiry'
        BY <4>3, <4>4
      <4>9. QED
        BY <4>3, <4>6, <4>7, <4>8
    <3>3. CASE Drain(j)
      BY <3>3 DEF Drain
    <3>4. CASE Notify(j)
      BY <3>4 DEF Notify
    <3>5. CASE ReturnOk(j)
      BY <3>5 DEF ReturnOk, Leave
    <3>6. CASE ReturnTimeout(j)
      BY <3>6 DEF ReturnTimeout, Leave
    <3>7. QED
      BY <2>1, <3>1, <3>2, <3>3, <3>4, <3>5, <3>6 DEF Waiter
  <2>2. ASSUME NEW j \in Ids, NEW e \in Dirs, NEW t \in Timeouts,
               Enqueue(j, e, t)
        PROVE  ExpiryInv'
    <3>1. fate[j] = "none"
      BY <2>2 DEF Enqueue, FateInv, Registered
    <3>2. QED
      BY <2>2, <3>1 DEF Enqueue
  <2>3. CASE SelectStep
    <3>1. CASE ReadClock
      BY <3>1 DEF ReadClock
    <3>2. CASE SelectTakeMutex("lock", "scan")
      BY <3>2 DEF SelectTakeMutex
    <3>3. CASE SelectTakeMutex("relock", "publish_rx")
      BY <3>3 DEF SelectTakeMutex
    <3>4. CASE Scan
      <4>1. ASSUME NEW i \in Ids, fate[i] = "armed", clockSets = 0,
                   Expired(call[i].dir, i)
            PROVE  Instant > regAt[i] + Ticks(call[i].timeout + 1)
        <5>1. PICK n \in Nat : deadline[call[i].dir][i] = n + call[i].timeout
          <6>1. deadline[call[i].dir][i] - call[i].timeout \in Nat
            BY <4>1
          <6>2. QED
            BY <6>1
        <5>2. (n + 1) + (call[i].timeout + 1) <= now
          BY <4>1, <5>1 DEF Expired, NotExpired
        <5>3. Ticks(n + 1) + Ticks(call[i].timeout + 1) <= Ticks(now)
          <6>1. /\ n + 1 \in Nat /\ call[i].timeout + 1 \in Nat
                /\ now \in Nat /\ (n + 1) + (call[i].timeout + 1) \in Nat
            OBVIOUS
          <6>2. Ticks((n + 1) + (call[i].timeout + 1)) <= Ticks(now)
            BY <5>2, <6>1, TicksGrow
          <6>3. QED
            BY <6>1, <6>2, TicksAdd
        <5>4. regAt[i] < Ticks(n + 1)
          BY <4>1, <5>1
        <5>5. QED
          <6>1. /\ Ticks(n + 1) \in Nat /\ Ticks(call[i].timeout + 1) \in Nat
                /\ Ticks(now) \in Nat /\ part \in Nat /\ regAt[i] \in Nat
            BY TicksNat
          <6>2. QED
            BY <5>3, <5>4, <6>1
      <4>2. QED
        BY <3>4, <4>1 DEF Scan
    <3>5. CASE SelectReady
      BY <3>5 DEF SelectReady
    <3>6. CASE SelectNothing
      BY <3>6 DEF SelectNothing
    <3>7. CASE PublishRx
      BY <3>7 DEF PublishRx, Dirs
    <3>8. CASE PublishTxNone
      BY <3>8 DEF PublishTxNone
    <3>9. ASSUME NEW j \in Ids, PublishTx(j) PROVE ExpiryInv'
      BY <3>9 DEF PublishTx, Dirs
    <3>10. CASE NotifyWait
      BY <3>10 DEF NotifyWait
    <3>11. QED
      BY <2>3, <3>1, <3>2, <3>3, <3>4, <3>5, <3>6, <3>7, <3>8, <3>9, <3>10
         DEF SelectStep
  <2>4. CASE Environment
    <3>1. CASE Tick
      <4>1. Ticks(now + 1) = Ticks(now) + Parts
        BY TicksNat
      <4>2. Instant' >= Instant /\ now' >= now
        <5>1. /\ Ticks(now) \in Nat /\ now \in Nat
              /\ part \in Nat /\ Parts \in Nat /\ part < Parts
          BY TicksNat
        <5>2. CASE now' = now + 1 /\ part' = 0
          BY <5>1, <5>2, <4>1
        <5>3. CASE now' = now /\ part' \in {part, part + 1}
          BY <5>1, <5>3
        <5>4. QED
          BY <3>1, <5>2, <5>3 DEF Tick
      <4>3. Instant \in Nat /\ Instant' \in Nat
        BY <3>1, TicksNat DEF Tick
      <4>4. \A i \in Ids : Ticks(call[i].timeout + 1) \in Nat
        BY TicksNat
      <4>5. QED
        BY <3>1, <4>2, <4>3, <4>4 DEF Tick
    <3>2. ASSUME NEW t \in 1..MaxTime, SetClock(t) PROVE ExpiryInv'
      BY <3>2 DEF SetClock
    <3>3. ASSUME NEW s \in Sds, OpenSocket(s) PROVE ExpiryInv'
      BY <3>3 DEF OpenSocket
    <3>4. CASE CloseSocket
      BY <3>4 DEF CloseSocket
    <3>5. CASE WatchdogReset
      BY <3>5 DEF WatchdogReset
    <3>6. CASE Disconnected \/ IpAcquired \/ TimeSynced
      BY <3>6 DEF Disconnected, IpAcquired, TimeSynced
    <3>7. ASSUME NEW d \in Dirs, UseSocket(d) \/ BecomesReady(d)
          PROVE  ExpiryInv'
      BY <3>7 DEF UseSocket, BecomesReady
    <3>8. QED
      BY <2>4, <3>1, <3>2, <3>3, <3>4, <3>5, <3>6, <3>7 DEF Environment
  <2>idle. CASE UNCHANGED vars
    BY <2>idle DEF vars
  <2> QED
    BY <2>idle, <2>1, <2>2, <2>3, <2>4 DEF Next
<1>3. QED
  BY <1>1, <1>2

\* Until the clock is set, no registration is dropped before timeout_s + 1
\* seconds have passed since it was made, wherever in a second of the clock
\* that was.
THEOREM ExpiryIsNotEarly == Spec => []NoEarlyExpiry
<1>1. ExpiryInv => NoEarlyExpiry
  BY DEF ExpiryInv
<1>2. QED
  BY <1>1, ExpiryInvInductive, FateInvHolds, WatchInvHolds, TypeCorrect, PTL
     DEF Spec

-----------------------------------------------------------------------------
(* The refinement of ReadinessWait.                                        *)

\* A semaphore that is given once the caller has drained it stands for a
\* report to this call, and a call in progress has no result yet.
ReportInv ==
  \A i \in Ids :
    /\ pc[i] \in {"notify", "wait"} /\ ~halted /\ i \in signal[call[i].dir]
         => fate[i] = "reported"
    /\ pc[i] # "out" => rc[i] = "none"

\* The report invariant is kept by every step.
LEMMA ReportInvInductive ==
  /\ Init => ReportInv
  /\ TypeOK /\ WatchInv /\ FateInv /\ ReportInv /\ [Next]_vars => ReportInv'
<1> USE MediatorAssumption
<1>1. Init => ReportInv
  BY DEF Init, ReportInv
<1>2. ASSUME TypeOK, WatchInv, FateInv, ReportInv, [Next]_vars
      PROVE  ReportInv'
  <2> USE <1>2 DEF TypeOK, ReportInv, Goto, SelectGoto, Running
  <2>1. CASE UNCHANGED table
    BY <2>1 DEF table
  <2>2. CASE WatchdogReset
    BY <2>2 DEF WatchdogReset
  <2>3. CASE Scan
    BY <2>3 DEF Scan
  <2>4. CASE PublishRx
    <3>1. \A i \in Ids : Hit("rx", i) => deadline["rx"][i] # 0
      BY <2>4 DEF PublishRx, Hit, Scanned, WatchInv, OnlyOwnerOpens,
                  SetsAreRegistered, Dirs
    <3>2. \A i \in Ids : /\ pc[i] \in {"notify", "wait"} /\ ~halted
                         /\ call[i].dir = "rx" /\ Hit("rx", i)
                         => fate[i] = "armed"
      BY <3>1 DEF FateInv, Registered
    <3>3. QED
      BY <2>4, <3>2 DEF PublishRx, Dirs
  <2>5. ASSUME NEW j \in Ids, PublishTx(j) PROVE ReportInv'
    BY <2>5 DEF PublishTx
  <2>6. ASSUME NEW j \in Ids, NEW e \in Dirs, NEW t \in Timeouts,
               Enqueue(j, e, t)
        PROVE  ReportInv'
    BY <2>6 DEF Enqueue
  <2>7. ASSUME NEW j \in Ids, Waiter(j) PROVE ReportInv'
    <3>1. CASE TakeMutex(j)
      BY <3>1 DEF TakeMutex
    <3>2. CASE Register(j)
      BY <3>2 DEF Register
    <3>3. CASE Drain(j)
      BY <3>3 DEF Drain
    <3>4. CASE Notify(j)
      BY <3>4 DEF Notify
    <3>5. CASE ReturnOk(j)
      BY <3>5 DEF ReturnOk, Leave
    <3>6. CASE ReturnTimeout(j)
      BY <3>6 DEF ReturnTimeout, Leave
    <3>7. QED
      BY <2>7, <3>1, <3>2, <3>3, <3>4, <3>5, <3>6 DEF Waiter
  <2>8. QED
    BY StepCases, <2>1, <2>2, <2>3, <2>4, <2>5, <2>6, <2>7
<1>3. QED
  BY <1>1, <1>2

\* The report invariant holds in every state.
LEMMA ReportInvHolds == Spec => []ReportInv
  BY ReportInvInductive, FateInvHolds, WatchInvHolds, TypeCorrect, PTL DEF Spec

\* A call of enqueue_select_rx/tx ends with 0 exactly when it ends with a
\* report: for any number of tasks, descriptors and timeouts, and whatever
\* wifi_task suspends, the mediator implements ReadinessWait.
THEOREM MediatorImplementsWait == Spec => ImplementsWait
<1> USE MediatorAssumption
<1>1. Init => Wait!Init
  BY DEF Init, Wait!Init, Phase
<1>2. ASSUME TypeOK, FateInv, ReportInv, [Next]_vars
      PROVE  [Wait!Next]_(Wait!vars)
  <2> USE <1>2 DEF TypeOK, Goto, SelectGoto, Running, Phase
  <2>1. CASE UNCHANGED table
    BY <2>1 DEF table, Wait!vars
  <2>2. CASE WatchdogReset
    BY <2>2 DEF WatchdogReset, Wait!Next, Wait!Restart
  <2>3. CASE Scan
    <3>1. PICK C \in SUBSET Ids : C =
           {i \in Ids : fate[i] = "armed" /\ Expired(call[i].dir, i)}
      OBVIOUS
    <3>2. Wait!Lose(C)
      BY <3>1, <2>3 DEF Scan, Wait!Lose
    <3>3. QED
      BY <3>2 DEF Wait!Next
  <2>4. CASE PublishRx
    <3>1. PICK C \in SUBSET Ids : C =
           {i \in Ids : fate[i] = "armed" /\ call[i].dir = "rx"
            /\ Hit("rx", i)}
      OBVIOUS
    <3>2. Wait!Report(C)
      BY <3>1, <2>4 DEF PublishRx, Wait!Report
    <3>3. QED
      BY <3>2 DEF Wait!Next
  <2>5. ASSUME NEW j \in Ids, PublishTx(j) PROVE [Wait!Next]_(Wait!vars)
    <3>1. PICK C \in SUBSET Ids : C =
           {i \in {j} : fate[i] = "armed" /\ call[i].dir = "tx"}
      OBVIOUS
    <3>2. Wait!Report(C)
      BY <3>1, <2>5 DEF PublishTx, Wait!Report
    <3>3. QED
      BY <3>2 DEF Wait!Next
  <2>6. ASSUME NEW j \in Ids, NEW e \in Dirs, NEW t \in Timeouts,
               Enqueue(j, e, t)
        PROVE  [Wait!Next]_(Wait!vars)
    <3>1. Wait!Enter(j)
      BY <2>6 DEF Enqueue, Wait!Enter, FateInv, Registered
    <3>2. QED
      BY <3>1 DEF Wait!Next
  <2>7. ASSUME NEW j \in Ids, Waiter(j) PROVE [Wait!Next]_(Wait!vars)
    <3>1. CASE TakeMutex(j)
      BY <3>1 DEF TakeMutex, Wait!vars
    <3>2. CASE Register(j)
      <4>1. Wait!Arm(j)
        BY <3>2 DEF Register, Wait!Arm, FateInv, Registered, ReportInv
      <4>2. QED
        BY <4>1 DEF Wait!Next
    <3>3. CASE Drain(j)
      <4>1. PICK C \in SUBSET Ids : C =
             {i \in {j} : fate[i] = "reported"}
        OBVIOUS
      <4>2. Wait!Lose(C)
        BY <4>1, <3>3 DEF Drain, Wait!Lose
      <4>3. QED
        BY <4>2 DEF Wait!Next
    <3>4. CASE Notify(j)
      BY <3>4 DEF Notify, Wait!vars
    <3>5. CASE ReturnOk(j)
      <4>1. Wait!EndOk(j)
        BY <3>5 DEF ReturnOk, Leave, Wait!EndOk, ReportInv
      <4>2. QED
        BY <4>1 DEF Wait!Next
    <3>6. CASE ReturnTimeout(j)
      <4>1. Wait!EndTimeout(j)
        BY <3>6 DEF ReturnTimeout, Leave, Wait!EndTimeout, FateInv,
                    Registered, Fates
      <4>2. QED
        BY <4>1 DEF Wait!Next
    <3>7. QED
      BY <2>7, <3>1, <3>2, <3>3, <3>4, <3>5, <3>6 DEF Waiter
  <2>8. QED
    BY StepCases, <2>1, <2>2, <2>3, <2>4, <2>5, <2>6, <2>7
<1>3. QED
  BY <1>1, <1>2, ReportInvHolds, FateInvHolds, TypeCorrect, PTL
     DEF Spec, ImplementsWait, Wait!Spec

=============================================================================
