---------------------------- MODULE MkTimed_proofs ----------------------------
(***************************************************************************)
(* mk_waitTask keeps its promise, at one tick per millisecond, for every   *)
(* wait whose end the tick counter reaches without wrapping.               *)
(*                                                                         *)
(* What the history variable due counts down must be tied to what the code *)
(* compares (wakeTime and the tick counter), inside SysTick_Handler too:   *)
(* that is Counted.  The loop of the handler stops at the first sleeper    *)
(* that is not due, so the proof needs the list to be sorted; and a task   *)
(* that sleeps must be in that list (KernelInv).                           *)
(***************************************************************************)
EXTENDS MkTimed, MkKernel_proofs

\* Every step is a step of the kernel, so that all that is proved of it holds.
LEMMA TimedIsKernel == TimedNext => Next
BY DEF TimedNext, Wait, Tick, OtherStep, Next, KernelCall, SysTick_Handler

HistoryTypeOK == due \in [Task -> Nat] /\ spans \in [Task -> BOOLEAN]

\* A slot of the pool that was never used holds the READY of the start-up code.
UnusedReady == \A t \in Task : ~active[t] => state[t] = "READY"

\* t sleeps, and the counter is due[t] ticks before its wake time; or one tick
\* more, when it asked for 0 ms.
Counted(t) ==
    /\ tickCount + due[t] < TickMod
    /\ \/ wakeTime[t] = tickCount + due[t]
       \/ ~inTick /\ due[t] = 1 /\ wakeTime[t] = tickCount
       \/ inTick /\ due[t] = 0 /\ wakeTime[t] = tickCount - 1
    /\ ~inTick => due[t] > 0

Timely(t) ==
    ~spans[t] => IF state[t] = "WAITING" THEN Counted(t) ELSE due[t] = 0

TimedInv == HistoryTypeOK /\ UnusedReady /\ \A t \in Task : Timely(t)

\* Timely does not change with what it does not mention.
LEMMA TimelyKept ==
    ASSUME NEW t \in Task, Timely(t), state'[t] = state[t],
           due'[t] = due[t], spans'[t] = spans[t], wakeTime'[t] = wakeTime[t],
           tickCount' = tickCount, inTick' = inTick
    PROVE  Timely(t)'
BY DEF Timely, Counted

\* A step that changes neither a state, a wake time nor the clock.
LEMMA TimedQuiet ==
    ASSUME TimedInv,
           UNCHANGED <<active, state, wakeTime, tickCount, inTick, due, spans>>
    PROVE  TimedInv'
BY DEF TimedInv, HistoryTypeOK, UnusedReady, Timely, Counted

LEMMA TimedWait ==
    ASSUME KernelInv, TimedInv,
           NEW id \in TaskIDs, NEW d \in WaitTimes, Wait(id, d)
    PROVE  TimedInv'
<1>1. PICK t \in Task :
        /\ mk_task_getTaskByID(id, t)
        /\ wakeTime' = [wakeTime EXCEPT ![t] = (tickCount + d) % TickMod]
        /\ state' = [state EXCEPT ![t] = "WAITING"]
  BY Zenon DEF Wait, mk_waitTask
<1>2. PICK u \in Task :
        /\ mk_task_getTaskByID(id, u)
        /\ due' = [due EXCEPT ![u] = TicksAsked(d)]
        /\ spans' = [spans EXCEPT ![u] = tickCount + TicksAsked(d) >= TickMod]
  BY Zenon DEF Wait
<1>3. u = t
  <2>1. u \in Nat /\ t \in Nat
    BY DEF Task
  <2>2. ~(t < u)
    BY <1>1, <1>2, <2>1 DEF mk_task_getTaskByID
  <2>3. ~(u < t)
    BY <1>1, <1>2, <2>1 DEF mk_task_getTaskByID
  <2> QED BY <2>1, <2>2, <2>3
<1>4. ~inTick /\ UNCHANGED <<active, tickCount, inTick>> /\ active[t]
  BY <1>1 DEF Wait, mk_waitTask, ClientRuns, handler, mk_task_getTaskByID
<1>5. /\ tickCount \in Nat /\ d \in Nat /\ TickMod \in Nat \ {0}
      /\ t \in Handle /\ state \in [Handle -> TaskState]
      /\ wakeTime \in [Handle -> 0..(TickMod - 1)]
  <2>1. tickCount \in 0..(TickMod - 1) /\ state \in [Handle -> TaskState]
        /\ wakeTime \in [Handle -> 0..(TickMod - 1)]
    BY DEF KernelInv, TypeOK
  <2>2. d \in 0..(TickMod - 1) /\ TickMod \in Nat \ {0}
    BY KernelAssumption
  <2> QED BY <2>1, <2>2, HandleFacts
<1>6. /\ TicksAsked(d) \in Nat \ {0} /\ d <= TicksAsked(d)
      /\ \/ d = TicksAsked(d)
         \/ d = 0 /\ TicksAsked(d) = 1
  <2>1. CASE d = 0
    BY <2>1 DEF TicksAsked
  <2>2. CASE d # 0
    BY <1>5, <2>2 DEF TicksAsked
  <2> QED BY <2>1, <2>2
<1>7. HistoryTypeOK'
  BY <1>2, <1>6 DEF TimedInv, HistoryTypeOK
<1>8. /\ state'[t] = "WAITING" /\ due'[t] = TicksAsked(d)
      /\ spans'[t] = (tickCount + TicksAsked(d) >= TickMod)
      /\ wakeTime'[t] = (tickCount + d) % TickMod
  BY <1>1, <1>2, <1>3, <1>5 DEF TimedInv, HistoryTypeOK
<1>9. ASSUME NEW v \in Task, v # t
      PROVE  /\ state'[v] = state[v] /\ due'[v] = due[v]
             /\ spans'[v] = spans[v] /\ wakeTime'[v] = wakeTime[v]
  BY <1>1, <1>2, <1>3, <1>5, <1>9, HandleFacts DEF TimedInv, HistoryTypeOK
<1>10. UnusedReady'
  BY <1>4, <1>9 DEF TimedInv, UnusedReady
<1>11. ASSUME ~spans'[t] PROVE Counted(t)'
  <2>1. tickCount + TicksAsked(d) < TickMod
    <3>1. ~(tickCount + TicksAsked(d) >= TickMod)
      BY <1>8, <1>11, Zenon
    <3> QED BY <1>5, <1>6, <3>1
  <2>2. tickCount + d \in 0..(TickMod - 1)
    BY <1>5, <1>6, <2>1
  <2>3. (tickCount + d) % TickMod = tickCount + d
    BY <1>5, <2>2
  <2> QED BY <1>4, <1>5, <1>6, <1>8, <2>1, <2>3 DEF Counted
<1>12. ASSUME NEW v \in Task PROVE Timely(v)'
  <2>1. CASE v = t
    BY <1>8, <1>11, <2>1 DEF Timely
  <2>2. CASE v # t
    BY <1>4, <1>9, <2>2, TimelyKept DEF TimedInv
  <2> QED BY <2>1, <2>2
<1> QED BY <1>7, <1>10, <1>12 DEF TimedInv

\* A tick counts down what is due and the distance to the wake time together;
\* the counter does not wrap, as a wait that does not span the wrap goes on.
LEMMA TimedTick ==
    ASSUME KernelInv, TimedInv, Tick
    PROVE  TimedInv'
<1>1. /\ ~inTick /\ inTick' = TRUE /\ tickCount' = (tickCount + 1) % TickMod
      /\ UNCHANGED <<active, state, wakeTime, spans>>
      /\ due' = [t \in Task |-> IF due[t] > 0 THEN due[t] - 1 ELSE 0]
  BY DEF Tick, SysTickEnter, tcb
<1>2. /\ tickCount \in Nat /\ TickMod \in Nat \ {0}
      /\ wakeTime \in [Handle -> 0..(TickMod - 1)]
      /\ due \in [Task -> Nat] /\ spans \in [Task -> BOOLEAN]
  BY KernelAssumption DEF KernelInv, TypeOK, TimedInv, HistoryTypeOK
<1>3. HistoryTypeOK'
  BY <1>1, <1>2 DEF HistoryTypeOK
<1>4. UnusedReady'
  BY <1>1 DEF TimedInv, UnusedReady
<1>5. ASSUME NEW t \in Task PROVE Timely(t)'
  <2>1. /\ due[t] \in Nat /\ wakeTime[t] \in Nat
        /\ due'[t] = IF due[t] > 0 THEN due[t] - 1 ELSE 0
    BY <1>1, <1>2, HandleFacts
  <2>2. CASE state[t] = "WAITING" /\ ~spans[t]
    <3>1. Counted(t)
      BY <2>2 DEF TimedInv, Timely
    <3>2. /\ due[t] > 0 /\ tickCount + due[t] < TickMod
          /\ \/ wakeTime[t] = tickCount + due[t]
             \/ due[t] = 1 /\ wakeTime[t] = tickCount
      BY <1>1, <3>1, Zenon DEF Counted
    <3>3. (tickCount + 1) % TickMod = tickCount + 1
      <4>1. tickCount + 1 \in 0..(TickMod - 1)
        BY <1>2, <2>1, <3>2
      <4> QED BY <1>2, <4>1
    <3> QED BY <1>1, <1>2, <2>1, <2>2, <3>2, <3>3 DEF Timely, Counted
  <2>3. CASE ~(state[t] = "WAITING" /\ ~spans[t])
    BY <1>1, <2>1, <2>3 DEF TimedInv, Timely
  <2> QED BY <2>2, <2>3
<1> QED BY <1>3, <1>4, <1>5 DEF TimedInv

\* The handler wakes a task only when nothing is due of its wait.
LEMMA TimedWake ==
    ASSUME KernelInv, TimedInv, WakeTask, UNCHANGED <<due, spans>>
    PROVE  TimedInv'
<1> DEFINE t == Head(waitingTasks)
<1>1. /\ inTick /\ waitingTasks # <<>> /\ wakeTime[t] <= tickCount
      /\ mk_sched_addReadyTask(readyTasks, t, priority[t])
      /\ UNCHANGED <<active, tickCount, wakeTime, inTick>>
  BY DEF WakeTask, SleeperDue
<1>2. waitingTasks \in Seq(Task) /\ state \in [Handle -> TaskState]
      /\ tickCount \in Nat /\ wakeTime \in [Handle -> 0..(TickMod - 1)]
      /\ priority \in [Handle -> Level] /\ readyTasks \in [Level -> Seq(Task)]
  BY KernelAssumption DEF KernelInv, TypeOK
<1>3. t \in Task /\ t \in Elems(waitingTasks)
  BY <1>1, <1>2, TailFacts
<1> HIDE DEF t
<1>4. state[t] = "WAITING" /\ active[t]
  BY <1>3 DEF KernelInv, ScheduledOnce
<1>5. HasRoom(readyTasks, priority[t])
  <2>1. priority[t] \in Level /\ readyTasks[priority[t]] \in Seq(Task)
    BY <1>2, <1>3, HandleFacts
  <2>2. Once(readyTasks[priority[t]]) /\ t \notin Elems(readyTasks[priority[t]])
    BY <1>4, <2>1 DEF KernelInv, ScheduledOnce
  <2> QED BY <1>3, <2>1, <2>2, QueueHasRoom DEF HasRoom
<1>6. state' = [state EXCEPT ![t] = "READY"]
  BY <1>1, <1>5 DEF mk_sched_addReadyTask
<1>7. ~spans[t] => due[t] = 0
  <2>1. ~spans[t] => Counted(t)
    BY <1>3, <1>4 DEF TimedInv, Timely
  <2>2. due[t] \in Nat /\ wakeTime[t] \in Nat
    BY <1>2, <1>3, HandleFacts DEF TimedInv, HistoryTypeOK
  <2> QED BY <1>1, <1>2, <2>1, <2>2 DEF Counted
<1>8. state'[t] = "READY" /\ \A u \in Task : u # t => state'[u] = state[u]
  BY <1>2, <1>3, <1>6, HandleFacts
<1>9. ASSUME NEW u \in Task PROVE Timely(u)'
  <2>1. CASE u = t
    BY <1>7, <1>8, <2>1 DEF Timely
  <2>2. CASE u # t
    BY <1>1, <1>8, <2>2, TimelyKept DEF TimedInv
  <2> QED BY <2>1, <2>2
<1>10. UnusedReady'
  BY <1>1, <1>8 DEF TimedInv, UnusedReady
<1> QED BY <1>9, <1>10 DEF TimedInv, HistoryTypeOK

\* The handler returns when no sleeper is due any more: the first is not, and
\* the others wake up no sooner.
LEMMA TimedExit ==
    ASSUME KernelInv, WaitingSorted, TimedInv, SysTickExit, UNCHANGED <<due, spans>>
    PROVE  TimedInv'
<1>1. /\ inTick /\ ~inTick' /\ ~SleeperDue
      /\ UNCHANGED <<active, state, tickCount, wakeTime>>
  BY DEF SysTickExit
<1>2. waitingTasks \in Seq(Task) /\ tickCount \in Nat
      /\ wakeTime \in [Handle -> 0..(TickMod - 1)]
  BY KernelAssumption DEF KernelInv, TypeOK
<1>3. ASSUME NEW t \in Task, state[t] = "WAITING" PROVE wakeTime[t] > tickCount
  <2>1. t \in Elems(waitingTasks)
    BY <1>3 DEF KernelInv, NoTaskLost, TimedInv, UnusedReady
  <2>2. PICK i \in 1..Len(waitingTasks) : t = waitingTasks[i]
    BY <1>2, <2>1, ElemsFacts
  <2>3. waitingTasks # <<>> /\ Head(waitingTasks) = waitingTasks[1]
        /\ 1 \in 1..Len(waitingTasks) /\ waitingTasks[1] \in Task
        /\ DOMAIN waitingTasks = 1..Len(waitingTasks)
    BY <1>2, <2>2
  <2>4. /\ wakeTime[waitingTasks[1]] \in Nat /\ wakeTime[t] \in Nat
    BY <1>2, <2>3, HandleFacts
  <2>5. wakeTime[waitingTasks[1]] > tickCount
    BY <1>1, <1>2, <2>3, <2>4 DEF SleeperDue
  <2>6. wakeTime[waitingTasks[1]] <= wakeTime[t]
    <3>1. CASE i = 1
      BY <2>2, <2>4, <3>1
    <3>2. CASE i # 1
      BY <2>2, <2>3, <3>2 DEF WaitingSorted
    <3> QED BY <3>1, <3>2
  <2> QED BY <1>2, <2>4, <2>5, <2>6
<1>4. ASSUME NEW t \in Task PROVE Timely(t)'
  <2>1. CASE state[t] = "WAITING" /\ ~spans[t]
    <3>1. Counted(t)
      BY <2>1 DEF TimedInv, Timely
    <3>2. wakeTime[t] > tickCount
      BY <1>3, <2>1
    <3>3. due[t] \in Nat /\ wakeTime[t] \in Nat
      BY <1>2, HandleFacts DEF TimedInv, HistoryTypeOK
    <3> QED BY <1>1, <1>2, <2>1, <3>1, <3>2, <3>3 DEF Timely, Counted
  <2>2. CASE ~(state[t] = "WAITING" /\ ~spans[t])
    BY <1>1, <2>2 DEF TimedInv, Timely
  <2> QED BY <2>1, <2>2
<1> QED BY <1>1, <1>4 DEF TimedInv, UnusedReady, HistoryTypeOK

\* mk_initKernel drops the tasks, none of which has ever waited, and
\* mk_createTask uses a slot that no sleeper had.
LEMMA TimedPool ==
    ASSUME KernelInv, TimedInv, UNCHANGED <<due, spans>>,
           mk_initKernel \/ \E p \in Level : mk_createTask(p)
    PROVE  TimedInv'
<1>1. state \in [Handle -> TaskState] /\ wakeTime \in [Handle -> 0..(TickMod - 1)]
      /\ active \in [Task -> BOOLEAN]
  BY DEF KernelInv, TypeOK
<1>2. CASE mk_initKernel
  <2>1. /\ state' = [state EXCEPT ![Idle] = "READY"]
        /\ UNCHANGED <<tickCount, wakeTime, inTick>> /\ ~started
    BY <1>2 DEF mk_initKernel, handler
  <2>2. \A t \in Task : state[t] = "READY" /\ state'[t] = "READY"
    BY <1>1, <2>1, HandleFacts DEF KernelInv, LifeCycle
  <2> QED BY <2>1, <2>2 DEF TimedInv, HistoryTypeOK, UnusedReady, Timely
<1>3. ASSUME NEW p \in Level, mk_createTask(p) PROVE TimedInv'
  <2>1. PICK t \in Task :
          /\ ~active[t]
          /\ active' = [active EXCEPT ![t] = TRUE]
          /\ wakeTime' = [wakeTime EXCEPT ![t] = 0]
          /\ state' = [state EXCEPT ![t] =
                          IF HasRoom(readyTasks, p) THEN "READY" ELSE @]
    BY <1>3, Zenon DEF mk_createTask, mk_sched_addReadyTask
  <2>2. state[t] = "READY"
    BY <2>1 DEF TimedInv, UnusedReady
  <2>3. \A u \in Task : state'[u] = state[u]
    BY <1>1, <2>1, <2>2, HandleFacts
  <2>4. tickCount' = tickCount /\ inTick' = inTick
    BY <1>3 DEF mk_createTask, handler
  <2>5. ASSUME NEW u \in Task PROVE Timely(u)'
    <3>1. CASE u = t
      BY <2>2, <2>3, <3>1 DEF TimedInv, Timely
    <3>2. CASE u # t
      <4>1. wakeTime'[u] = wakeTime[u]
        BY <1>1, <2>1, <3>2, HandleFacts
      <4> QED BY <2>3, <2>4, <4>1, TimelyKept DEF TimedInv
    <3> QED BY <3>1, <3>2
  <2>6. UnusedReady'
    BY <1>1, <2>1, <2>2, <2>3 DEF TimedInv, UnusedReady
  <2> QED BY <2>5, <2>6 DEF TimedInv, HistoryTypeOK
<1> QED BY <1>2, <1>3

\* mk_stopTask stops a READY task, of whose wait nothing is due.
LEMMA TimedStop ==
    ASSUME KernelInv, TimedInv, UNCHANGED <<due, spans>>,
           NEW id \in TaskIDs, mk_stopTask(id)
    PROVE  TimedInv'
<1>1. PICK t \in Task :
        /\ mk_task_getTaskByID(id, t) /\ state[t] = "READY"
        /\ state' = [state EXCEPT ![t] = "STOPPED"]
  BY Zenon DEF mk_stopTask
<1>2. active[t] /\ UNCHANGED <<active, tickCount, wakeTime, inTick>>
  BY <1>1 DEF mk_stopTask, mk_task_getTaskByID, handler
<1>3. state \in [Handle -> TaskState]
  BY DEF KernelInv, TypeOK
<1>4. state'[t] = "STOPPED" /\ \A u \in Task : u # t => state'[u] = state[u]
  BY <1>1, <1>3, HandleFacts
<1>5. ASSUME NEW u \in Task PROVE Timely(u)'
  <2>1. CASE u = t
    BY <1>1, <1>4, <2>1 DEF TimedInv, Timely
  <2>2. CASE u # t
    BY <1>2, <1>4, <2>2, TimelyKept DEF TimedInv
  <2> QED BY <2>1, <2>2
<1>6. UnusedReady'
  BY <1>2, <1>4 DEF TimedInv, UnusedReady
<1> QED BY <1>5, <1>6 DEF TimedInv, HistoryTypeOK

\* mk_sched_getNextTask chooses among READY tasks and changes no state.
LEMMA TimedSwitch ==
    ASSUME KernelInv, KernelInv', TimedInv, UNCHANGED <<due, spans>>,
           mk_startKernel \/ PendSV_Handler
    PROVE  TimedInv'
<1>1. /\ UNCHANGED <<active, priority, tickCount, wakeTime, waitingTasks,
                     stoppedTasks, inTick>>
      /\ \/ mk_sched_getNextTask(Idle) /\ ~started
         \/ mk_sched_getNextTask(currentTask) /\ pendSV
  BY DEF mk_startKernel, PendSV_Handler, handler
<1>2. PICK from : mk_sched_getNextTask(from) /\ Scheduling(from)
  BY <1>1, HandleFacts DEF KernelInv, LifeCycle, Scheduling
<1>3. state' = state
  BY <1>1, <1>2, GetNextStep DEF KernelInv
<1> QED BY <1>1, <1>3, TimedQuiet

LEMMA TimedStep ==
    KernelInv /\ KernelInv' /\ WaitingSorted /\ TimedInv /\ [TimedNext]_timedVars
      => TimedInv'
<1> SUFFICES ASSUME KernelInv, KernelInv', WaitingSorted, TimedInv,
                    [TimedNext]_timedVars
             PROVE  TimedInv'
  OBVIOUS
<1>1. CASE UNCHANGED timedVars
  <2>1. UNCHANGED <<active, state, wakeTime, tickCount, inTick, due, spans>>
    BY <1>1 DEF timedVars, vars, tcb, handler
  <2> QED BY <2>1, TimedQuiet
<1>2. CASE \E id \in TaskIDs, d \in WaitTimes : Wait(id, d)
  BY <1>2, TimedWait
<1>3. CASE Tick
  BY <1>3, TimedTick
<1>4. CASE OtherStep
  <2>1. UNCHANGED <<due, spans>>
    BY <1>4 DEF OtherStep
  <2>2. CASE mk_initKernel \/ \E p \in Level : mk_createTask(p)
    BY <2>1, <2>2, TimedPool
  <2>3. CASE mk_startKernel \/ PendSV_Handler
    BY <2>1, <2>3, TimedSwitch
  <2>4. CASE WakeTask
    BY <2>1, <2>4, TimedWake
  <2>5. CASE SysTickExit
    BY <2>1, <2>5, TimedExit
  <2>6. ASSUME NEW id \in TaskIDs, mk_yieldTask(id) PROVE TimedInv'
    <3>1. UNCHANGED <<active, state, wakeTime, tickCount, inTick>>
      BY <2>6 DEF mk_yieldTask, handler
    <3> QED BY <2>1, <3>1, TimedQuiet
  <2>7. ASSUME NEW id \in TaskIDs, mk_stopTask(id) PROVE TimedInv'
    BY <2>1, <2>7, TimedStop
  <2> QED BY <1>4, <2>2, <2>3, <2>4, <2>5, <2>6, <2>7 DEF OtherStep
<1> QED BY <1>1, <1>2, <1>3, <1>4 DEF TimedNext

\* A task that waits is neither woken early nor left asleep, whatever the other
\* sleepers, wrapped ones among them, do to the waiting list, for every number
\* of tasks, every width of the counter and all durations.
THEOREM WaitsArePunctual == TimedSpec => []PunctualWithoutWrap
<1>1. TimedInit => Init /\ TimedInv
  <2>1. ASSUME TimedInit PROVE TimedInv
    <3>1. due = [t \in Task |-> 0] /\ spans = [t \in Task |-> FALSE]
          /\ state = [h \in Handle |-> "READY"]
      BY <2>1 DEF TimedInit, Init
    <3>2. \A t \in Task : state[t] = "READY" /\ due[t] = 0
      BY <3>1, HandleFacts
    <3> QED BY <3>1, <3>2 DEF TimedInv, HistoryTypeOK, UnusedReady, Timely
  <2> QED BY <2>1 DEF TimedInit
<1>2. [TimedNext]_timedVars => [Next]_vars
  BY TimedIsKernel DEF timedVars
<1>3. TimedInv => PunctualWithoutWrap
  <2> SUFFICES ASSUME TimedInv, NEW t \in Task, ~spans[t], ~inTick
               PROVE  state[t] = "WAITING" <=> due[t] > 0
    BY DEF PunctualWithoutWrap, OnTime
  <2>1. Timely(t)
    BY DEF TimedInv
  <2> QED BY <2>1 DEF Timely, Counted
<1>4. TimedSpec => Spec
  BY <1>1, <1>2, PTL DEF TimedSpec, Spec
<1> QED BY <1>1, <1>3, <1>4, Safety, SleepersSorted, TimedStep, PTL DEF TimedSpec
=============================================================================
