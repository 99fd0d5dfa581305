---------------------- MODULE MkKernelRefinement_proofs ----------------------
(***************************************************************************)
(* MkKernel implements PriorityScheduler: each action is the abstract one  *)
(* of the same purpose, or changes nothing that PhaseOf shows.  The        *)
(* invariant KernelInv says where a ready task is found, and IdleAtStart   *)
(* what mk_sched_start compares the queued tasks with.                     *)
(***************************************************************************)
EXTENDS MkKernelRefinement, MkKernel_proofs

\* Until the kernel starts, the idle task is as mk_sched_init left it.
IdleAtStart ==
    initialized /\ ~started =>
        priority[Idle] = PriorityLevels - 1 /\ timeLeft[Idle] = TimeSlice

RefInv == KernelInv /\ IdleAtStart

\* Only mk_initKernel and mk_createTask run before the start.
LEMMA IdleAtStartStep == RefInv /\ [Next]_vars => IdleAtStart'
<1> SUFFICES ASSUME RefInv, [Next]_vars, initialized', ~started'
             PROVE  priority'[Idle] = PriorityLevels - 1 /\ timeLeft'[Idle] = TimeSlice
  BY DEF IdleAtStart
<1>1. /\ priority \in [Handle -> Level] /\ timeLeft \in [Handle -> 0..TimeSlice]
      /\ started \in BOOLEAN
      /\ started \/ (~pendSV /\ ~inTick)
  BY DEF RefInv, KernelInv, TypeOK, LifeCycle
<1>2. CASE mk_initKernel
  BY <1>1, <1>2, HandleFacts DEF mk_initKernel
<1>3. ASSUME NEW p \in Level, mk_createTask(p)
      PROVE  priority'[Idle] = PriorityLevels - 1 /\ timeLeft'[Idle] = TimeSlice
  <2>1. PICK t \in Task : /\ priority' = [priority EXCEPT ![t] = p]
                          /\ timeLeft' = [timeLeft EXCEPT ![t] = TimeSlice]
    BY <1>3, Zenon DEF mk_createTask
  <2>2. initialized /\ ~started
    BY <1>3 DEF mk_createTask, boot
  <2> QED BY <1>1, <2>1, <2>2, HandleFacts DEF RefInv, IdleAtStart
<1>4. CASE UNCHANGED vars
  BY <1>4 DEF vars, boot, tcb, RefInv, IdleAtStart
<1>5. CASE mk_startKernel
  BY <1>5 DEF mk_startKernel
<1>6. ASSUME NEW id \in TaskIDs, NEW d \in WaitTimes, mk_waitTask(id, d) PROVE FALSE
  BY <1>6 DEF mk_waitTask, ClientRuns, boot
<1>7. ASSUME NEW id \in TaskIDs, mk_yieldTask(id) PROVE FALSE
  BY <1>7 DEF mk_yieldTask, ClientRuns, boot
<1>8. ASSUME NEW id \in TaskIDs, mk_stopTask(id) PROVE FALSE
  BY <1>8 DEF mk_stopTask, ClientRuns, boot
<1>9. CASE SysTickEnter
  BY <1>9 DEF SysTickEnter, boot
<1>10. CASE WakeTask
  BY <1>1, <1>10 DEF WakeTask, boot
<1>11. CASE SysTickExit
  BY <1>1, <1>11 DEF SysTickExit, boot
<1>12. CASE PendSV_Handler
  BY <1>1, <1>12 DEF PendSV_Handler, boot
<1> QED BY <1>2, <1>3, <1>4, <1>5, <1>6, <1>7, <1>8, <1>9, <1>10, <1>11, <1>12
        DEF Next, KernelCall, SysTick_Handler

-----------------------------------------------------------------------------
Phases == [t \in Task |-> PhaseOf(t)]
Levels == [t \in Task |-> priority[t]]

\* A step that shows in no phase is a stutter of the abstract scheduler.
LEMMA Hidden ==
    ASSUME TypeOK, TypeOK',
           UNCHANGED <<started, active, state, currentTask>>,
           \A t \in Task : priority'[t] = priority[t]
    PROVE  UNCHANGED Abstract!abstractVars
<1>1. \A t \in Task : PhaseOf(t)' = PhaseOf(t)
  BY DEF PhaseOf
<1>2. Phases' = Phases /\ Levels' = Levels
  BY <1>1 DEF Phases, Levels
<1> QED BY <1>2 DEF Abstract!abstractVars, Phases, Levels

\* What each phase means for a task.
LEMMA PhaseFacts ==
    ASSUME KernelInv, NEW t \in Task
    PROVE  /\ PhaseOf(t) = "absent" <=> ~active[t]
           /\ PhaseOf(t) = "ready" <=> active[t] /\ state[t] = "READY" /\ t # currentTask
           /\ PhaseOf(t) = "running" <=> active[t] /\ state[t] = "READY" /\ t = currentTask
           /\ PhaseOf(t) = "waiting" <=> active[t] /\ state[t] = "WAITING"
           /\ PhaseOf(t) = "stopped" <=> active[t] /\ state[t] = "STOPPED"
<1>1. state[t] \in TaskState
  BY HandleFacts DEF KernelInv, TypeOK
<1> QED BY <1>1 DEF PhaseOf, TaskState

\* The task that SwitchTo pops is the best of the ready ones, and at least as
\* good as the one that runs.
LEMMA SwitchIsBest ==
    ASSUME KernelInv, KernelInv', NEW from, Scheduling(from),
           UNCHANGED <<active, priority, waitingTasks, stoppedTasks>>,
           mk_sched_getNextTask(from),
           NEW h \in bitmap, SwitchTo(from, h)
    PROVE  \E t \in Task : /\ priority[t] = h /\ Abstract!Switch(t)
                           /\ currentTask' = t
<1> DEFINE next == Head(readyTasks[h])
<1>1. /\ readyTasks \in [Level -> Seq(Task)] /\ bitmap \subseteq Level
      /\ priority \in [Handle -> Level]
  BY DEF KernelInv, TypeOK
<1>2. /\ IsHighest(h) /\ ShouldSwitch(from, h) /\ readyTasks[h] # <<>>
      /\ currentTask' = next
  BY DEF SwitchTo
<1>3. next \in Task /\ next \in Elems(readyTasks[h])
  BY <1>1, <1>2, TailFacts
<1> HIDE DEF next
<1>4. active[next] /\ state[next] = "READY" /\ priority[next] = h /\ next # currentTask
  BY <1>1, <1>3 DEF KernelInv, ScheduledOnce
<1>5. state' = state
  BY GetNextStep DEF KernelInv
<1>6. PhaseOf(next) = "ready"
  BY <1>3, <1>4, PhaseFacts
<1>7. ASSUME NEW u \in Task, PhaseOf(u) = "ready" PROVE priority[next] <= priority[u]
  <2>1. active[u] /\ state[u] = "READY" /\ u # currentTask
    BY <1>7, PhaseFacts
  <2>2. u \in Elems(readyTasks[priority[u]])
    BY <2>1 DEF KernelInv, NoTaskLost
  <2>3. priority[u] \in Level
    BY <1>1, HandleFacts
  <2>4. readyTasks[priority[u]] # <<>>
    BY <1>1, <2>2, <2>3, ElemsFacts
  <2>5. priority[u] \in bitmap
    BY <2>3, <2>4 DEF KernelInv, BitmapExact
  <2> QED BY <1>2, <1>4, <2>5 DEF IsHighest
<1>8. ASSUME NEW r \in Task, PhaseOf(r) = "running" PROVE priority[next] <= priority[r]
  <2>1. state[r] = "READY" /\ r = currentTask
    BY <1>8, PhaseFacts
  <2>2. r = from
    BY <2>1, HandleFacts DEF Scheduling
  <2>3. priority[r] \in Int /\ h \in Int
    BY <1>1, HandleFacts DEF Level
  <2> QED BY <1>2, <1>4, <2>1, <2>2, <2>3 DEF ShouldSwitch
<1>9. ASSUME NEW u \in Task
      PROVE  PhaseOf(u)' = IF u = next THEN "running"
                           ELSE IF PhaseOf(u) = "running" THEN "ready" ELSE PhaseOf(u)
  <2>1. state[u] \in TaskState
    BY HandleFacts DEF KernelInv, TypeOK
  <2> QED BY <1>2, <1>4, <1>5, <2>1 DEF PhaseOf, TaskState
<1>10. Abstract!Switch(next)
  BY <1>3, <1>6, <1>7, <1>8, <1>9 DEF Abstract!Switch, Abstract!IsBest
<1> QED BY <1>2, <1>3, <1>4, <1>10

-----------------------------------------------------------------------------
\* Initial states map to initial states.
LEMMA RefinesInit == Init => Abstract!Init
<1> SUFFICES ASSUME Init PROVE Abstract!Init
  OBVIOUS
<1>1. started = FALSE /\ \A t \in Task : PhaseOf(t) = "absent" /\ priority[t] = 0
  BY HandleFacts DEF Init, PhaseOf
<1> QED BY <1>1 DEF Abstract!Init

\* mk_initKernel forgets every task.
LEMMA RefinesInitKernel ==
    ASSUME KernelInv, mk_initKernel
    PROVE  Abstract!Reset
<1>1. ~started /\ UNCHANGED started
  BY DEF mk_initKernel
<1>2. \A t \in Task : PhaseOf(t)' = "absent"
  BY DEF mk_initKernel, PhaseOf
<1>3. \A t \in Task : priority'[t] = priority[t]
  BY HandleFacts DEF mk_initKernel, KernelInv, TypeOK
<1> QED BY <1>1, <1>2, <1>3 DEF Abstract!Reset

\* mk_createTask makes an absent task ready.
LEMMA RefinesCreate ==
    ASSUME KernelInv, KernelInv', NEW p \in Level, mk_createTask(p)
    PROVE  \E t \in Task : Abstract!Create(t, p)
<1>1. PICK t \in Task :
        /\ ~active[t]
        /\ active'   = [active EXCEPT ![t] = TRUE]
        /\ priority' = [priority EXCEPT ![t] = p]
        /\ mk_sched_addReadyTask(readyTasks, t, p)
  BY Zenon DEF mk_createTask
<1>2. UNCHANGED <<started, currentTask, waitingTasks, stoppedTasks>>
  BY DEF mk_createTask, boot
<1>3. /\ state \in [Handle -> TaskState] /\ priority \in [Handle -> Level]
      /\ active \in [Task -> BOOLEAN] /\ t \in Handle
  BY HandleFacts DEF KernelInv, TypeOK
<1>4. t # currentTask
  BY <1>1, HandleFacts DEF KernelInv, LifeCycle
<1>5. /\ \A u \in Task : active'[u] = (u = t \/ active[u])
      /\ \A u \in Task : priority'[u] = IF u = t THEN p ELSE priority[u]
      /\ \A u \in Task : u # t => state'[u] = state[u]
  BY <1>1, <1>3, HandleFacts DEF mk_sched_addReadyTask
<1>6. state'[t] = "READY"
  <2>1. Once(readyTasks[p]) /\ t \notin Elems(readyTasks[p])
    BY <1>1 DEF KernelInv, ScheduledOnce
  <2>2. HasRoom(readyTasks, p)
    <3>1. readyTasks \in [Level -> Seq(Task)]
      BY DEF KernelInv, TypeOK
    <3> QED BY <2>1, <3>1, EnqueueFacts, Zenon
  <2> QED BY <1>1, <1>3, <2>2 DEF mk_sched_addReadyTask
<1>7. PhaseOf(t) = "absent"
  BY <1>1 DEF PhaseOf
<1>8. \A u \in Task : PhaseOf(u)' = IF u = t THEN "ready" ELSE PhaseOf(u)
  BY <1>2, <1>4, <1>5, <1>6 DEF PhaseOf
<1> QED BY <1>2, <1>5, <1>7, <1>8 DEF Abstract!Create

\* mk_startKernel starts the best task, or the idle task.
LEMMA RefinesStart ==
    ASSUME RefInv, KernelInv', mk_startKernel
    PROVE  Abstract!Start
<1>1. /\ initialized /\ ~started /\ started' = TRUE
      /\ mk_sched_getNextTask(Idle)
      /\ UNCHANGED <<active, priority, waitingTasks, stoppedTasks>>
  BY DEF mk_startKernel
<1>2. /\ KernelInv /\ currentTask = NoTask
      /\ \A h \in Handle : state[h] = "READY"
      /\ priority[Idle] = PriorityLevels - 1 /\ timeLeft[Idle] = TimeSlice
  BY <1>1 DEF RefInv, IdleAtStart, KernelInv, LifeCycle
<1>3. Scheduling(Idle)
  BY <1>2, HandleFacts DEF Scheduling
<1>4. \A t \in Task : priority[t] \in Level
  BY <1>2, HandleFacts DEF KernelInv, TypeOK
<1>5. bitmap \subseteq Level
  BY <1>2 DEF KernelInv, TypeOK
<1>6. CASE RunIdle(Idle)
  BY <1>2, <1>6, HandleFacts DEF RunIdle
<1>7. CASE KeepCurrent(Idle)
  <2>1. currentTask' = Idle /\ state' = state
    BY <1>7 DEF KeepCurrent
  <2>2. \A t \in Task : PhaseOf(t)' = PhaseOf(t)
    BY <1>1, <1>2, <2>1, HandleFacts DEF PhaseOf
  <2>3. ASSUME NEW t \in Task, PhaseOf(t) = "ready"
        PROVE  priority[t] = PriorityLevels - 1
    <3>1. active[t] /\ state[t] = "READY" /\ t # currentTask
      BY <1>2, <2>3, PhaseFacts
    <3>2. t \in Elems(readyTasks[priority[t]])
      BY <1>2, <3>1 DEF KernelInv, NoTaskLost
    <3>3. readyTasks[priority[t]] # <<>>
      BY <1>2, <1>4, <3>2, ElemsFacts DEF KernelInv, TypeOK
    <3>4. priority[t] \in bitmap
      BY <1>2, <1>4, <3>3 DEF KernelInv, BitmapExact
    <3>5. PICK h \in bitmap : IsHighest(h)
      BY <1>5, <3>4, HighestExists
    <3>6. readyTasks[h] # <<>>
      BY <1>2, <1>5, <3>5, HandleFacts DEF KernelInv, BitmapExact
    <3>7. ~ShouldSwitch(Idle, h)
      BY <1>7, <3>5, <3>6 DEF KeepCurrent
    <3>8. h <= priority[t] /\ h \in Level
      BY <1>5, <3>4, <3>5 DEF IsHighest
    <3> QED BY <1>2, <1>4, <3>7, <3>8, KernelAssumption DEF ShouldSwitch, Level
  <2> QED BY <1>1, <2>2, <2>3 DEF Abstract!Start
<1>8. ASSUME NEW h \in bitmap, SwitchTo(Idle, h) PROVE Abstract!Start
  <2>1. PICK t \in Task : priority[t] = h /\ Abstract!Switch(t)
    BY <1>1, <1>2, <1>3, <1>8, SwitchIsBest
  <2>2. ShouldSwitch(Idle, h)
    BY <1>8 DEF SwitchTo
  <2>3. h < PriorityLevels - 1
    BY <1>2, <2>2, HandleFacts, KernelAssumption DEF ShouldSwitch
  <2> QED BY <1>1, <2>1, <2>3 DEF Abstract!Start
<1> QED BY <1>1, <1>6, <1>7, <1>8 DEF mk_sched_getNextTask

\* PendSV gives the CPU to the best ready task, or changes no phase.
LEMMA RefinesPendSV ==
    ASSUME KernelInv, KernelInv', PendSV_Handler
    PROVE  (\E t \in Task : Abstract!Dispatch(t)) \/ UNCHANGED Abstract!abstractVars
<1>1. /\ pendSV /\ mk_sched_getNextTask(currentTask)
      /\ UNCHANGED <<started, active, priority, waitingTasks, stoppedTasks>>
  BY DEF PendSV_Handler, boot
<1>2. started /\ Scheduling(currentTask)
  <2>1. started
    BY <1>1 DEF KernelInv, LifeCycle
  <2>2. currentTask \in Handle /\ state[Idle] = "READY"
    BY <2>1 DEF KernelInv, LifeCycle
  <2> QED BY <2>1, <2>2, Zenon DEF Scheduling
<1>3. state' = state
  BY <1>1, <1>2, GetNextStep DEF KernelInv
<1>4. CASE RunIdle(currentTask)
  <2>1. state[currentTask] # "READY" /\ currentTask' = Idle
    BY <1>4 DEF RunIdle
  <2>2. \A t \in Task : PhaseOf(t)' = PhaseOf(t)
    <3> SUFFICES ASSUME NEW t \in Task PROVE PhaseOf(t)' = PhaseOf(t)
      OBVIOUS
    <3>1. state[t] \in TaskState
      BY HandleFacts DEF KernelInv, TypeOK
    <3> QED BY <1>1, <1>3, <2>1, <3>1, HandleFacts DEF PhaseOf, TaskState
  <2> QED BY <1>1, <2>2 DEF Abstract!abstractVars
<1>5. CASE KeepCurrent(currentTask)
  <2>1. currentTask' = currentTask
    BY <1>5 DEF KeepCurrent
  <2>2. TypeOK /\ TypeOK'
    BY DEF KernelInv
  <2> QED BY <1>1, <1>3, <2>1, <2>2, Hidden
<1>6. ASSUME NEW h \in bitmap, SwitchTo(currentTask, h)
      PROVE  \E t \in Task : Abstract!Dispatch(t)
  <2>1. PICK t \in Task : Abstract!Switch(t)
    BY <1>1, <1>2, <1>6, SwitchIsBest
  <2> QED BY <1>1, <1>2, <2>1 DEF Abstract!Dispatch
<1> QED BY <1>1, <1>4, <1>5, <1>6 DEF mk_sched_getNextTask

\* mk_waitTask and mk_stopTask block a ready or running task.
LEMMA RefinesBlock ==
    ASSUME KernelInv, started, started', NEW t \in Task, active[t], state[t] = "READY",
           NEW new, NEW newPhase,
           \/ new = "WAITING" /\ newPhase = "waiting"
           \/ new = "STOPPED" /\ newPhase = "stopped",
           state' = [state EXCEPT ![t] = new],
           UNCHANGED <<active, priority, currentTask>>
    PROVE  Abstract!Block(t, newPhase)
<1>1. PhaseOf(t) \in {"ready", "running"}
  BY DEF PhaseOf
<1>2. /\ state'[t] = new
      /\ \A u \in Task : u # t => state'[u] = state[u]
  BY HandleFacts DEF KernelInv, TypeOK
<1>3. \A u \in Task : PhaseOf(u)' = IF u = t THEN newPhase ELSE PhaseOf(u)
  BY <1>2 DEF PhaseOf
<1>4. started' = started
  BY DEF KernelInv, TypeOK
<1> QED BY <1>1, <1>3 DEF Abstract!Block

\* A tick that wakes a task makes it ready.
LEMMA RefinesWake ==
    ASSUME KernelInv, KernelInv', WakeTask
    PROVE  \E t \in Task : Abstract!Wake(t)
<1> DEFINE t == Head(waitingTasks)
<1>1. /\ inTick /\ waitingTasks # <<>>
      /\ mk_sched_addReadyTask(readyTasks, t, priority[t])
      /\ UNCHANGED <<started, currentTask, active, priority>>
  BY DEF WakeTask, SleeperDue, boot
<1>2. t \in Task /\ t \in Elems(waitingTasks)
  BY <1>1, TailFacts DEF KernelInv, TypeOK
<1> HIDE DEF t
<1>3. active[t] /\ state[t] = "WAITING"
  BY <1>2 DEF KernelInv, ScheduledOnce
<1>4. started /\ ~pendSV /\ state[currentTask] = "READY"
  BY <1>1 DEF KernelInv, LifeCycle, NoBlockedTaskRuns
<1>5. t # currentTask
  BY <1>3, <1>4
<1>6. HasRoom(readyTasks, priority[t])
  <2>1. readyTasks \in [Level -> Seq(Task)] /\ priority[t] \in Level
    BY <1>2, HandleFacts DEF KernelInv, TypeOK
  <2>2. Once(readyTasks[priority[t]]) /\ t \notin Elems(readyTasks[priority[t]])
    BY <1>3, <2>1 DEF KernelInv, ScheduledOnce
  <2> QED BY <1>2, <2>1, <2>2, EnqueueFacts, Zenon
<1>7. /\ state'[t] = "READY"
      /\ \A u \in Task : u # t => state'[u] = state[u]
  BY <1>1, <1>2, <1>6, HandleFacts DEF mk_sched_addReadyTask, KernelInv, TypeOK
<1>8. \A u \in Task : PhaseOf(u)' = IF u = t THEN "ready" ELSE PhaseOf(u)
  BY <1>1, <1>3, <1>5, <1>7 DEF PhaseOf
<1>9. PhaseOf(t) = "waiting"
  BY <1>3 DEF PhaseOf
<1>10. Abstract!Wake(t)
  BY <1>1, <1>2, <1>4, <1>8, <1>9 DEF Abstract!Wake
<1> QED BY <1>2, <1>10

-----------------------------------------------------------------------------
\* Every step maps to a step of the abstract scheduler or to a stutter.
LEMMA RefinesNext ==
    RefInv /\ KernelInv' /\ [Next]_vars => [Abstract!Next]_Abstract!abstractVars
<1> SUFFICES ASSUME RefInv, KernelInv', [Next]_vars
             PROVE  Abstract!Next \/ UNCHANGED Abstract!abstractVars
  OBVIOUS
<1>1. KernelInv /\ TypeOK /\ TypeOK'
  BY DEF RefInv, KernelInv
<1>2. CASE mk_initKernel
  BY <1>1, <1>2, RefinesInitKernel DEF Abstract!Next
<1>3. ASSUME NEW p \in Level, mk_createTask(p) PROVE Abstract!Next
  <2>1. p \in 0..(PriorityLevels - 1)
    BY DEF Level
  <2> QED BY <1>1, <1>3, <2>1, RefinesCreate DEF Abstract!Next
<1>4. CASE mk_startKernel
  BY <1>4, RefinesStart DEF Abstract!Next
<1>5. ASSUME NEW id \in TaskIDs, NEW d \in WaitTimes, mk_waitTask(id, d)
      PROVE  Abstract!Next
  <2>1. PICK t \in Task :
          /\ mk_task_getTaskByID(id, t) /\ state[t] = "READY"
          /\ state' = [state EXCEPT ![t] = "WAITING"]
    BY <1>5, Zenon DEF mk_waitTask
  <2>2. active[t]
    BY <2>1, Zenon DEF mk_task_getTaskByID
  <2>3. started /\ started' /\ UNCHANGED <<active, priority, currentTask>>
    BY <1>5 DEF mk_waitTask, ClientRuns, boot
  <2>4. Abstract!Block(t, "waiting")
    BY <1>1, <2>1, <2>2, <2>3, RefinesBlock
  <2> QED BY <2>4 DEF Abstract!Next
<1>6. ASSUME NEW id \in TaskIDs, mk_yieldTask(id)
      PROVE  UNCHANGED Abstract!abstractVars
  <2>1. UNCHANGED <<started, active, state, currentTask, priority>>
    BY <1>6 DEF mk_yieldTask, boot
  <2> QED BY <1>1, <2>1, Hidden
<1>7. ASSUME NEW id \in TaskIDs, mk_stopTask(id) PROVE Abstract!Next
  <2>1. PICK t \in Task :
          /\ mk_task_getTaskByID(id, t) /\ state[t] = "READY"
          /\ state' = [state EXCEPT ![t] = "STOPPED"]
    BY <1>7, Zenon DEF mk_stopTask
  <2>2. active[t]
    BY <2>1, Zenon DEF mk_task_getTaskByID
  <2>3. started /\ started' /\ UNCHANGED <<active, priority, currentTask>>
    BY <1>7 DEF mk_stopTask, ClientRuns, boot
  <2>4. Abstract!Block(t, "stopped")
    BY <1>1, <2>1, <2>2, <2>3, RefinesBlock
  <2> QED BY <2>4 DEF Abstract!Next
<1>8. CASE SysTickEnter
  <2>1. UNCHANGED <<started, active, state, currentTask, priority>>
    BY <1>8 DEF SysTickEnter, boot, tcb
  <2> QED BY <1>1, <2>1, Hidden
<1>9. CASE WakeTask
  BY <1>1, <1>9, RefinesWake DEF Abstract!Next
<1>10. CASE SysTickExit
  <2>1. UNCHANGED <<started, active, state, currentTask, priority>>
    BY <1>10 DEF SysTickExit, boot
  <2> QED BY <1>1, <2>1, Hidden
<1>11. CASE PendSV_Handler
  BY <1>1, <1>11, RefinesPendSV DEF Abstract!Next
<1>12. CASE UNCHANGED vars
  <2>1. UNCHANGED <<started, active, state, currentTask, priority>>
    BY <1>12 DEF vars, boot, tcb
  <2> QED BY <1>1, <2>1, Hidden
<1> QED BY <1>2, <1>3, <1>4, <1>5, <1>6, <1>7, <1>8, <1>9, <1>10, <1>11, <1>12
        DEF Next, KernelCall, SysTick_Handler

\* The kernel implements the priority scheduler, for any number of tasks and
\* levels: the CPU is given only to a best ready task, and taken from a running
\* one only for a task that is as good.
THEOREM Refinement == Spec => ImplementsPriorityScheduler
<1>1. Init => RefInv
  BY KernelInvInit DEF RefInv, IdleAtStart, Init
<1>2. RefInv /\ [Next]_vars => RefInv'
  BY KernelInvStep, IdleAtStartStep DEF RefInv
<1>3. RefInv /\ RefInv' /\ [Next]_vars => [Abstract!Next]_Abstract!abstractVars
  BY RefinesNext DEF RefInv
<1> QED BY <1>1, <1>2, <1>3, RefinesInit, PTL
        DEF Spec, ImplementsPriorityScheduler, Abstract!Spec
=============================================================================
