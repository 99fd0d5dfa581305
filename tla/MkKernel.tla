------------------------------ MODULE MkKernel ------------------------------
(***************************************************************************)
(* The microkernel proper: the kernel API (microkernel.c), the task pool   *)
(* (mk_task.c, mk_globals.c), the scheduler (mk_scheduler.c) and the two   *)
(* exception handlers that drive it (port/arm/cm4f/port.c).                *)
(*                                                                         *)
(* A task is its handle, its index in _mk_taskPool; the last index is the  *)
(* idle task.  A TCB is spread over one function per field.  A ready queue *)
(* and the waiting and stopped lists are sequences of handles, and         *)
(* mk_taskPriorityBitmap is the set of the levels whose bit is set.  (The  *)
(* ring buffer under the queues is module MkQueue.)                        *)
(*                                                                         *)
(* SysTick and PendSV share the lowest exception priority (port.h:28-29):  *)
(* neither preempts the other, a pending PendSV is taken before SysTick    *)
(* (lower exception number) and before the interrupted task goes on.       *)
(* SysTick_Handler is split into its entry, one step per woken task and    *)
(* its exit, so that every state of its loop is seen.                      *)
(*                                                                         *)
(* Client discipline assumed here, none of it checked by the code:         *)
(*  - a kernel call is not interrupted in the middle (mk_queue.h:97-99);   *)
(*  - the task named by mk_waitTask or mk_stopTask exists, is READY and is *)
(*    not the idle task;                                                   *)
(*  - mk_initKernel and mk_startKernel are called from main only.          *)
(***************************************************************************)
EXTENDS Integers, Sequences, FiniteSets, SequencesExt, SeqSets

CONSTANTS
    MaxTasks,            \* MK_CONFIG_MAX_TASKS
    PriorityLevels,      \* MK_CONFIG_PRIORITY_LEVELS
    TimeSlice,           \* MK_CONFIG_TASK_TIME_SLICE_MS
    MsPerTick,           \* MK_SCHED_MS_PER_TICK
    TickMod,             \* the tick counter is a uint32_t: 2^32
    WaitTimes,           \* the durations tasks ask for
    MaxID,               \* bound: the last task ID the clients use up
    CreateWhileRunning   \* do tasks create tasks, or only main before start?

ASSUME KernelAssumption ==
    /\ MaxTasks \in Nat \ {0} /\ MaxTasks < 32768      \* int16_t handles
    /\ PriorityLevels \in 1..32                        \* mk_config.h:14
    /\ TimeSlice \in Nat \ {0}
    /\ MsPerTick \in Nat \ {0}
    /\ TickMod \in Nat \ {0}
    /\ WaitTimes \subseteq 0..(TickMod - 1)            \* uint32_t durations
    /\ MaxID \in Nat /\ MaxID < 65536                  \* uint16_t IDs
    /\ CreateWhileRunning \in BOOLEAN

Task   == 0..(MaxTasks - 1)
Idle   == MaxTasks
Handle == 0..MaxTasks
Level  == 0..(PriorityLevels - 1)
NoTask == -1                                  \* _mk_currentTask == NULL

TaskState == {"READY", "WAITING", "STOPPED"}

VARIABLES
    initialized, started,        \* kernel_initialized, kernel_started
    currentTask,                 \* _mk_currentTask
    tickCount,                   \* _mk_kernelTickCount
    currentTaskID,               \* _mk_currentTaskID, the next ID
    active,                      \* TCB: stackPtr != NULL
    priority, taskID, state, timeLeft, wakeTime,     \* TCB fields
    readyTasks, bitmap,          \* mk_readyTasks, mk_taskPriorityBitmap
    waitingTasks, stoppedTasks,  \* the lists from mk_waiting/stoppedTasksHead
    pendSV,                      \* the PENDSVSET bit
    inTick, reschedule           \* in SysTick_Handler, and its local flag

tcb     == <<active, priority, taskID, state, timeLeft, wakeTime>>
sched   == <<readyTasks, bitmap, waitingTasks, stoppedTasks>>
handler == <<inTick, reschedule>>
boot    == <<initialized, started>>
vars    == <<boot, currentTask, tickCount, currentTaskID, tcb, sched, pendSV,
             handler>>

-----------------------------------------------------------------------------
(* The C start-up code zeroes .bss, so state is READY (0) everywhere.      *)
(* A definition named Bug_... is a faulty variant of the one after it: the *)
(* runs show that the properties tell the two apart.                       *)

\* _mk_currentTaskID once started at 0, the ID of the idle task (BUGS.md).
Bug_FirstTaskID == 0
FirstTaskID == 1

Init ==
    /\ initialized = FALSE /\ started = FALSE
    /\ currentTask = NoTask
    /\ tickCount = 0
    /\ currentTaskID = FirstTaskID
    /\ active   = [t \in Task   |-> FALSE]
    /\ priority = [h \in Handle |-> 0]
    /\ taskID   = [h \in Handle |-> 0]
    /\ state    = [h \in Handle |-> "READY"]
    /\ timeLeft = [h \in Handle |-> 0]
    /\ wakeTime = [h \in Handle |-> 0]
    /\ readyTasks = [p \in Level |-> <<>>]
    /\ bitmap = {}
    /\ waitingTasks = <<>> /\ stoppedTasks = <<>>
    /\ pendSV = FALSE
    /\ inTick = FALSE /\ reschedule = FALSE

-----------------------------------------------------------------------------
(* Scheduler helpers.                                                      *)

\* mk_sched_addReadyTask on the queues rq, for a task of level p.  A full
\* queue refuses the push, and then neither bit nor state change.
HasRoom(rq, p) == Len(rq[p]) < MaxTasks

Pushed(rq, t, p) ==
    IF HasRoom(rq, p) THEN [rq EXCEPT ![p] = Append(@, t)] ELSE rq

BitSet(rq, p) == IF HasRoom(rq, p) THEN bitmap \cup {p} ELSE bitmap

mk_sched_addReadyTask(rq, t, p) ==
    /\ readyTasks' = Pushed(rq, t, p)
    /\ bitmap' = BitSet(rq, p)
    /\ state' = [state EXCEPT ![t] = IF HasRoom(rq, p) THEN "READY" ELSE @]

\* The rotation of mk_sched_removeReadyTask keeps the order of the others.
\* (It would drop every copy of t; ScheduledOnce says there is at most one.)
Bug_NotRemoved(q, t) == q

Without(q, t) ==
    IF \E i \in DOMAIN q : q[i] = t
      THEN RemoveAt(q, CHOOSE i \in DOMAIN q : q[i] = t)
      ELSE q

\* mk_sched_removeReadyTask: the bit goes when the queue is left empty, also
\* when t is the current task, which is in no queue.
Bug_BitKept(t) ==
    /\ readyTasks' =
          [readyTasks EXCEPT ![priority[t]] = Without(readyTasks[priority[t]], t)]
    /\ UNCHANGED bitmap

mk_sched_removeReadyTask(t) ==
    LET q == Without(readyTasks[priority[t]], t)
    IN  /\ readyTasks' = [readyTasks EXCEPT ![priority[t]] = q]
        /\ bitmap' = IF q = <<>> THEN bitmap \ {priority[t]} ELSE bitmap

\* Where mk_sched_addWaitingTask inserts a task that wakes at w: before the
\* first sleeper with a later wake time, at the end when there is none.
Bug_InsertAtEnd(w, i) == i = Len(waitingTasks) + 1

InsertPoint(w, i) ==
    /\ \A j \in 1..(i - 1) : wakeTime[waitingTasks[j]] <= w
    /\ i <= Len(waitingTasks) => w < wakeTime[waitingTasks[i]]

mk_sched_addWaitingTask(t, w) ==
    \E i \in 1..(Len(waitingTasks) + 1) :
        /\ InsertPoint(w, i)
        /\ waitingTasks' = InsertAt(waitingTasks, i, t)

mk_sched_addStoppedTask(t) == stoppedTasks' = InsertAt(stoppedTasks, 1, t)

\* __builtin_clz of the bitmap.
IsHighest(h) == h \in bitmap /\ \A l \in bitmap : h <= l

\* The condition of mk_scheduler.c:186-188.
Bug_BlockedIgnored(from, h) ==
    h < priority[from] \/ (h = priority[from] /\ timeLeft[from] = 0)

Bug_SliceIgnored(from, h) == state[from] # "READY" \/ h < priority[from]

ShouldSwitch(from, h) ==
    \/ state[from] # "READY"
    \/ h < priority[from]
    \/ h = priority[from] /\ timeLeft[from] = 0

\* mk_scheduler.c:172-178.
RunIdle(from) ==
    /\ bitmap = {} /\ state[from] # "READY"
    /\ currentTask' = Idle
    /\ state' = [state EXCEPT ![Idle] = "READY"]
    /\ UNCHANGED <<timeLeft, readyTasks, bitmap>>

\* No reason to switch, or the pop of lines 192-195 fails: the caller ignores
\* the -1.  With no bit set the clz instruction gives 32, below every level.
KeepCurrent(from) ==
    /\ bitmap = {} => state[from] = "READY"
    /\ \A h \in bitmap :
          IsHighest(h) => ~ShouldSwitch(from, h) \/ readyTasks[h] = <<>>
    /\ currentTask' = from
    /\ UNCHANGED <<state, timeLeft, readyTasks, bitmap>>

\* Lines 190-209: pop first, then requeue the preempted task.
Bug_NotRequeued(from, h) ==
    /\ IsHighest(h) /\ ShouldSwitch(from, h) /\ readyTasks[h] # <<>>
    /\ readyTasks' = [readyTasks EXCEPT ![h] = Tail(@)]
    /\ currentTask' = Head(readyTasks[h])
    /\ timeLeft' = [timeLeft EXCEPT ![Head(readyTasks[h])] = TimeSlice]
    /\ UNCHANGED <<bitmap, state>>

SwitchTo(from, h) ==
    LET next   == Head(readyTasks[h])
        popped == [readyTasks EXCEPT ![h] = Tail(@)]
    IN  /\ IsHighest(h) /\ ShouldSwitch(from, h) /\ readyTasks[h] # <<>>
        /\ IF state[from] = "READY" /\ from # Idle
             THEN /\ readyTasks' = Pushed(popped, from, priority[from])
                  /\ bitmap' = BitSet(popped, priority[from])
             ELSE readyTasks' = popped /\ UNCHANGED bitmap
        /\ currentTask' = next
        /\ state' = [state EXCEPT ![next] = "READY"]
        /\ timeLeft' = [timeLeft EXCEPT ![next] = TimeSlice]

mk_sched_getNextTask(from) ==
    RunIdle(from) \/ KeepCurrent(from) \/ \E h \in bitmap : SwitchTo(from, h)

-----------------------------------------------------------------------------
(* The kernel API.  Main runs until the kernel is started, then a task     *)
(* does, when no exception is pending or active.  The idle task only loops. *)

ClientRuns == started /\ ~pendSV /\ ~inTick /\ currentTask \in Task

\* mk_task_getTaskByID: the first slot that holds the ID and is in use.
mk_task_getTaskByID(id, t) ==
    LET Found(h) == taskID[h] = id /\ (h \in Task => active[h])
    IN  Found(t) /\ \A h \in 0..(t - 1) : ~Found(h)

\* mk_initKernel, which main may call again before it starts the kernel.
\* mk_task_init leaves taskID, priority and state of the pool as they are.
mk_initKernel ==
    /\ ~started
    /\ initialized' = TRUE
    /\ active'   = [t \in Task |-> FALSE]
    /\ priority' = [priority EXCEPT ![Idle] = PriorityLevels - 1]
    /\ taskID'   = [taskID EXCEPT ![Idle] = 0]
    /\ state'    = [state EXCEPT ![Idle] = "READY"]
    /\ timeLeft' = [timeLeft EXCEPT ![Idle] = TimeSlice]
    /\ readyTasks' = [p \in Level |-> <<>>]
    /\ bitmap' = {}
    /\ waitingTasks' = <<>> /\ stoppedTasks' = <<>>
    /\ UNCHANGED <<started, currentTask, tickCount, currentTaskID, wakeTime,
                   pendSV, handler>>

\* mk_createTask takes the lowest free slot.  It never asks for a reschedule.
mk_createTask(p) ==
    /\ initialized
    /\ ~started \/ (ClientRuns /\ CreateWhileRunning)
    /\ currentTaskID <= MaxID
    /\ \E t \in Task :
        /\ ~active[t] /\ \A u \in 0..(t - 1) : active[u]
        /\ active'   = [active EXCEPT ![t] = TRUE]
        /\ priority' = [priority EXCEPT ![t] = p]
        /\ taskID'   = [taskID EXCEPT ![t] = currentTaskID]
        /\ timeLeft' = [timeLeft EXCEPT ![t] = TimeSlice]
        /\ wakeTime' = [wakeTime EXCEPT ![t] = 0]
        /\ mk_sched_addReadyTask(readyTasks, t, p)
    /\ currentTaskID' = currentTaskID + 1
    /\ UNCHANGED <<boot, currentTask, tickCount, waitingTasks, stoppedTasks,
                   pendSV, handler>>

\* mk_startKernel and mk_sched_start: schedule once from the idle task.
mk_startKernel ==
    /\ initialized /\ ~started
    /\ started' = TRUE
    /\ mk_sched_getNextTask(Idle)
    /\ UNCHANGED <<initialized, tickCount, currentTaskID, active, priority,
                   taskID, wakeTime, waitingTasks, stoppedTasks, pendSV,
                   handler>>

\* mk_waitTask: the wake time is a uint32_t sum.
mk_waitTask(id, d) ==
    /\ ClientRuns
    /\ \E t \in Task :
        LET w == (tickCount + d) % TickMod
        IN  /\ mk_task_getTaskByID(id, t) /\ state[t] = "READY"
            /\ wakeTime' = [wakeTime EXCEPT ![t] = w]
            /\ mk_sched_removeReadyTask(t)
            /\ state' = [state EXCEPT ![t] = "WAITING"]
            /\ mk_sched_addWaitingTask(t, w)
    /\ pendSV' = TRUE
    /\ UNCHANGED <<boot, currentTask, tickCount, currentTaskID, active,
                   priority, taskID, timeLeft, stoppedTasks, handler>>

\* mk_yieldTask, of any task whatever its state.
mk_yieldTask(id) ==
    /\ ClientRuns
    /\ \E h \in Handle :
        /\ mk_task_getTaskByID(id, h)
        /\ timeLeft' = [timeLeft EXCEPT ![h] = 0]
    /\ pendSV' = TRUE
    /\ UNCHANGED <<boot, currentTask, tickCount, currentTaskID, active,
                   priority, taskID, state, wakeTime, sched, handler>>

mk_stopTask(id) ==
    /\ ClientRuns
    /\ \E t \in Task :
        /\ mk_task_getTaskByID(id, t) /\ state[t] = "READY"
        /\ mk_sched_removeReadyTask(t)
        /\ state' = [state EXCEPT ![t] = "STOPPED"]
        /\ mk_sched_addStoppedTask(t)
    /\ pendSV' = TRUE
    /\ UNCHANGED <<boot, currentTask, tickCount, currentTaskID, active,
                   priority, taskID, timeLeft, wakeTime, waitingTasks, handler>>

-----------------------------------------------------------------------------
(* The exception handlers.                                                 *)

\* SysTick_Handler enters mk_sched_incrementSystemTick.
SysTickEnter ==
    /\ started /\ ~pendSV /\ ~inTick
    /\ tickCount' = (tickCount + 1) % TickMod
    /\ inTick' = TRUE
    /\ UNCHANGED <<boot, currentTask, currentTaskID, tcb, sched, pendSV,
                   reschedule>>

Bug_DueStrictly ==
    waitingTasks # <<>> /\ wakeTime[Head(waitingTasks)] < tickCount

SleeperDue ==
    waitingTasks # <<>> /\ wakeTime[Head(waitingTasks)] <= tickCount

\* Line 229: is the woken task t of a higher level than the current one?
Bug_ComparedBackwards(t) == priority[t] > priority[currentTask]
Preempts(t) == priority[t] < priority[currentTask]

\* One turn of the loop at mk_scheduler.c:223-238.
WakeTask ==
    LET t == Head(waitingTasks)
    IN  /\ inTick /\ SleeperDue
        /\ reschedule' = (reschedule \/ Preempts(t))
        /\ mk_sched_addReadyTask(readyTasks, t, priority[t])
        /\ waitingTasks' = Tail(waitingTasks)
        /\ UNCHANGED <<boot, currentTask, tickCount, currentTaskID, active,
                       priority, taskID, timeLeft, wakeTime, stoppedTasks,
                       pendSV, inTick>>

\* What one tick leaves of a time slice.
Bug_SliceUnderflow(left) == left - MsPerTick
SliceAfterTick(left) == IF left > MsPerTick THEN left - MsPerTick ELSE 0

\* Lines 241-261, and the PendSV request of SysTick_Handler.
SysTickExit ==
    /\ inTick /\ ~SleeperDue
    /\ timeLeft' = [timeLeft EXCEPT ![currentTask] = SliceAfterTick(@)]
    /\ pendSV' = (reschedule \/ SliceAfterTick(timeLeft[currentTask]) = 0)
    /\ inTick' = FALSE /\ reschedule' = FALSE
    /\ UNCHANGED <<boot, currentTask, tickCount, currentTaskID, active,
                   priority, taskID, state, wakeTime, sched>>

\* PendSV_Handler: taking the exception clears its pending bit.
PendSV_Handler ==
    /\ pendSV
    /\ pendSV' = FALSE
    /\ mk_sched_getNextTask(currentTask)
    /\ UNCHANGED <<boot, tickCount, currentTaskID, active, priority, taskID,
                   wakeTime, waitingTasks, stoppedTasks, handler>>

-----------------------------------------------------------------------------
TaskIDs == 0..MaxID

KernelCall ==
    \/ mk_initKernel
    \/ \E p \in Level : mk_createTask(p)
    \/ mk_startKernel
    \/ \E id \in TaskIDs, d \in WaitTimes : mk_waitTask(id, d)
    \/ \E id \in TaskIDs : mk_yieldTask(id)
    \/ \E id \in TaskIDs : mk_stopTask(id)

SysTick_Handler == SysTickEnter \/ WakeTask \/ SysTickExit

Next == KernelCall \/ SysTick_Handler \/ PendSV_Handler

Spec == Init /\ [][Next]_vars

\* The hardware timer never stops, and a tick that stays pending while the
\* tasks keep PendSV busy is taken as soon as PendSV returns (same priority,
\* before thread mode): strong fairness.  An active or pending handler runs.
Fairness ==
    /\ SF_vars(SysTickEnter)
    /\ WF_vars(WakeTask) /\ WF_vars(SysTickExit)
    /\ WF_vars(PendSV_Handler)

FairSpec == Spec /\ Fairness
-----------------------------------------------------------------------------
(* Properties.                                                             *)

\* The type invariant.
TypeOK ==
    /\ initialized \in BOOLEAN /\ started \in BOOLEAN
    /\ currentTask \in Handle \cup {NoTask}
    /\ tickCount \in 0..(TickMod - 1)
    /\ currentTaskID \in FirstTaskID..(MaxID + 1)
    /\ active   \in [Task -> BOOLEAN]
    /\ priority \in [Handle -> Level]
    /\ taskID   \in [Handle -> 0..MaxID]
    /\ state    \in [Handle -> TaskState]
    /\ timeLeft \in [Handle -> 0..TimeSlice]
    /\ wakeTime \in [Handle -> 0..(TickMod - 1)]
    /\ readyTasks \in [Level -> Seq(Task)]
    /\ bitmap \subseteq Level
    /\ waitingTasks \in Seq(Task) /\ stoppedTasks \in Seq(Task)
    /\ pendSV \in BOOLEAN /\ inTick \in BOOLEAN /\ reschedule \in BOOLEAN

\* Before the kernel starts there is no current task and nothing sleeps or is
\* stopped; then the current task exists, and a pending PendSV excludes a
\* SysTick in progress.
LifeCycle ==
    /\ ~initialized => ~started /\ \A t \in Task : ~active[t]
    /\ ~started => /\ currentTask = NoTask /\ ~pendSV /\ ~inTick
                   /\ waitingTasks = <<>> /\ stoppedTasks = <<>>
                   /\ \A h \in Handle : state[h] = "READY"
    /\ started => /\ currentTask \in Handle
                  /\ state[Idle] = "READY"
                  /\ currentTask \in Task => active[currentTask]
    /\ inTick => ~pendSV
    /\ reschedule => inTick

\* No task is scheduled twice: whatever is queued at a level is a READY task
\* of that level other than the one on the CPU, whatever is in the waiting or
\* the stopped list has that state, and no handle occurs twice in any of them
\* (mk_sched_addReadyTask, addWaitingTask and addStoppedTask never look
\* whether the task is somewhere already).
ScheduledOnce ==
    /\ \A p \in Level :
        /\ Once(readyTasks[p])
        /\ \A t \in Elems(readyTasks[p]) :
             /\ active[t] /\ state[t] = "READY"
             /\ priority[t] = p /\ t # currentTask
    /\ Once(waitingTasks)
    /\ \A t \in Elems(waitingTasks) : active[t] /\ state[t] = "WAITING"
    /\ Once(stoppedTasks)
    /\ \A t \in Elems(stoppedTasks) : active[t] /\ state[t] = "STOPPED"

\* No task is lost: every created task is on the CPU, in the ready queue of
\* its level, in the waiting list or in the stopped list, as its state says
\* (a q_push refused in mk_sched_addReadyTask would drop it: the callers in
\* mk_sched_getNextTask and mk_sched_incrementSystemTick ignore the -1).
NoTaskLost ==
    \A t \in Task : active[t] =>
        \/ state[t] = "READY" /\ t = currentTask
        \/ state[t] = "READY" /\ t \in Elems(readyTasks[priority[t]])
        \/ state[t] = "WAITING" /\ t \in Elems(waitingTasks)
        \/ state[t] = "STOPPED" /\ t \in Elems(stoppedTasks)

\* The bitmap that mk_sched_getNextTask trusts: every level with a queued task
\* has its bit, and a bit over an empty queue is the one that the READY task
\* on the CPU left behind when it was popped (the pop clears no bit).
BitmapExact ==
    \A p \in Level :
        /\ readyTasks[p] # <<>> => p \in bitmap
        /\ p \in bitmap /\ readyTasks[p] = <<>> =>
              currentTask \in Task /\ state[currentTask] = "READY"
              /\ priority[currentTask] = p

\* A blocked task keeps the CPU no longer than until the pending PendSV: in
\* the states in which a task executes, the current task is READY.
NoBlockedTaskRuns == started /\ ~pendSV => state[currentTask] = "READY"

\* The inductive invariant.
KernelInv ==
    TypeOK /\ LifeCycle /\ ScheduledOnce /\ NoTaskLost /\ BitmapExact
    /\ NoBlockedTaskRuns

\* mk_sched_incrementSystemTick stops at the first sleeper that is not due:
\* right only while the list is sorted by wake time (mk_scheduler.c:90-91).
WaitingSorted ==
    \A i, j \in DOMAIN waitingTasks :
        i < j => wakeTime[waitingTasks[i]] <= wakeTime[waitingTasks[j]]

\* A task ID names one task: two tasks in use, or a task and the idle task
\* (ID 0), never share one, over re-initialisations too.
IDsUnique ==
    \A t \in Task : active[t] =>
        taskID[t] # 0 /\ \A u \in Task : active[u] /\ taskID[u] = taskID[t] => u = t

\* When every task is created before the kernel starts, a task that runs is
\* one that should: no queued task has a higher level, none has the same level
\* once its slice is used up (mk_scheduler.c:182-185), so that no event that
\* makes a task eligible forgets the reschedule.
RunningIsEligible ==
    started /\ ~pendSV /\ ~inTick =>
        \A p \in Level : readyTasks[p] # <<>> =>
            /\ p >= priority[currentTask]
            /\ p = priority[currentTask] => timeLeft[currentTask] > 0

\* Every sleeper wakes up (mk_waitTask), also when the tick count wraps around.
SleepersWake ==
    \A t \in Task : started /\ state[t] = "WAITING" ~> state[t] = "READY"

Queued(t) == started /\ t \in Elems(readyTasks[priority[t]])

HigherReady(t) ==
    \E u \in Task : active[u] /\ state[u] = "READY" /\ priority[u] < priority[t]

\* Round robin starves nobody within a level: a queued task gets the CPU,
\* unless it is taken off the queue or a task of a higher level becomes READY.
EveryReadyTaskGetsItsTurn ==
    \A t \in Task :
        Queued(t) ~> currentTask = t \/ state[t] # "READY" \/ HigherReady(t)
=============================================================================
