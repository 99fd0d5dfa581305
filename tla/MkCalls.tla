------------------------------- MODULE MkCalls -------------------------------
(***************************************************************************)
(* The blocking calls of the kernel taken apart.  MkKernel takes a call as *)
(* one step and a list as a sequence; here mk_waitTask, mk_stopTask and    *)
(* mk_yieldTask run in the steps between which an exception can come, and  *)
(* the waiting and stopped lists are what they are in memory: the heads    *)
(* and the next and prev fields of the TCBs.  What a call does before its   *)
(* first q_pop, a q_push or a q_pop, and the stores of one branch of the   *)
(* list code are one step each.                                            *)
(*                                                                         *)
(* The kernel never disables interrupts; mk_queue.h:97-98 asks its callers *)
(* to.  Masked says whether the clients do so around a call.  A task keeps *)
(* its place in a call when PendSV switches away from it.                  *)
(***************************************************************************)
EXTENDS Integers, Sequences, FiniteSets

CONSTANTS
    MaxTasks, PriorityLevels, TimeSlice, MsPerTick, TickMod, WaitTimes, MaxID,
    CreateWhileRunning,              \* as in MkKernel
    Masked,                          \* are interrupts off during a call?
    TargetStates                     \* of the tasks named in a wait or a stop

ASSUME CallsAssumption ==
    Masked \in BOOLEAN /\ TargetStates \subseteq {"READY", "WAITING", "STOPPED"}

VARIABLES
    initialized, started, currentTask, tickCount, currentTaskID,
    active, priority, taskID, state, timeLeft, wakeTime,
    readyTasks, bitmap, pendSV, inTick, reschedule,     \* as in MkKernel
    waitingHead, stoppedHead,        \* mk_waitingTasksHead, mk_stoppedTasksHead
    next, prev,                      \* TCB links
    call                             \* where each task is in a kernel call

still == <<initialized, started, currentTask, tickCount, currentTaskID, active,
           priority, taskID, inTick, reschedule>>
links == <<waitingHead, stoppedHead, next, prev>>
callsVars == <<still, state, timeLeft, wakeTime, readyTasks, bitmap, pendSV,
               links, call>>

Nil == -1

\* The handles met along next.  (The cut after MaxTasks + 1 of them makes the
\* definition total when the links go round in a circle.)
Chain(head) ==
    LET at[i \in 0..MaxTasks] ==
          IF i = 0 THEN head
          ELSE IF at[i - 1] = Nil THEN Nil ELSE next[at[i - 1]]
    IN  [i \in 1..Cardinality({j \in 0..MaxTasks : at[j] # Nil}) |-> at[i - 1]]

K == INSTANCE MkKernel WITH
    waitingTasks <- Chain(waitingHead), stoppedTasks <- Chain(stoppedHead)

ASSUME KernelConstants == K!KernelAssumption

Task == K!Task

NoCall == [pc |-> "none"]
InCall == \E c \in Task : call[c] # NoCall

Init ==
    /\ waitingHead = Nil /\ stoppedHead = Nil
    /\ next = [t \in Task |-> Nil] /\ prev = [t \in Task |-> Nil]
    /\ call = [t \in Task |-> NoCall]
    /\ K!Init

-----------------------------------------------------------------------------
(* The steps of a call.  It is the current task that calls.                *)

Me    == call[currentTask]
Level == priority[Me.target]
Ready == readyTasks[Level]

At(pc)   == K!ClientRuns /\ Me.pc = pc
Goto(pc) == call' = [call EXCEPT ![currentTask].pc = pc]

\* Lines 268 and 287: a READY task is taken off its queue first.
Begun(op, t) ==
    [pc |-> IF state[t] = "READY" THEN "pop" ELSE "block", op |-> op,
     target |-> t, left |-> Len(readyTasks[priority[t]]), handle |-> Nil,
     bits |-> {}, cur |-> Nil, before |-> Nil]

Begin(op, t) ==
    /\ K!ClientRuns /\ Me = NoCall
    /\ state[t] \in TargetStates
    /\ call' = [call EXCEPT ![currentTask] = Begun(op, t)]
    /\ UNCHANGED <<still, state, timeLeft, readyTasks, bitmap, pendSV, links>>

mk_waitTask(id, d) ==
    \E t \in Task :
        /\ K!mk_task_getTaskByID(id, t)
        /\ Begin("wait", t)
        /\ wakeTime' = [wakeTime EXCEPT ![t] = (tickCount + d) % TickMod]

mk_stopTask(id) ==
    \E t \in Task :
        K!mk_task_getTaskByID(id, t) /\ Begin("stop", t) /\ UNCHANGED wakeTime

mk_yieldTask(id) ==
    /\ K!ClientRuns /\ Me = NoCall
    /\ \E h \in K!Handle :
        /\ K!mk_task_getTaskByID(id, h)
        /\ timeLeft' = [timeLeft EXCEPT ![h] = 0]
    /\ call' = [call EXCEPT ![currentTask] = [pc |-> "ask", target |-> Nil]]
    /\ UNCHANGED <<still, state, wakeTime, readyTasks, bitmap, pendSV, links>>

\* mk_sched_removeReadyTask pops a task, and gives up when the queue has run
\* empty under it (lines 45-48)...
RotatePop ==
    /\ At("pop") /\ Me.left > 0
    /\ readyTasks' = IF Ready = <<>> THEN readyTasks
                     ELSE [readyTasks EXCEPT ![Level] = Tail(@)]
    /\ call' = [call EXCEPT ![currentTask] =
          IF Ready = <<>> THEN [Me EXCEPT !.pc = "block"]
          ELSE [Me EXCEPT !.left = Me.left - 1, !.handle = Head(Ready),
                          !.pc = IF Head(Ready) = Me.target THEN "pop" ELSE "push"]]
    /\ UNCHANGED <<still, state, timeLeft, wakeTime, bitmap, pendSV, links>>

\* ... and pushes it again when it is another one.
RotatePush ==
    /\ At("push")
    /\ readyTasks' = K!Pushed(readyTasks, Me.handle, Level)
    /\ Goto(IF K!HasRoom(readyTasks, Level) THEN "pop" ELSE "block")
    /\ UNCHANGED <<still, state, timeLeft, wakeTime, bitmap, pendSV, links>>

\* Lines 67-70: the bitmap is loaded, then stored.
LoadBitmap ==
    /\ At("pop") /\ Me.left = 0
    /\ call' = [call EXCEPT ![currentTask] =
          [Me EXCEPT !.bits = bitmap, !.handle = Nil,
                     !.pc = IF Ready = <<>> THEN "store" ELSE "block"]]
    /\ UNCHANGED <<still, state, timeLeft, wakeTime, readyTasks, bitmap, pendSV,
                   links>>

StoreBitmap ==
    /\ At("store")
    /\ bitmap' = Me.bits \ {Level}
    /\ Goto("block")
    /\ UNCHANGED <<still, state, timeLeft, wakeTime, readyTasks, pendSV, links>>

\* Lines 273 and 292.
Block ==
    /\ At("block")
    /\ state' = [state EXCEPT ![Me.target] =
                   IF Me.op = "wait" THEN "WAITING" ELSE "STOPPED"]
    /\ call' = [call EXCEPT ![currentTask] =
          [Me EXCEPT !.pc = IF Me.op = "wait" THEN "head" ELSE "stop",
                     !.left = 0, !.handle = Nil, !.bits = {}]]
    /\ UNCHANGED <<still, timeLeft, wakeTime, readyTasks, bitmap, pendSV, links>>

\* mk_sched_addWaitingTask, lines 77-88.
ListHead ==
    /\ At("head")
    /\ state' = [state EXCEPT ![Me.target] = "WAITING"]
    /\ \/ /\ waitingHead = Nil
          /\ waitingHead' = Me.target
          /\ next' = [next EXCEPT ![Me.target] = Nil]
          /\ prev' = [prev EXCEPT ![Me.target] = Nil]
          /\ Goto("ask")
       \/ /\ waitingHead # Nil
          /\ call' = [call EXCEPT ![currentTask] =
                        [Me EXCEPT !.pc = "walk", !.cur = waitingHead]]
          /\ UNCHANGED <<waitingHead, next, prev>>
    /\ UNCHANGED <<still, timeLeft, wakeTime, readyTasks, bitmap, pendSV,
                   stoppedHead>>

Sooner == wakeTime[Me.target] < wakeTime[Me.cur]

Bug_WalkStuck ==
    /\ At("walk") /\ Me.cur # Nil /\ ~Sooner
    /\ call' = [call EXCEPT ![currentTask].before = Me.cur]
    /\ UNCHANGED <<still, state, timeLeft, wakeTime, readyTasks, bitmap, pendSV,
                   links>>

Walk ==
    /\ At("walk") /\ Me.cur # Nil /\ ~Sooner
    /\ call' = [call EXCEPT ![currentTask] =
                  [Me EXCEPT !.before = Me.cur, !.cur = next[Me.cur]]]
    /\ UNCHANGED <<still, state, timeLeft, wakeTime, readyTasks, bitmap, pendSV,
                   links>>

\* Lines 98-115.
InsertBefore ==
    /\ At("walk") /\ Me.cur # Nil /\ Sooner
    /\ LET t == Me.target  pred == prev[Me.cur]
       IN  /\ prev' = [prev EXCEPT ![t] = pred, ![Me.cur] = t]
           /\ \/ /\ pred # Nil
                 /\ next' = [next EXCEPT ![t] = Me.cur, ![pred] = t]
                 /\ UNCHANGED waitingHead
              \/ /\ pred = Nil
                 /\ next' = [next EXCEPT ![t] = Me.cur]
                 /\ waitingHead' = t
    /\ Goto("ask")
    /\ UNCHANGED <<still, state, timeLeft, wakeTime, readyTasks, bitmap, pendSV,
                   stoppedHead>>

\* Lines 122-128.
InsertLast ==
    /\ At("walk") /\ Me.cur = Nil
    /\ next' = [next EXCEPT ![Me.before] = Me.target, ![Me.target] = Nil]
    /\ prev' = [prev EXCEPT ![Me.target] = Me.before]
    /\ Goto("ask")
    /\ UNCHANGED <<still, state, timeLeft, wakeTime, readyTasks, bitmap, pendSV,
                   waitingHead, stoppedHead>>

Bug_StoppedListDropped ==
    /\ At("stop")
    /\ next' = [next EXCEPT ![Me.target] = Nil]
    /\ stoppedHead' = Me.target
    /\ state' = [state EXCEPT ![Me.target] = "STOPPED"]
    /\ Goto("ask")
    /\ UNCHANGED <<still, timeLeft, wakeTime, readyTasks, bitmap, pendSV,
                   waitingHead, prev>>

mk_sched_addStoppedTask ==
    /\ At("stop")
    /\ next' = [next EXCEPT ![Me.target] = stoppedHead]
    /\ stoppedHead' = Me.target
    /\ state' = [state EXCEPT ![Me.target] = "STOPPED"]
    /\ Goto("ask")
    /\ UNCHANGED <<still, timeLeft, wakeTime, readyTasks, bitmap, pendSV,
                   waitingHead, prev>>

\* mk_port_reschedule; the call returns, with interrupts on.
Return ==
    /\ At("ask")
    /\ pendSV' = TRUE
    /\ call' = [call EXCEPT ![currentTask] = NoCall]
    /\ UNCHANGED <<still, state, timeLeft, wakeTime, readyTasks, bitmap, links>>

CallStep ==
    \/ RotatePop \/ RotatePush \/ LoadBitmap \/ StoreBitmap \/ Block
    \/ ListHead \/ Walk \/ InsertBefore \/ InsertLast
    \/ mk_sched_addStoppedTask
    \/ Return

-----------------------------------------------------------------------------
(* What main does, and the exceptions, as in MkKernel.                     *)

\* mk_task_init resets the links of the pool and mk_sched_init the heads.
mk_initKernel ==
    /\ waitingHead' = Nil /\ stoppedHead' = Nil
    /\ next' = [t \in Task |-> Nil] /\ prev' = [t \in Task |-> Nil]
    /\ K!mk_initKernel
    /\ UNCHANGED call

\* A task that is in a call cannot create one meanwhile.
mk_createTask(p) ==
    /\ currentTask \in Task => Me = NoCall
    /\ UNCHANGED <<links, call>>
    /\ K!mk_createTask(p)

mk_startKernel == UNCHANGED <<links, call>> /\ K!mk_startKernel

InterruptsOn == Masked => ~InCall

\* The new first sleeper has nobody before it.
Bug_PrevKept ==
    /\ waitingHead' = next[waitingHead]
    /\ UNCHANGED <<stoppedHead, next, prev>>

mk_sched_removeWaitingTask ==
    LET second == next[waitingHead]
    IN  /\ waitingHead' = second
        /\ prev' = IF second = Nil THEN prev ELSE [prev EXCEPT ![second] = Nil]
        /\ UNCHANGED <<stoppedHead, next>>

WakeTask ==
    /\ inTick /\ waitingHead # Nil /\ wakeTime[waitingHead] <= tickCount
    /\ reschedule' = (reschedule \/ K!Preempts(waitingHead))
    /\ K!mk_sched_addReadyTask(readyTasks, waitingHead, priority[waitingHead])
    /\ mk_sched_removeWaitingTask
    /\ UNCHANGED <<initialized, started, currentTask, tickCount, currentTaskID,
                   active, priority, taskID, timeLeft, wakeTime, pendSV, inTick,
                   call>>

SysTick_Handler ==
    \/ InterruptsOn /\ UNCHANGED <<links, call>> /\ K!SysTickEnter
    \/ WakeTask
    \/ UNCHANGED <<links, call>> /\ K!SysTickExit

PendSV_Handler ==
    InterruptsOn /\ UNCHANGED <<links, call>> /\ K!PendSV_Handler

Next ==
    \/ mk_initKernel
    \/ \E p \in K!Level : mk_createTask(p)
    \/ mk_startKernel
    \/ \E id \in K!TaskIDs :
         \/ \E d \in WaitTimes : mk_waitTask(id, d)
         \/ mk_yieldTask(id) \/ mk_stopTask(id)
    \/ CallStep
    \/ SysTick_Handler \/ PendSV_Handler

Spec == Init /\ [][Next]_callsVars

-----------------------------------------------------------------------------
\* Between two calls the links form lists that can be walked both ways: prev
\* is the inverse of next along the waiting list, and nothing precedes its
\* head.  An insertion in the middle finds its predecessor through prev
\* (mk_scheduler.c:100-107).
LinksMirror ==
    ~InCall =>
        LET w == Chain(waitingHead)
        IN  \A i \in DOMAIN w :
              prev[w[i]] = IF i = 1 THEN Nil ELSE w[i - 1]

\* Is a call that names t going on, of a task that will still get the CPU?
Underway(t) ==
    \E c \in Task : /\ call[c] # NoCall /\ call[c].target = t
                    /\ c = currentTask \/ state[c] = "READY"

\* "Make a task wait for a specific period of time" (microkernel.h:47): a task
\* that waits is in the list that the tick looks through, unless the call that
\* will put it there is still to be finished.
SleepersListed ==
    \A t \in Task :
        active[t] /\ state[t] = "WAITING" /\ ~Underway(t) =>
            \E i \in DOMAIN Chain(waitingHead) : Chain(waitingHead)[i] = t

\* "Stop a task" (microkernel.h:64): there is no call that resumes one.
StoppedForGood ==
    [][\A t \in Task : state[t] = "STOPPED" => state'[t] = "STOPPED"]_callsVars
=============================================================================
