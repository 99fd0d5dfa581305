------------------------------- MODULE MkTimed -------------------------------
(***************************************************************************)
(* MkKernel with two history variables that record what the callers of     *)
(* mk_waitTask were promised: "duration that the task will wait (ms)"      *)
(* (microkernel.h:50), at one tick per millisecond (mk_scheduler.h:11).    *)
(***************************************************************************)
EXTENDS MkKernel

ASSUME OneTickPerMs == MsPerTick = 1

VARIABLES
    due,      \* ticks to go until the task should be woken; 0 if not asleep
    spans     \* did the last wait of the task span the wrap of the counter?

timedVars == <<vars, due, spans>>

TimedInit ==
    /\ Init
    /\ due = [t \in Task |-> 0]
    /\ spans = [t \in Task |-> FALSE]

\* A task that waits for 0 ms sleeps until the next tick: nothing else wakes it.
TicksAsked(d) == IF d = 0 THEN 1 ELSE d

Wait(id, d) ==
    /\ mk_waitTask(id, d)
    /\ \E t \in Task :
        /\ mk_task_getTaskByID(id, t)
        /\ due' = [due EXCEPT ![t] = TicksAsked(d)]
        /\ spans' = [spans EXCEPT ![t] = tickCount + TicksAsked(d) >= TickMod]

Tick ==
    /\ SysTickEnter
    /\ due' = [t \in Task |-> IF due[t] > 0 THEN due[t] - 1 ELSE 0]
    /\ UNCHANGED spans

OtherStep ==
    /\ \/ mk_initKernel \/ mk_startKernel \/ WakeTask \/ SysTickExit
       \/ PendSV_Handler
       \/ \E p \in Level : mk_createTask(p)
       \/ \E id \in TaskIDs : mk_yieldTask(id) \/ mk_stopTask(id)
    /\ UNCHANGED <<due, spans>>

TimedNext ==
    \/ \E id \in TaskIDs, d \in WaitTimes : Wait(id, d)
    \/ Tick
    \/ OtherStep

TimedSpec == TimedInit /\ [][TimedNext]_timedVars

-----------------------------------------------------------------------------
\* Outside SysTick_Handler a task sleeps exactly while its time is not up:
\* neither woken early nor left asleep.
OnTime(t) == ~inTick => (state[t] = "WAITING" <=> due[t] > 0)

\* Every wait whose end the 32-bit tick counter reaches without wrapping ends
\* with the right tick, whatever other sleepers (wrapped ones too) do to the
\* order of the waiting list.
PunctualWithoutWrap == \A t \in Task : ~spans[t] => OnTime(t)

\* microkernel.h:50 and mk_scheduler.h:68: the task waits for the given time.
Punctual == \A t \in Task : OnTime(t)
=============================================================================
