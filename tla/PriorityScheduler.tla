-------------------------- MODULE PriorityScheduler --------------------------
(***************************************************************************)
(* What the kernel promises its tasks: one of them runs at a time, it is   *)
(* picked among the ready ones of the highest level (0 is the highest),    *)
(* and a ready task is never preempted in favour of a lower level.  Which  *)
(* of several ready tasks of the highest level runs, and when a switch     *)
(* happens, is left open.                                                  *)
(***************************************************************************)
EXTENDS Integers

CONSTANTS Task,      \* the slots of the task pool
          Lowest     \* the lowest priority level, that of the idle task

VARIABLES on,        \* has the kernel started?
          phase,     \* what each task is doing
          level      \* the priority level of each task

Phase == {"absent", "ready", "running", "waiting", "stopped"}
abstractVars == <<on, phase, level>>

Init ==
    /\ on = FALSE
    /\ phase = [t \in Task |-> "absent"]
    /\ level = [t \in Task |-> 0]

\* Initialising the kernel, again perhaps, forgets every task.
Reset ==
    /\ ~on
    /\ phase' = [t \in Task |-> "absent"]
    /\ UNCHANGED <<on, level>>

Create(t, l) ==
    /\ phase[t] = "absent"
    /\ phase' = [phase EXCEPT ![t] = "ready"]
    /\ level' = [level EXCEPT ![t] = l]
    /\ UNCHANGED on

IsBest(t) ==
    phase[t] = "ready" /\ \A u \in Task : phase[u] = "ready" => level[t] <= level[u]

\* t gets the CPU and a task that ran is ready again.
Switch(t) ==
    /\ IsBest(t)
    /\ \A r \in Task : phase[r] = "running" => level[t] <= level[r]
    /\ phase' = [u \in Task |->
                   IF u = t THEN "running"
                   ELSE IF phase[u] = "running" THEN "ready" ELSE phase[u]]

Dispatch(t) == on /\ Switch(t) /\ UNCHANGED <<on, level>>

\* The kernel starts with the best task, or with the idle task when there is
\* none above the lowest level.
Start ==
    /\ ~on /\ on' = TRUE
    /\ \/ \E t \in Task : level[t] < Lowest /\ Switch(t)
       \/ /\ \A t \in Task : phase[t] = "ready" => level[t] = Lowest
          /\ UNCHANGED phase
    /\ UNCHANGED level

\* A ready or running task goes to sleep, or stops for good.
Block(t, new) ==
    /\ on /\ phase[t] \in {"ready", "running"}
    /\ phase' = [phase EXCEPT ![t] = new]
    /\ UNCHANGED <<on, level>>

Wake(t) ==
    /\ on /\ phase[t] = "waiting"
    /\ phase' = [phase EXCEPT ![t] = "ready"]
    /\ UNCHANGED <<on, level>>

Next ==
    \/ Reset \/ Start
    \/ \E t \in Task :
         \/ \E l \in 0..Lowest : Create(t, l)
         \/ Dispatch(t)
         \/ Block(t, "waiting") \/ Block(t, "stopped")
         \/ Wake(t)

Spec == Init /\ [][Next]_abstractVars
=============================================================================
