------------------------- MODULE MkKernelRefinement -------------------------
(***************************************************************************)
(* MkKernel implements PriorityScheduler.  A task that has blocked but     *)
(* still holds the CPU, because PendSV is pending, is already waiting or   *)
(* stopped for the abstract scheduler.                                     *)
(***************************************************************************)
EXTENDS MkKernel

PhaseOf(t) ==
    IF ~active[t] THEN "absent"
    ELSE IF state[t] = "WAITING" THEN "waiting"
    ELSE IF state[t] = "STOPPED" THEN "stopped"
    ELSE IF t = currentTask THEN "running"
    ELSE "ready"

Abstract == INSTANCE PriorityScheduler WITH
    Lowest <- PriorityLevels - 1,
    on     <- started,
    phase  <- [t \in Task |-> PhaseOf(t)],
    level  <- [t \in Task |-> priority[t]]

\* Every behaviour of the kernel is one of the priority scheduler: each step
\* of the API and of the handlers (mk_sched_getNextTask with its bitmap and
\* queues above all) is a step of it or changes nothing a task can see.
ImplementsPriorityScheduler == Abstract!Spec
=============================================================================
