-------------------------- MODULE MkCallsRefinement --------------------------
(***************************************************************************)
(* With interrupts off around a call, MkCalls implements MkKernel: the     *)
(* links are the sequences of MkKernel, and a call is one step, its last.  *)
(* A history variable holds what the world outside the call sees meanwhile: *)
(* the state in which the call began.                                      *)
(***************************************************************************)
EXTENDS MkCalls

VARIABLE outside

historyVars == <<callsVars, outside>>

Snapshot ==
    [state |-> state, timeLeft |-> timeLeft, wakeTime |-> wakeTime,
     readyTasks |-> readyTasks, bitmap |-> bitmap,
     waitingTasks |-> Chain(waitingHead), stoppedTasks |-> Chain(stoppedHead)]

Nothing == <<>>

HistoryInit == Init /\ outside = Nothing

Remember ==
    outside' = IF ~InCall' THEN Nothing ELSE IF InCall THEN outside ELSE Snapshot

HistoryNext == Next /\ Remember

HistorySpec == HistoryInit /\ [][HistoryNext]_historyVars

\* Nothing else can run while a call is in progress with interrupts off.
FairHistorySpec == HistorySpec /\ WF_historyVars(CallStep /\ Remember)

Seen == IF InCall THEN outside ELSE Snapshot

Kernel == INSTANCE MkKernel WITH
    state <- Seen.state, timeLeft <- Seen.timeLeft, wakeTime <- Seen.wakeTime,
    readyTasks <- Seen.readyTasks, bitmap <- Seen.bitmap,
    waitingTasks <- Seen.waitingTasks, stoppedTasks <- Seen.stoppedTasks

\* The rotation of a ready queue, the two loads and stores of the bitmap and
\* the walk along the links do together what MkKernel says of a call, so that
\* everything proved of MkKernel holds of the code with interrupts off.
ImplementsKernel == Kernel!Spec

\* A call returns, and interrupts come back on: the walk along the waiting
\* list (mk_scheduler.c:92) meets the end of it, whatever the order in which
\* sleepers came and went.
CallsReturn == InCall ~> ~InCall
=============================================================================
