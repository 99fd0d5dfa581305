--------------------------- MODULE MkKernel_proofs ---------------------------
(***************************************************************************)
(* Type correctness of MkKernel, one step per action, the fact that makes  *)
(* every q_push of the scheduler succeed (QueueHasRoom), and the safety of *)
(* the scheduler: KernelInv is an inductive invariant.  What this makes    *)
(* easy to prove follows: the waiting list is sorted, IDs are unique, and  *)
(* no event forgets the reschedule.                                        *)
(***************************************************************************)
EXTENDS MkKernel, SeqSets_proofs, FiniteSetTheorems, WellFoundedInduction

\* mk_sched_removeReadyTask takes t, and only t, out of a queue that holds it
\* at most once.
LEMMA WithoutFacts ==
    ASSUME NEW S, NEW q \in Seq(S), NEW t, Once(q)
    PROVE  /\ Without(q, t) \in Seq(S)
           /\ Elems(Without(q, t)) = Elems(q) \ {t}
           /\ Once(Without(q, t))
<1>1. CASE \E i \in DOMAIN q : q[i] = t
  <2> DEFINE k == CHOOSE i \in DOMAIN q : q[i] = t
  <2>1. k \in DOMAIN q /\ q[k] = t   BY <1>1
  <2>2. Without(q, t) = RemoveAt(q, k)   BY <1>1 DEF Without
  <2> QED BY <2>1, <2>2, RemoveAtFacts
<1>2. CASE ~ \E i \in DOMAIN q : q[i] = t
  BY <1>2 DEF Without, Elems
<1> QED BY <1>1, <1>2

\* A queue that holds each handle at most once and misses one of them has
\* room: why no q_push of the scheduler ever fails.
LEMMA QueueHasRoom ==
    ASSUME NEW q \in Seq(Task), NEW t \in Task, Once(q), t \notin Elems(q)
    PROVE  Len(q) < MaxTasks
<1> SUFFICES ASSUME Len(q) >= MaxTasks PROVE FALSE
  BY KernelAssumption
<1> DEFINE D == 1..MaxTasks
           U == Task \ {t}
           f == [i \in D |-> q[i]]
<1>1. IsFiniteSet(D) /\ Cardinality(D) = MaxTasks
  BY FS_Interval, KernelAssumption
<1>2. IsFiniteSet(Task) /\ Cardinality(Task) = MaxTasks
  BY FS_Interval, KernelAssumption DEF Task
<1>3. IsFiniteSet(U) /\ Cardinality(U) = MaxTasks - 1
  BY <1>2, FS_RemoveElement
<1>4. D \subseteq DOMAIN q
  BY KernelAssumption
<1>5. f \in [D -> U]
  BY <1>4 DEF Elems
<1>6. Cardinality(U) < Cardinality(D)
  BY <1>1, <1>3, KernelAssumption
<1>7. PICK i, j \in D : i # j /\ f[i] = f[j]
  <2> HIDE DEF D, U, f
  <2> QED BY <1>1, <1>3, <1>5, <1>6, FS_PigeonHole
<1> QED BY <1>4, <1>7 DEF Once
-----------------------------------------------------------------------------
\* mk_sched_addReadyTask on queues of the right type.
LEMMA PushedType ==
    ASSUME NEW rq \in [Level -> Seq(Task)], NEW t \in Task, NEW p \in Level
    PROVE  Pushed(rq, t, p) \in [Level -> Seq(Task)]
<1>1. Append(rq[p], t) \in Seq(Task)
  BY AppendFacts
<1> QED BY <1>1 DEF Pushed

\* Whatever it is applied to, Without gives a queue.
LEMMA WithoutType ==
    ASSUME NEW S, NEW q \in Seq(S), NEW t
    PROVE  Without(q, t) \in Seq(S)
<1>1. CASE \E i \in DOMAIN q : q[i] = t
  <2> DEFINE k == CHOOSE i \in DOMAIN q : q[i] = t
  <2>1. k \in 1..Len(q)   BY <1>1
  <2>2. Without(q, t) = SubSeq(q, 1, k - 1) \o SubSeq(q, k + 1, Len(q))
    BY <1>1 DEF Without, RemoveAt
  <2> HIDE DEF k
  <2> QED BY <2>1, <2>2
<1>2. CASE ~ \E i \in DOMAIN q : q[i] = t
  BY <1>2 DEF Without
<1> QED BY <1>1, <1>2

\* The handles, and where the two special ones are.
LEMMA HandleFacts ==
    /\ Task \subseteq Handle /\ Idle \in Handle /\ Idle \notin Task
    /\ NoTask \notin Handle
    /\ \A h \in Handle : h # Idle => h \in Task
BY KernelAssumption DEF Task, Handle, Idle, NoTask

\* mk_sched_removeReadyTask keeps the types of the queues and the bitmap.
LEMMA RemoveReadyType ==
    ASSUME TypeOK, NEW t \in Task, mk_sched_removeReadyTask(t)
    PROVE  readyTasks' \in [Level -> Seq(Task)] /\ bitmap' \subseteq Level
<1>1. /\ readyTasks \in [Level -> Seq(Task)] /\ bitmap \subseteq Level
      /\ priority \in [Handle -> Level]
  BY DEF TypeOK
<1>2. priority[t] \in Level
  BY <1>1, HandleFacts
<1>3. Without(readyTasks[priority[t]], t) \in Seq(Task)
  BY <1>1, <1>2, WithoutType
<1> QED BY <1>1, <1>2, <1>3 DEF mk_sched_removeReadyTask

\* mk_sched_addReadyTask keeps the types of what it changes.
LEMMA AddReadyType ==
    ASSUME TypeOK, NEW t \in Task, NEW p \in Level,
           mk_sched_addReadyTask(readyTasks, t, p)
    PROVE  /\ readyTasks' \in [Level -> Seq(Task)] /\ bitmap' \subseteq Level
           /\ state' \in [Handle -> TaskState]
<1>1. /\ readyTasks \in [Level -> Seq(Task)] /\ bitmap \subseteq Level
      /\ state \in [Handle -> TaskState]
  BY DEF TypeOK
<1>2. readyTasks' \in [Level -> Seq(Task)]
  BY <1>1, PushedType DEF mk_sched_addReadyTask
<1>3. bitmap' \subseteq Level
  BY <1>1 DEF mk_sched_addReadyTask, BitSet
<1>4. state' = [state EXCEPT ![t] = IF HasRoom(readyTasks, p) THEN "READY" ELSE @]
  BY DEF mk_sched_addReadyTask
<1>5. state' \in [Handle -> TaskState]
  BY <1>1, <1>4, HandleFacts DEF TaskState
<1> QED BY <1>2, <1>3, <1>5

\* mk_sched_getNextTask, called from a task or the idle task, keeps the types
\* of everything it changes.
LEMMA GetNextType ==
    ASSUME TypeOK, NEW from \in Handle, mk_sched_getNextTask(from)
    PROVE  /\ currentTask' \in Handle
           /\ state' \in [Handle -> TaskState]
           /\ timeLeft' \in [Handle -> 0..TimeSlice]
           /\ readyTasks' \in [Level -> Seq(Task)]
           /\ bitmap' \subseteq Level
<1>0. /\ readyTasks \in [Level -> Seq(Task)] /\ bitmap \subseteq Level
      /\ state \in [Handle -> TaskState]
      /\ timeLeft \in [Handle -> 0..TimeSlice]
      /\ priority \in [Handle -> Level]
  BY DEF TypeOK
<1>1. CASE RunIdle(from)
  BY <1>0, <1>1, HandleFacts DEF RunIdle, TaskState
<1>2. CASE KeepCurrent(from)
  BY <1>0, <1>2 DEF KeepCurrent
<1>3. ASSUME NEW h \in bitmap, SwitchTo(from, h)
      PROVE  /\ currentTask' \in Handle
             /\ state' \in [Handle -> TaskState]
             /\ timeLeft' \in [Handle -> 0..TimeSlice]
             /\ readyTasks' \in [Level -> Seq(Task)]
             /\ bitmap' \subseteq Level
  <2> DEFINE next   == Head(readyTasks[h])
             popped == [readyTasks EXCEPT ![h] = Tail(@)]
  <2>1. h \in Level /\ readyTasks[h] \in Seq(Task) /\ readyTasks[h] # <<>>
    BY <1>0, <1>3 DEF SwitchTo
  <2>2. next \in Task /\ Tail(readyTasks[h]) \in Seq(Task)
    BY <2>1, TailFacts
  <2>3. popped \in [Level -> Seq(Task)]
    BY <1>0, <2>2
  <2>4. next \in Handle
    BY <2>2, HandleFacts
  <2>5. currentTask' = next /\ state' = [state EXCEPT ![next] = "READY"]
        /\ timeLeft' = [timeLeft EXCEPT ![next] = TimeSlice]
    BY <1>3 DEF SwitchTo
  <2>6. IF state[from] = "READY" /\ from # Idle
          THEN /\ readyTasks' = Pushed(popped, from, priority[from])
               /\ bitmap' = BitSet(popped, priority[from])
          ELSE readyTasks' = popped /\ UNCHANGED bitmap
    BY <1>3 DEF SwitchTo
  <2> HIDE DEF next, popped
  <2>7. state' \in [Handle -> TaskState] /\ currentTask' \in Handle
    BY <1>0, <2>4, <2>5 DEF TaskState
  <2>8. timeLeft' \in [Handle -> 0..TimeSlice]
    <3>1. TimeSlice \in 0..TimeSlice
      BY KernelAssumption
    <3> QED BY <1>0, <2>4, <2>5, <3>1
  <2>9. readyTasks' \in [Level -> Seq(Task)] /\ bitmap' \subseteq Level
    <3>1. CASE state[from] = "READY" /\ from # Idle
      <4>1. from \in Task /\ priority[from] \in Level
        BY <1>0, <3>1, HandleFacts
      <4>2. /\ readyTasks' = Pushed(popped, from, priority[from])
            /\ bitmap' = BitSet(popped, priority[from])
        BY <2>6, <3>1
      <4>3. readyTasks' \in [Level -> Seq(Task)]
        BY <2>3, <4>1, <4>2, PushedType
      <4>4. bitmap' \subseteq Level
        BY <1>0, <4>1, <4>2 DEF BitSet
      <4> QED BY <4>3, <4>4
    <3>2. CASE ~(state[from] = "READY" /\ from # Idle)
      BY <1>0, <2>3, <2>6, <3>2
    <3> QED BY <3>1, <3>2
  <2> QED BY <2>7, <2>8, <2>9
<1> QED BY <1>1, <1>2, <1>3 DEF mk_sched_getNextTask

-----------------------------------------------------------------------------
\* The start-up values have the types of TypeOK.
LEMMA TypeInit == Init => TypeOK
<1> SUFFICES ASSUME Init PROVE TypeOK
  OBVIOUS
<1>1. 0 \in Level /\ 0 \in 0..TimeSlice /\ 0 \in 0..(TickMod - 1)
      /\ 0 \in 0..MaxID /\ FirstTaskID \in FirstTaskID..(MaxID + 1)
  BY KernelAssumption DEF Level, FirstTaskID
<1>2. readyTasks \in [Level -> Seq(Task)]
  BY DEF Init
<1> QED BY <1>1, <1>2 DEF Init, TypeOK, TaskState

\* Every step keeps the types.  LifeCycle is needed for PendSV_Handler, which
\* schedules from the current task: there must be one.
LEMMA TypeStep == TypeOK /\ LifeCycle /\ [Next]_vars => TypeOK'
<1> SUFFICES ASSUME TypeOK, LifeCycle, [Next]_vars PROVE TypeOK'
  OBVIOUS
<1>0. /\ 0 \in 0..TimeSlice /\ TimeSlice \in 0..TimeSlice
      /\ 0 \in 0..(TickMod - 1) /\ 0 \in 0..MaxID
      /\ PriorityLevels - 1 \in Level
  BY KernelAssumption DEF Level
<1>1. CASE mk_initKernel
  <2>1. /\ initialized' \in BOOLEAN /\ active' \in [Task -> BOOLEAN]
        /\ bitmap' \subseteq Level
        /\ waitingTasks' \in Seq(Task) /\ stoppedTasks' \in Seq(Task)
        /\ UNCHANGED <<started, currentTask, tickCount, currentTaskID,
                       wakeTime, pendSV, inTick, reschedule>>
    BY <1>1 DEF mk_initKernel, handler
  <2>2. readyTasks' \in [Level -> Seq(Task)]
    BY <1>1 DEF mk_initKernel
  <2>3. /\ priority' \in [Handle -> Level] /\ taskID' \in [Handle -> 0..MaxID]
        /\ state' \in [Handle -> TaskState]
        /\ timeLeft' \in [Handle -> 0..TimeSlice]
    BY <1>0, <1>1 DEF mk_initKernel, TypeOK, TaskState
  <2> QED BY <2>1, <2>2, <2>3 DEF TypeOK
<1>2. ASSUME NEW p \in Level, mk_createTask(p) PROVE TypeOK'
  <2>1. PICK t \in Task :
          /\ active'   = [active EXCEPT ![t] = TRUE]
          /\ priority' = [priority EXCEPT ![t] = p]
          /\ taskID'   = [taskID EXCEPT ![t] = currentTaskID]
          /\ timeLeft' = [timeLeft EXCEPT ![t] = TimeSlice]
          /\ wakeTime' = [wakeTime EXCEPT ![t] = 0]
          /\ mk_sched_addReadyTask(readyTasks, t, p)
    <3> HIDE DEF mk_sched_addReadyTask
    <3> QED BY <1>2, Zenon DEF mk_createTask
  <2>2. /\ currentTaskID <= MaxID /\ currentTaskID' = currentTaskID + 1
        /\ UNCHANGED <<initialized, started, currentTask, tickCount, waitingTasks,
                       stoppedTasks, pendSV, inTick, reschedule>>
    BY <1>2 DEF mk_createTask, boot, handler
  <2>3. /\ readyTasks' \in [Level -> Seq(Task)] /\ bitmap' \subseteq Level
        /\ state' \in [Handle -> TaskState]
    BY <2>1, AddReadyType
  <2>4. currentTaskID \in 0..MaxID /\ currentTaskID' \in FirstTaskID..(MaxID + 1)
    BY <2>2, KernelAssumption DEF TypeOK, FirstTaskID
  <2>5. /\ active' \in [Task -> BOOLEAN] /\ priority' \in [Handle -> Level]
        /\ taskID' \in [Handle -> 0..MaxID]
    BY <2>1, <2>4 DEF TypeOK
  <2>6. /\ timeLeft' \in [Handle -> 0..TimeSlice]
        /\ wakeTime' \in [Handle -> 0..(TickMod - 1)]
    BY <1>0, <2>1 DEF TypeOK
  <2> QED BY <2>2, <2>3, <2>4, <2>5, <2>6 DEF TypeOK
<1>3. CASE mk_startKernel
  <2>1. /\ started' = TRUE /\ mk_sched_getNextTask(Idle)
        /\ UNCHANGED <<initialized, tickCount, currentTaskID, active, priority,
                       taskID, wakeTime, waitingTasks, stoppedTasks, pendSV,
                       inTick, reschedule>>
    BY <1>3 DEF mk_startKernel, handler
  <2>2. /\ currentTask' \in Handle
        /\ state' \in [Handle -> TaskState]
        /\ timeLeft' \in [Handle -> 0..TimeSlice]
        /\ readyTasks' \in [Level -> Seq(Task)]
        /\ bitmap' \subseteq Level
    BY <2>1, GetNextType, HandleFacts
  <2> QED BY <2>1, <2>2 DEF TypeOK
<1>4. ASSUME NEW id \in TaskIDs, NEW d \in WaitTimes, mk_waitTask(id, d)
      PROVE  TypeOK'
  <2>1. PICK t \in Task :
          /\ wakeTime' = [wakeTime EXCEPT ![t] = (tickCount + d) % TickMod]
          /\ mk_sched_removeReadyTask(t)
          /\ state' = [state EXCEPT ![t] = "WAITING"]
          /\ mk_sched_addWaitingTask(t, (tickCount + d) % TickMod)
    BY <1>4, Zenon DEF mk_waitTask
  <2>2. (tickCount + d) % TickMod \in 0..(TickMod - 1)
    <3>1. tickCount \in Int /\ d \in Int
      BY KernelAssumption DEF TypeOK
    <3> QED BY <3>1, KernelAssumption
  <2>3. pendSV' = TRUE
        /\ UNCHANGED <<initialized, started, currentTask, tickCount, currentTaskID,
                      active, priority, taskID, timeLeft, stoppedTasks, inTick,
                      reschedule>>
    BY <1>4 DEF mk_waitTask, boot, handler
  <2>4. waitingTasks' \in Seq(Task)
    BY <2>1, InsertAtFacts DEF mk_sched_addWaitingTask, TypeOK
  <2>5. readyTasks' \in [Level -> Seq(Task)] /\ bitmap' \subseteq Level
    BY <2>1, RemoveReadyType
  <2>6. state' \in [Handle -> TaskState]
    BY <2>1 DEF TypeOK, TaskState
  <2>7. wakeTime' \in [Handle -> 0..(TickMod - 1)]
    BY <2>1, <2>2 DEF TypeOK
  <2> QED BY <2>3, <2>4, <2>5, <2>6, <2>7 DEF TypeOK
<1>5. ASSUME NEW id \in TaskIDs, mk_yieldTask(id) PROVE TypeOK'
  <2>1. PICK h \in Handle : timeLeft' = [timeLeft EXCEPT ![h] = 0]
    BY <1>5, Zenon DEF mk_yieldTask
  <2>2. timeLeft' \in [Handle -> 0..TimeSlice]
    BY <1>0, <2>1 DEF TypeOK
  <2>3. pendSV' = TRUE
        /\ UNCHANGED <<initialized, started, currentTask, tickCount, currentTaskID,
                      active, priority, taskID, state, wakeTime, readyTasks, bitmap,
                      waitingTasks, stoppedTasks, inTick, reschedule>>
    BY <1>5 DEF mk_yieldTask, boot, sched, handler
  <2> QED BY <2>2, <2>3 DEF TypeOK
<1>6. ASSUME NEW id \in TaskIDs, mk_stopTask(id) PROVE TypeOK'
  <2>1. PICK t \in Task :
          /\ mk_sched_removeReadyTask(t)
          /\ state' = [state EXCEPT ![t] = "STOPPED"]
          /\ stoppedTasks' = InsertAt(stoppedTasks, 1, t)
    BY <1>6, Zenon DEF mk_stopTask, mk_sched_addStoppedTask
  <2>2. pendSV' = TRUE
        /\ UNCHANGED <<initialized, started, currentTask, tickCount, currentTaskID,
                      active, priority, taskID, timeLeft, wakeTime, waitingTasks,
                      inTick, reschedule>>
    BY <1>6 DEF mk_stopTask, boot, handler
  <2>3. stoppedTasks' \in Seq(Task)
    <3>1. stoppedTasks \in Seq(Task) /\ 1 \in 1..(Len(stoppedTasks) + 1)
      BY DEF TypeOK
    <3> QED BY <2>1, <3>1, InsertAtFacts
  <2>4. readyTasks' \in [Level -> Seq(Task)] /\ bitmap' \subseteq Level
    BY <2>1, RemoveReadyType
  <2>5. state' \in [Handle -> TaskState]
    BY <2>1 DEF TypeOK, TaskState
  <2> QED BY <2>2, <2>3, <2>4, <2>5 DEF TypeOK
<1>7. CASE SysTickEnter
  <2>1. tickCount' \in 0..(TickMod - 1)
    <3>1. tickCount \in Int /\ tickCount' = (tickCount + 1) % TickMod
      BY <1>7 DEF TypeOK, SysTickEnter
    <3> QED BY <3>1, KernelAssumption
  <2>2. inTick' = TRUE
        /\ UNCHANGED <<initialized, started, currentTask, currentTaskID, active,
                      priority, taskID, state, timeLeft, wakeTime, readyTasks,
                      bitmap, waitingTasks, stoppedTasks, pendSV, reschedule>>
    BY <1>7 DEF SysTickEnter, boot, tcb, sched
  <2> QED BY <2>1, <2>2 DEF TypeOK
<1>8. CASE WakeTask
  <2> DEFINE t == Head(waitingTasks)
  <2>1. t \in Task /\ Tail(waitingTasks) \in Seq(Task)
    BY <1>8, TailFacts DEF WakeTask, SleeperDue, TypeOK
  <2>2. priority[t] \in Level
    BY <2>1, HandleFacts DEF TypeOK
  <2>3. /\ mk_sched_addReadyTask(readyTasks, t, priority[t])
        /\ waitingTasks' = Tail(waitingTasks)
        /\ reschedule' = (reschedule \/ Preempts(t))
        /\ UNCHANGED <<initialized, started, currentTask, tickCount, currentTaskID,
                       active, priority, taskID, timeLeft, wakeTime, stoppedTasks,
                       pendSV, inTick>>
    BY <1>8 DEF WakeTask, boot
  <2> HIDE DEF t
  <2>4. /\ readyTasks' \in [Level -> Seq(Task)] /\ bitmap' \subseteq Level
        /\ state' \in [Handle -> TaskState]
    BY <2>1, <2>2, <2>3, AddReadyType
  <2>5. reschedule' \in BOOLEAN
    BY <2>3 DEF Preempts
  <2> QED BY <2>1, <2>3, <2>4, <2>5 DEF TypeOK
<1>9. CASE SysTickExit
  <2>1. ASSUME NEW n \in 0..TimeSlice PROVE SliceAfterTick(n) \in 0..TimeSlice
    BY KernelAssumption DEF SliceAfterTick
  <2>2. timeLeft' \in [Handle -> 0..TimeSlice]
    <3>1. timeLeft' = [timeLeft EXCEPT ![currentTask] = SliceAfterTick(@)]
      BY <1>9 DEF SysTickExit
    <3> QED BY <2>1, <3>1 DEF TypeOK
  <2>3. /\ pendSV' \in BOOLEAN /\ inTick' = FALSE /\ reschedule' = FALSE
        /\ UNCHANGED <<initialized, started, currentTask, tickCount, currentTaskID,
                       active, priority, taskID, state, wakeTime, readyTasks,
                       bitmap, waitingTasks, stoppedTasks>>
    BY <1>9 DEF SysTickExit, boot, sched, TypeOK
  <2> QED BY <2>2, <2>3 DEF TypeOK
<1>10. CASE PendSV_Handler
  <2>1. /\ pendSV' = FALSE /\ mk_sched_getNextTask(currentTask)
        /\ UNCHANGED <<initialized, started, tickCount, currentTaskID, active,
                       priority, taskID, wakeTime, waitingTasks, stoppedTasks,
                       inTick, reschedule>>
    BY <1>10 DEF PendSV_Handler, boot, handler
  <2>2. currentTask \in Handle
    BY <1>10 DEF PendSV_Handler, LifeCycle
  <2>3. /\ currentTask' \in Handle
        /\ state' \in [Handle -> TaskState]
        /\ timeLeft' \in [Handle -> 0..TimeSlice]
        /\ readyTasks' \in [Level -> Seq(Task)]
        /\ bitmap' \subseteq Level
    BY <2>1, <2>2, GetNextType
  <2> QED BY <2>1, <2>3 DEF TypeOK
<1>11. CASE UNCHANGED vars
  BY <1>11 DEF vars, TypeOK, boot, tcb, sched, handler
<1> QED BY <1>1, <1>2, <1>3, <1>4, <1>5, <1>6, <1>7, <1>8, <1>9, <1>10, <1>11
        DEF Next, KernelCall, SysTick_Handler

-----------------------------------------------------------------------------
(***************************************************************************)
(* KernelInv is an inductive invariant of MkKernel.  Its parts need each   *)
(* other: that a queued task has a set bit (BitmapExact) is kept only      *)
(* because nothing is queued twice (ScheduledOnce), that a woken task can  *)
(* be queued only because it is queued nowhere else, and that the CPU      *)
(* always goes to a READY task because no READY task is lost.              *)
(***************************************************************************)

\* ScheduledOnce, list by list.
ReadyOnce ==
    \A p \in Level :
        /\ Once(readyTasks[p])
        /\ \A t \in Elems(readyTasks[p]) :
             active[t] /\ state[t] = "READY" /\ priority[t] = p /\ t # currentTask

WaitingOnce ==
    /\ Once(waitingTasks)
    /\ \A t \in Elems(waitingTasks) : active[t] /\ state[t] = "WAITING"

StoppedOnce ==
    /\ Once(stoppedTasks)
    /\ \A t \in Elems(stoppedTasks) : active[t] /\ state[t] = "STOPPED"

\* The three parts are the whole.
LEMMA OnceParts == ScheduledOnce <=> ReadyOnce /\ WaitingOnce /\ StoppedOnce
BY DEF ScheduledOnce, ReadyOnce, WaitingOnce, StoppedOnce

\* A set of levels that is not empty has a highest one.
LEMMA HighestExists ==
    ASSUME bitmap \subseteq Level, bitmap # {}
    PROVE  \E h \in bitmap : IsHighest(h)
<1>1. bitmap \subseteq Nat
  BY DEF Level
<1>2. \E h \in bitmap : \A l \in bitmap : <<l, h>> \notin OpToRel(<, Nat)
  BY <1>1, NatLessThanWellFounded, WFMin
<1>3. PICK h \in bitmap : \A l \in bitmap : <<l, h>> \notin OpToRel(<, Nat)
  BY <1>2
<1>4. ASSUME NEW l \in bitmap PROVE h <= l
  <2>1. l \in Nat /\ h \in Nat /\ ~(l < h)
    BY <1>1, <1>3 DEF OpToRel
  <2> QED BY <2>1
<1> QED BY <1>3, <1>4 DEF IsHighest

\* Queueing a task that its queue does not hold always succeeds.
LEMMA EnqueueFacts ==
    ASSUME NEW rq \in [Level -> Seq(Task)], NEW t \in Task, NEW p \in Level,
           Once(rq[p]), t \notin Elems(rq[p])
    PROVE  /\ HasRoom(rq, p)
           /\ BitSet(rq, p) = bitmap \cup {p}
           /\ Pushed(rq, t, p) \in [Level -> Seq(Task)]
           /\ \A l \in Level :
                /\ Elems(Pushed(rq, t, p)[l]) =
                     Elems(rq[l]) \cup (IF l = p THEN {t} ELSE {})
                /\ Once(rq[l]) => Once(Pushed(rq, t, p)[l])
<1>1. HasRoom(rq, p)
  BY QueueHasRoom DEF HasRoom
<1>2. Pushed(rq, t, p) = [rq EXCEPT ![p] = Append(rq[p], t)]
  BY <1>1 DEF Pushed
<1>3. /\ Append(rq[p], t) \in Seq(Task)
      /\ Elems(Append(rq[p], t)) = Elems(rq[p]) \cup {t}
      /\ Once(Append(rq[p], t))
  BY AppendFacts
<1>4. BitSet(rq, p) = bitmap \cup {p}
  BY <1>1 DEF BitSet
<1>5. \A l \in Level : Pushed(rq, t, p)[l] = IF l = p THEN Append(rq[p], t) ELSE rq[l]
  BY <1>2
<1>6. Pushed(rq, t, p) \in [Level -> Seq(Task)]
  BY <1>2, <1>3
<1>7. ASSUME NEW l \in Level
      PROVE  /\ Elems(Pushed(rq, t, p)[l]) =
                  Elems(rq[l]) \cup (IF l = p THEN {t} ELSE {})
             /\ Once(rq[l]) => Once(Pushed(rq, t, p)[l])
  <2>1. CASE l = p   BY <1>3, <1>5, <2>1
  <2>2. CASE l # p   BY <1>5, <2>2
  <2> QED BY <2>1, <2>2
<1> QED BY <1>1, <1>4, <1>6, <1>7

\* mk_sched_removeReadyTask takes t out of its queue, if it is there, and
\* clears the bit when the queue is left empty.
LEMMA RemoveReadyFacts ==
    ASSUME TypeOK, ReadyOnce, NEW t \in Task, mk_sched_removeReadyTask(t)
    PROVE  /\ \A l \in Level :
                /\ Elems(readyTasks'[l]) =
                     Elems(readyTasks[l]) \ (IF l = priority[t] THEN {t} ELSE {})
                /\ Once(readyTasks'[l])
           /\ bitmap' = IF readyTasks'[priority[t]] = <<>>
                          THEN bitmap \ {priority[t]} ELSE bitmap
<1> DEFINE p == priority[t]
           q == Without(readyTasks[p], t)
<1>1. readyTasks \in [Level -> Seq(Task)] /\ p \in Level
  BY HandleFacts DEF TypeOK
<1>2. Elems(q) = Elems(readyTasks[p]) \ {t} /\ Once(q)
  BY <1>1, WithoutFacts DEF ReadyOnce
<1>3. readyTasks' = [readyTasks EXCEPT ![p] = q]
      /\ bitmap' = IF q = <<>> THEN bitmap \ {p} ELSE bitmap
  BY DEF mk_sched_removeReadyTask
<1> HIDE DEF p, q
<1>4. readyTasks'[p] = q /\ \A l \in Level : l # p => readyTasks'[l] = readyTasks[l]
  BY <1>1, <1>3
<1>5. ASSUME NEW l \in Level
      PROVE  /\ Elems(readyTasks'[l]) =
                  Elems(readyTasks[l]) \ (IF l = p THEN {t} ELSE {})
             /\ Once(readyTasks'[l])
  <2>1. CASE l = p   BY <1>2, <1>4, <2>1
  <2>2. CASE l # p   BY <1>4, <2>2 DEF ReadyOnce
  <2> QED BY <2>1, <2>2
<1> QED BY <1>3, <1>4, <1>5 DEF p

-----------------------------------------------------------------------------
(* mk_sched_getNextTask, called from the task on the CPU (PendSV) or from   *)
(* the idle task while there is no current task (mk_sched_start).          *)

Scheduling(from) ==
    /\ from \in Handle
    /\ \/ started /\ from = currentTask
       \/ from = Idle /\ currentTask = NoTask
    /\ state[Idle] = "READY"

\* What the caller's position means: from is queued nowhere, every other READY
\* task is, and a bit over an empty queue is that of from.
LEMMA SchedulingFacts ==
    ASSUME KernelInv, NEW from, Scheduling(from)
    PROVE  /\ \A p \in Level : from \notin Elems(readyTasks[p])
           /\ \A t \in Task : active[t] /\ state[t] = "READY" =>
                 t = from \/ t \in Elems(readyTasks[priority[t]])
           /\ \A p \in bitmap : readyTasks[p] = <<>> =>
                 from \in Task /\ state[from] = "READY" /\ priority[from] = p
           /\ from \in Task => active[from]
<1>1. \A p \in Level : Elems(readyTasks[p]) \subseteq Task
  BY ElemsFacts DEF KernelInv, TypeOK
<1>2. bitmap \subseteq Level
  BY DEF KernelInv, TypeOK
<1>3. currentTask \in Task => currentTask = from
  BY HandleFacts DEF Scheduling
<1>4. \A p \in Level : from \notin Elems(readyTasks[p])
  BY <1>1, HandleFacts DEF Scheduling, KernelInv, ScheduledOnce
<1>5. \A p \in bitmap : readyTasks[p] = <<>> =>
         from \in Task /\ state[from] = "READY" /\ priority[from] = p
  BY <1>2, <1>3 DEF KernelInv, BitmapExact
<1>6. \A t \in Task : active[t] /\ state[t] = "READY" =>
         t = from \/ t \in Elems(readyTasks[priority[t]])
  BY <1>3 DEF KernelInv, NoTaskLost
<1>7. from \in Task => active[from]
  BY HandleFacts DEF Scheduling, KernelInv, LifeCycle
<1> QED BY <1>4, <1>5, <1>6, <1>7

\* The parts of the invariant that a reschedule is about.
Dispatched ==
    /\ ReadyOnce /\ NoTaskLost /\ BitmapExact
    /\ state[currentTask] = "READY"
    /\ currentTask \in Handle
    /\ currentTask \in Task => active[currentTask]

\* After a reschedule the CPU belongs to a READY task, every other one is
\* queued once with its bit set, and no task has changed its state.
LEMMA GetNextStep ==
    ASSUME KernelInv, NEW from, Scheduling(from), mk_sched_getNextTask(from),
           TypeOK',
           UNCHANGED <<active, priority, waitingTasks, stoppedTasks>>
    PROVE  Dispatched' /\ state' = state
<1>0. /\ readyTasks \in [Level -> Seq(Task)] /\ bitmap \subseteq Level
      /\ state \in [Handle -> TaskState]
      /\ priority \in [Handle -> Level]
      /\ from \in Handle
  BY DEF KernelInv, TypeOK, Scheduling
<1>1. /\ \A p \in Level : from \notin Elems(readyTasks[p])
      /\ \A t \in Task : active[t] /\ state[t] = "READY" =>
            t = from \/ t \in Elems(readyTasks[priority[t]])
      /\ \A p \in bitmap : readyTasks[p] = <<>> =>
            from \in Task /\ state[from] = "READY" /\ priority[from] = p
      /\ from \in Task => active[from]
  BY SchedulingFacts
<1>2. \A p \in Level : readyTasks[p] # <<>> => p \in bitmap
  BY DEF KernelInv, BitmapExact
<1>3. /\ \A p \in Level : Once(readyTasks[p])
      /\ \A p \in Level : \A t \in Elems(readyTasks[p]) :
            active[t] /\ state[t] = "READY" /\ priority[t] = p
  BY DEF KernelInv, ScheduledOnce
<1>4. \A t \in Task : active[t] =>
         \/ state[t] = "READY"
         \/ state[t] = "WAITING" /\ t \in Elems(waitingTasks)
         \/ state[t] = "STOPPED" /\ t \in Elems(stoppedTasks)
  BY DEF KernelInv, NoTaskLost
<1>5. \A p \in Level :
         readyTasks[p] = <<>> <=> Elems(readyTasks[p]) = {}
  BY <1>0, ElemsFacts
<1>6. CASE RunIdle(from)
  <2>1. /\ bitmap = {} /\ state[from] # "READY"
        /\ currentTask' = Idle
        /\ readyTasks' = readyTasks /\ bitmap' = bitmap
        /\ state' = state
    <3>1. state' = [state EXCEPT ![Idle] = "READY"] /\ state[Idle] = "READY"
      BY <1>6 DEF RunIdle, Scheduling
    <3> QED BY <1>0, <1>6, <3>1 DEF RunIdle
  <2>2. \A p \in Level : Elems(readyTasks[p]) = {}
    BY <1>2, <1>5, <2>1
  <2>3. ReadyOnce'
    BY <1>3, <2>1, <2>2 DEF ReadyOnce
  <2>4. NoTaskLost'
    BY <1>0, <1>1, <1>4, <2>1, <2>2, HandleFacts DEF NoTaskLost
  <2>5. BitmapExact'
    BY <1>2, <2>1 DEF BitmapExact
  <2>6. state[Idle] = "READY" /\ Idle \in Handle /\ Idle \notin Task
    BY HandleFacts DEF Scheduling
  <2> QED BY <2>1, <2>3, <2>4, <2>5, <2>6 DEF Dispatched
<1>7. CASE KeepCurrent(from)
  <2>1. /\ currentTask' = from
        /\ readyTasks' = readyTasks /\ bitmap' = bitmap /\ state' = state
    BY <1>7 DEF KeepCurrent
  <2>2. state[from] = "READY"
    <3>1. CASE bitmap = {}
      BY <1>7, <3>1 DEF KeepCurrent
    <3>2. CASE bitmap # {}
      <4>1. PICK h \in bitmap : IsHighest(h)
        BY <1>0, <3>2, HighestExists
      <4>2. ~ShouldSwitch(from, h) \/ readyTasks[h] = <<>>
        BY <1>7, <4>1 DEF KeepCurrent
      <4> QED BY <1>1, <4>1, <4>2 DEF ShouldSwitch
    <3> QED BY <3>1, <3>2
  <2>3. ReadyOnce'
    BY <1>1, <1>3, <2>1 DEF ReadyOnce
  <2>4. NoTaskLost'
    BY <1>1, <1>4, <2>1, <2>2 DEF NoTaskLost
  <2>5. BitmapExact'
    BY <1>1, <1>2, <2>1, <2>2 DEF BitmapExact
  <2> QED BY <1>0, <1>1, <2>1, <2>2, <2>3, <2>4, <2>5 DEF Dispatched
<1>8. ASSUME NEW h \in bitmap, SwitchTo(from, h) PROVE Dispatched' /\ state' = state
  <2> DEFINE next   == Head(readyTasks[h])
             popped == [readyTasks EXCEPT ![h] = Tail(@)]
             Back   == IF state[from] = "READY" /\ from # Idle THEN {from} ELSE {}
  <2>1. h \in Level /\ readyTasks[h] \in Seq(Task) /\ readyTasks[h] # <<>>
    BY <1>0, <1>8 DEF SwitchTo
  <2>2. /\ next \in Task /\ Tail(readyTasks[h]) \in Seq(Task)
        /\ Elems(readyTasks[h]) = Elems(Tail(readyTasks[h])) \cup {next}
        /\ Once(Tail(readyTasks[h])) /\ next \notin Elems(Tail(readyTasks[h]))
    BY <1>3, <2>1, TailFacts
  <2>3. currentTask' = next /\ state' = [state EXCEPT ![next] = "READY"]
    BY <1>8 DEF SwitchTo
  <2>4. IF state[from] = "READY" /\ from # Idle
          THEN /\ readyTasks' = Pushed(popped, from, priority[from])
               /\ bitmap' = BitSet(popped, priority[from])
          ELSE readyTasks' = popped /\ UNCHANGED bitmap
    BY <1>8 DEF SwitchTo
  <2>5. popped \in [Level -> Seq(Task)]
    BY <1>0, <2>2
  <2>6. \A p \in Level :
           /\ Elems(popped[p]) = Elems(readyTasks[p]) \ (IF p = h THEN {next} ELSE {})
           /\ Once(popped[p])
    BY <1>0, <1>3, <2>1, <2>2
  <2>7. /\ next \in Elems(readyTasks[h]) /\ next # from
        /\ active[next] /\ state[next] = "READY" /\ priority[next] = h
    <3>1. next \in Elems(readyTasks[h])
      BY <2>2
    <3> HIDE DEF next
    <3> QED BY <1>1, <1>3, <2>1, <3>1
  <2> HIDE DEF next, popped
  <2>8. state' = state
    BY <1>0, <2>3, <2>7
  <2>9. /\ \A p \in Level :
             /\ Elems(readyTasks'[p]) =
                  (Elems(readyTasks[p]) \ (IF p = h THEN {next} ELSE {}))
                    \cup (IF p = priority[from] THEN Back ELSE {})
             /\ Once(readyTasks'[p])
        /\ bitmap' = bitmap \cup (IF Back = {} THEN {} ELSE {priority[from]})
    <3>1. CASE state[from] = "READY" /\ from # Idle
      <4>1. from \in Task /\ priority[from] \in Level /\ Back = {from}
        BY <1>0, <3>1, HandleFacts
      <4>2. Once(popped[priority[from]]) /\ from \notin Elems(popped[priority[from]])
        BY <1>1, <2>6, <4>1
      <4>3. /\ BitSet(popped, priority[from]) = bitmap \cup {priority[from]}
            /\ \A p \in Level :
                 /\ Elems(Pushed(popped, from, priority[from])[p]) =
                      Elems(popped[p]) \cup (IF p = priority[from] THEN {from} ELSE {})
                 /\ Once(popped[p]) => Once(Pushed(popped, from, priority[from])[p])
        <5> DEFINE l == priority[from]
        <5>1. l \in Level /\ Once(popped[l]) /\ from \notin Elems(popped[l])
          BY <4>1, <4>2
        <5> HIDE DEF l
        <5>2. /\ BitSet(popped, l) = bitmap \cup {l}
              /\ \A p \in Level :
                   /\ Elems(Pushed(popped, from, l)[p]) =
                        Elems(popped[p]) \cup (IF p = l THEN {from} ELSE {})
                   /\ Once(popped[p]) => Once(Pushed(popped, from, l)[p])
          BY <2>5, <4>1, <5>1, EnqueueFacts, Zenon
        <5> QED BY <5>2 DEF l
      <4> HIDE DEF Back
      <4>4. /\ readyTasks' = Pushed(popped, from, priority[from])
            /\ bitmap' = bitmap \cup {priority[from]}
        BY <2>4, <3>1, <4>3
      <4>5. ASSUME NEW p \in Level
            PROVE  /\ Elems(readyTasks'[p]) =
                       (Elems(readyTasks[p]) \ (IF p = h THEN {next} ELSE {}))
                         \cup (IF p = priority[from] THEN Back ELSE {})
                   /\ Once(readyTasks'[p])
        BY <2>6, <4>1, <4>3, <4>4
      <4> QED BY <4>1, <4>4, <4>5
    <3>2. CASE ~(state[from] = "READY" /\ from # Idle)
      <4>1. Back = {}
        BY <3>2
      <4> HIDE DEF Back
      <4> QED BY <2>4, <2>6, <3>2, <4>1
    <3> QED BY <3>1, <3>2
  <2>10. ReadyOnce'
    BY <1>1, <1>3, <2>3, <2>7, <2>8, <2>9, HandleFacts, <1>0 DEF ReadyOnce
  <2>11. NoTaskLost'
    <3> SUFFICES ASSUME NEW t \in Task, active[t], state[t] = "READY", t # next
                 PROVE  t \in Elems(readyTasks'[priority[t]])
      BY <1>4, <2>3, <2>8 DEF NoTaskLost
    <3>1. priority[t] \in Level
      BY <1>0, HandleFacts
    <3>2. t = from => t \in Back
      BY HandleFacts
    <3> HIDE DEF Back
    <3> QED BY <1>1, <2>9, <3>1, <3>2
  <2>12. BitmapExact'
    <3> SUFFICES ASSUME NEW p \in Level
                 PROVE  /\ readyTasks'[p] # <<>> => p \in bitmap'
                        /\ p \in bitmap' /\ readyTasks'[p] = <<>> => p = h
      BY <2>2, <2>3, <2>7, <2>8 DEF BitmapExact
    <3>1. readyTasks'[p] = <<>> <=> Elems(readyTasks'[p]) = {}
      <4>1. readyTasks'[p] \in Seq(Task)
        BY DEF TypeOK
      <4> QED BY <4>1, ElemsFacts
    <3>2. Back = {} => (readyTasks[p] = <<>> => p \notin bitmap)
      BY <1>1, HandleFacts
    <3>3. Back # {} => (readyTasks[p] = <<>> => p \notin bitmap \/ p = priority[from])
      BY <1>1
    <3> HIDE DEF Back
    <3> QED BY <1>2, <1>5, <2>1, <2>9, <3>1, <3>2, <3>3
  <2> QED BY <2>2, <2>3, <2>7, <2>8, <2>10, <2>11, <2>12, HandleFacts DEF Dispatched
<1> QED BY <1>6, <1>7, <1>8 DEF mk_sched_getNextTask

-----------------------------------------------------------------------------
(* One lemma per action.                                                   *)

\* A step that touches no task, no queue and no list keeps their order.
LEMMA SameSchedule ==
    ASSUME KernelInv,
           UNCHANGED <<currentTask, active, priority, state, readyTasks, bitmap,
                       waitingTasks, stoppedTasks>>
    PROVE  ScheduledOnce' /\ NoTaskLost' /\ BitmapExact'
<1>1. ScheduledOnce' /\ NoTaskLost'
  BY DEF KernelInv, ScheduledOnce, NoTaskLost
<1>2. BitmapExact'
  BY DEF KernelInv, BitmapExact
<1> QED BY <1>1, <1>2

\* mk_initKernel empties everything.
LEMMA InitKernelStep ==
    ASSUME KernelInv, mk_initKernel, TypeOK'
    PROVE  KernelInv'
<1>1. /\ started = FALSE /\ started' = FALSE /\ initialized' = TRUE
      /\ currentTask' = currentTask /\ currentTask = NoTask
      /\ pendSV' = FALSE /\ inTick' = FALSE /\ reschedule' = FALSE
      /\ waitingTasks' = <<>> /\ stoppedTasks' = <<>> /\ bitmap' = {}
      /\ \A h \in Handle : state[h] = "READY"
  BY DEF mk_initKernel, handler, KernelInv, LifeCycle, TypeOK
<1>2. /\ active' = [t \in Task |-> FALSE]
      /\ readyTasks' = [p \in Level |-> <<>>]
      /\ state' = [state EXCEPT ![Idle] = "READY"]
  BY DEF mk_initKernel
<1>3. \A h \in Handle : state'[h] = "READY"
  BY <1>1, <1>2, HandleFacts DEF KernelInv, TypeOK
<1>4. LifeCycle'
  BY <1>1, <1>3 DEF LifeCycle
<1>5. ScheduledOnce'
  <2>1. Once(<<>>) /\ Elems(<<>>) = {}
    BY DEF Once, Elems
  <2> QED BY <1>1, <1>2, <2>1 DEF ScheduledOnce
<1>6. NoTaskLost'
  BY <1>2 DEF NoTaskLost
<1>7. BitmapExact' /\ NoBlockedTaskRuns'
  BY <1>1, <1>2 DEF BitmapExact, NoBlockedTaskRuns
<1> QED BY <1>4, <1>5, <1>6, <1>7 DEF KernelInv

\* mk_createTask queues a task that was nowhere.
LEMMA CreateTaskStep ==
    ASSUME KernelInv, NEW p \in Level, mk_createTask(p), TypeOK'
    PROVE  KernelInv'
<1>1. PICK t \in Task :
        /\ ~active[t]
        /\ active'   = [active EXCEPT ![t] = TRUE]
        /\ priority' = [priority EXCEPT ![t] = p]
        /\ mk_sched_addReadyTask(readyTasks, t, p)
  BY Zenon DEF mk_createTask
<1>2. /\ initialized
      /\ UNCHANGED <<initialized, started, currentTask, waitingTasks,
                     stoppedTasks, pendSV, inTick, reschedule>>
  BY DEF mk_createTask, boot, handler
<1>3. /\ readyTasks \in [Level -> Seq(Task)] /\ bitmap \subseteq Level
      /\ state \in [Handle -> TaskState] /\ priority \in [Handle -> Level]
      /\ active \in [Task -> BOOLEAN] /\ t \in Handle
      /\ waitingTasks \in Seq(Task) /\ stoppedTasks \in Seq(Task)
  BY HandleFacts DEF KernelInv, TypeOK
<1>4. /\ \A l \in Level : Elems(readyTasks[l]) \subseteq Task
      /\ Elems(waitingTasks) \subseteq Task /\ Elems(stoppedTasks) \subseteq Task
  BY <1>3, ElemsFacts
<1>5. /\ \A l \in Level : t \notin Elems(readyTasks[l])
      /\ t \notin Elems(waitingTasks) /\ t \notin Elems(stoppedTasks)
  BY <1>1 DEF KernelInv, ScheduledOnce
<1>6. t # currentTask
  BY <1>1, HandleFacts DEF KernelInv, LifeCycle
<1>7. Once(readyTasks[p])
  BY DEF KernelInv, ScheduledOnce
<1>8. /\ HasRoom(readyTasks, p)
      /\ bitmap' = bitmap \cup {p}
      /\ \A l \in Level :
           /\ Elems(readyTasks'[l]) =
                Elems(readyTasks[l]) \cup (IF l = p THEN {t} ELSE {})
           /\ Once(readyTasks[l]) => Once(readyTasks'[l])
  <2>1. /\ HasRoom(readyTasks, p)
        /\ BitSet(readyTasks, p) = bitmap \cup {p}
        /\ \A l \in Level :
             /\ Elems(Pushed(readyTasks, t, p)[l]) =
                  Elems(readyTasks[l]) \cup (IF l = p THEN {t} ELSE {})
             /\ Once(readyTasks[l]) => Once(Pushed(readyTasks, t, p)[l])
    BY <1>3, <1>5, <1>7, EnqueueFacts, Zenon
  <2>2. readyTasks' = Pushed(readyTasks, t, p) /\ bitmap' = BitSet(readyTasks, p)
    BY <1>1 DEF mk_sched_addReadyTask
  <2> QED BY <2>1, <2>2
<1>9. \A h \in Handle : state'[h] = IF h = t THEN "READY" ELSE state[h]
  BY <1>1, <1>3, <1>8 DEF mk_sched_addReadyTask
<1>10. /\ \A u \in Task : active'[u] = (u = t \/ active[u])
       /\ \A h \in Handle : priority'[h] = IF h = t THEN p ELSE priority[h]
  BY <1>1, <1>3
<1>11. LifeCycle'
  BY <1>2, <1>3, <1>9, <1>10, HandleFacts DEF KernelInv, LifeCycle
<1>12. ScheduledOnce'
  <2>1. ReadyOnce'
    <3>1. ASSUME NEW l \in Level, NEW u \in Elems(readyTasks'[l])
          PROVE  active'[u] /\ state'[u] = "READY" /\ priority'[u] = l
                 /\ u # currentTask
      <4>1. u \in Task /\ u \in Handle
        BY <1>4, <1>8, HandleFacts
      <4>2. CASE u = t
        BY <1>5, <1>6, <1>8, <1>9, <1>10, <4>1, <4>2
      <4>3. CASE u # t
        <5>1. u \in Elems(readyTasks[l])
          BY <1>8, <4>3
        <5> QED BY <1>9, <1>10, <4>1, <4>3, <5>1 DEF KernelInv, ScheduledOnce
      <4> QED BY <4>2, <4>3
    <3>2. \A l \in Level : Once(readyTasks'[l])
      BY <1>8 DEF KernelInv, ScheduledOnce
    <3> QED BY <1>2, <3>1, <3>2 DEF ReadyOnce
  <2>2. WaitingOnce' /\ StoppedOnce'
    BY <1>2, <1>4, <1>5, <1>9, <1>10, HandleFacts
    DEF KernelInv, ScheduledOnce, WaitingOnce, StoppedOnce
  <2> QED BY <2>1, <2>2 DEF ScheduledOnce, ReadyOnce, WaitingOnce, StoppedOnce
<1>13. NoTaskLost'
  <2> SUFFICES ASSUME NEW u \in Task, active'[u]
               PROVE  \/ state'[u] = "READY" /\ u = currentTask
                      \/ state'[u] = "READY" /\ u \in Elems(readyTasks'[priority'[u]])
                      \/ state'[u] = "WAITING" /\ u \in Elems(waitingTasks)
                      \/ state'[u] = "STOPPED" /\ u \in Elems(stoppedTasks)
    BY <1>2 DEF NoTaskLost
  <2>1. CASE u = t
    BY <1>8, <1>9, <1>10, <2>1, <1>3
  <2>2. CASE u # t
    <3>1. u \in Handle /\ priority[u] \in Level
      BY <1>3, HandleFacts
    <3> QED BY <1>8, <1>9, <1>10, <2>2, <3>1 DEF KernelInv, NoTaskLost
  <2> QED BY <2>1, <2>2
<1>14. BitmapExact'
  <2>1. \A l \in Level : readyTasks'[l] = <<>> <=> Elems(readyTasks'[l]) = {}
    BY ElemsFacts DEF TypeOK
  <2>2. \A l \in Level : readyTasks[l] = <<>> <=> Elems(readyTasks[l]) = {}
    BY <1>3, ElemsFacts
  <2> QED BY <1>2, <1>6, <1>8, <1>9, <1>10, <2>1, <2>2, HandleFacts
          DEF KernelInv, BitmapExact
<1>15. NoBlockedTaskRuns'
  BY <1>2, <1>6, <1>9, HandleFacts DEF KernelInv, NoBlockedTaskRuns, LifeCycle
<1> QED BY <1>11, <1>12, <1>13, <1>14, <1>15 DEF KernelInv

\* mk_startKernel schedules from the idle task.
LEMMA StartKernelStep ==
    ASSUME KernelInv, mk_startKernel, TypeOK'
    PROVE  KernelInv'
<1>1. /\ initialized /\ ~started /\ started' = TRUE
      /\ mk_sched_getNextTask(Idle)
      /\ UNCHANGED <<initialized, active, priority, waitingTasks, stoppedTasks,
                     pendSV, inTick, reschedule>>
  BY DEF mk_startKernel, handler
<1>2. Scheduling(Idle)
  BY <1>1, HandleFacts DEF Scheduling, KernelInv, LifeCycle
<1>3. Dispatched' /\ state' = state
  BY <1>1, <1>2, GetNextStep
<1>4. LifeCycle'
  BY <1>1, <1>2, <1>3 DEF KernelInv, LifeCycle, Dispatched, Scheduling
<1>5. ScheduledOnce'
  <2>1. WaitingOnce' /\ StoppedOnce'
    BY <1>1, <1>3 DEF KernelInv, ScheduledOnce, WaitingOnce, StoppedOnce
  <2> QED BY <1>3, <2>1
          DEF Dispatched, ScheduledOnce, ReadyOnce, WaitingOnce, StoppedOnce
<1> QED BY <1>3, <1>4, <1>5 DEF KernelInv, Dispatched, NoBlockedTaskRuns

\* PendSV schedules from the current task.
LEMMA PendSVStep ==
    ASSUME KernelInv, PendSV_Handler, TypeOK'
    PROVE  KernelInv'
<1>1. /\ pendSV /\ pendSV' = FALSE
      /\ mk_sched_getNextTask(currentTask)
      /\ UNCHANGED <<initialized, started, active, priority, waitingTasks,
                     stoppedTasks, inTick, reschedule>>
  BY DEF PendSV_Handler, boot, handler
<1>2. started /\ Scheduling(currentTask)
  <2>1. started
    BY <1>1 DEF KernelInv, LifeCycle
  <2>2. currentTask \in Handle /\ state[Idle] = "READY"
    BY <2>1 DEF KernelInv, LifeCycle
  <2> QED BY <2>1, <2>2, Zenon DEF Scheduling
<1>3. Dispatched' /\ state' = state
  BY <1>1, <1>2, GetNextStep
<1>4. LifeCycle'
  BY <1>1, <1>2, <1>3 DEF KernelInv, LifeCycle, Dispatched, Scheduling
<1>5. ScheduledOnce'
  <2>1. WaitingOnce' /\ StoppedOnce'
    BY <1>1, <1>3 DEF KernelInv, ScheduledOnce, WaitingOnce, StoppedOnce
  <2> QED BY <1>3, <2>1
          DEF Dispatched, ScheduledOnce, ReadyOnce, WaitingOnce, StoppedOnce
<1> QED BY <1>3, <1>4, <1>5 DEF KernelInv, Dispatched, NoBlockedTaskRuns

\* Taking a READY task off the ready queues: what mk_waitTask and mk_stopTask
\* have in common.
LEMMA BlockFacts ==
    ASSUME KernelInv, TypeOK', NEW t \in Task, NEW new \in {"WAITING", "STOPPED"},
           active[t], state[t] = "READY",
           mk_sched_removeReadyTask(t), state' = [state EXCEPT ![t] = new],
           UNCHANGED <<active, priority, currentTask>>
    PROVE  /\ ReadyOnce' /\ BitmapExact'
           /\ \A h \in Handle : state'[h] = IF h = t THEN new ELSE state[h]
           /\ \A u \in Task : u # t /\ active[u] /\ state[u] = "READY" =>
                 u = currentTask \/ u \in Elems(readyTasks'[priority[u]])
<1> DEFINE p == priority[t]
<1>1. /\ readyTasks \in [Level -> Seq(Task)] /\ bitmap \subseteq Level
      /\ state \in [Handle -> TaskState] /\ priority \in [Handle -> Level]
      /\ readyTasks' \in [Level -> Seq(Task)] /\ t \in Handle
  BY HandleFacts DEF KernelInv, TypeOK
<1>2. TypeOK /\ ReadyOnce
  BY OnceParts DEF KernelInv
<1>3. /\ \A l \in Level :
           /\ Elems(readyTasks'[l]) =
                Elems(readyTasks[l]) \ (IF l = p THEN {t} ELSE {})
           /\ Once(readyTasks'[l])
      /\ bitmap' = IF readyTasks'[p] = <<>> THEN bitmap \ {p} ELSE bitmap
  BY <1>2, RemoveReadyFacts
<1>4. p \in Level
  BY <1>1
<1> HIDE DEF p
<1>5. \A h \in Handle : state'[h] = IF h = t THEN new ELSE state[h]
  BY <1>1
<1>6. ASSUME NEW l \in Level, NEW u \in Elems(readyTasks'[l])
      PROVE  active'[u] /\ state'[u] = "READY" /\ priority'[u] = l /\ u # currentTask'
  <2>1. u \in Elems(readyTasks[l]) /\ (l = p => u # t)
    BY <1>3
  <2>2. u \in Handle
    BY <1>1, <2>1, ElemsFacts, HandleFacts
  <2>3. active[u] /\ state[u] = "READY" /\ priority[u] = l /\ u # currentTask
    BY <1>2, <2>1 DEF ReadyOnce
  <2>4. u # t
    BY <2>1, <2>3 DEF p
  <2> QED BY <1>5, <2>2, <2>3, <2>4
<1>7. ReadyOnce'
  BY <1>3, <1>6 DEF ReadyOnce
<1>8. ASSUME NEW u \in Task, u # t, active[u], state[u] = "READY"
      PROVE  u = currentTask \/ u \in Elems(readyTasks'[priority[u]])
  <2>1. priority[u] \in Level
    BY <1>1, HandleFacts
  <2>2. u = currentTask \/ u \in Elems(readyTasks[priority[u]])
    BY <1>8 DEF KernelInv, NoTaskLost
  <2> QED BY <1>3, <1>8, <2>1, <2>2
<1>9. ASSUME NEW l \in Level
      PROVE  /\ readyTasks'[l] # <<>> => l \in bitmap'
             /\ l \in bitmap' /\ readyTasks'[l] = <<>> =>
                  currentTask' \in Task /\ state'[currentTask'] = "READY"
                  /\ priority'[currentTask'] = l
  <2>1. (readyTasks'[l] = <<>> <=> Elems(readyTasks'[l]) = {})
        /\ (readyTasks[l] = <<>> <=> Elems(readyTasks[l]) = {})
    BY <1>1, ElemsFacts
  <2>2. readyTasks[l] # <<>> => l \in bitmap
    BY DEF KernelInv, BitmapExact
  <2>3. readyTasks'[l] # <<>> => l \in bitmap'
    BY <1>3, <2>1, <2>2
  <2>4. ASSUME l \in bitmap', readyTasks'[l] = <<>>
        PROVE  currentTask \in Task /\ state'[currentTask] = "READY"
               /\ priority[currentTask] = l
    <3>1. l # p /\ l \in bitmap
      BY <1>3, <2>4
    <3>2. readyTasks[l] = <<>>
      BY <1>3, <2>1, <2>4, <3>1
    <3>3. currentTask \in Task /\ state[currentTask] = "READY"
          /\ priority[currentTask] = l
      BY <3>1, <3>2 DEF KernelInv, BitmapExact
    <3>4. currentTask # t /\ currentTask \in Handle
      BY <3>1, <3>3, HandleFacts DEF p
    <3> QED BY <1>5, <3>3, <3>4
  <2> QED BY <2>3, <2>4
<1>10. BitmapExact'
  BY <1>9 DEF BitmapExact
<1> QED BY <1>5, <1>7, <1>8, <1>10

\* mk_waitTask moves a READY task to the waiting list.
LEMMA WaitTaskStep ==
    ASSUME KernelInv, NEW id \in TaskIDs, NEW d \in WaitTimes, mk_waitTask(id, d),
           TypeOK'
    PROVE  KernelInv'
<1>1. PICK t \in Task :
        /\ mk_task_getTaskByID(id, t) /\ state[t] = "READY"
        /\ mk_sched_removeReadyTask(t)
        /\ state' = [state EXCEPT ![t] = "WAITING"]
        /\ mk_sched_addWaitingTask(t, (tickCount + d) % TickMod)
  BY Zenon DEF mk_waitTask
<1>2. /\ started /\ ~inTick /\ pendSV' = TRUE
      /\ UNCHANGED <<initialized, started, currentTask, active, priority,
                     stoppedTasks, inTick, reschedule>>
  BY DEF mk_waitTask, ClientRuns, boot, handler
<1>3. active[t]
  BY <1>1, Zenon DEF mk_task_getTaskByID
<1>4. /\ ReadyOnce' /\ BitmapExact'
      /\ \A h \in Handle : state'[h] = IF h = t THEN "WAITING" ELSE state[h]
      /\ \A u \in Task : u # t /\ active[u] /\ state[u] = "READY" =>
            u = currentTask \/ u \in Elems(readyTasks'[priority[u]])
  BY <1>1, <1>2, <1>3, BlockFacts
<1>5. /\ waitingTasks \in Seq(Task) /\ stoppedTasks \in Seq(Task)
      /\ Elems(waitingTasks) \subseteq Task /\ Elems(stoppedTasks) \subseteq Task
  BY ElemsFacts DEF KernelInv, TypeOK
<1>6. t \notin Elems(waitingTasks) /\ t \notin Elems(stoppedTasks)
      /\ Once(waitingTasks)
  BY <1>1 DEF KernelInv, ScheduledOnce
<1>7. Elems(waitingTasks') = Elems(waitingTasks) \cup {t} /\ Once(waitingTasks')
  <2>1. PICK i \in 1..(Len(waitingTasks) + 1) : waitingTasks' = InsertAt(waitingTasks, i, t)
    BY <1>1 DEF mk_sched_addWaitingTask
  <2> QED BY <1>5, <1>6, <2>1, InsertAtFacts
<1>8. WaitingOnce' /\ StoppedOnce'
  BY <1>1, <1>2, <1>3, <1>4, <1>5, <1>6, <1>7, HandleFacts
  DEF KernelInv, ScheduledOnce, WaitingOnce, StoppedOnce
<1>9. ScheduledOnce'
  BY <1>4, <1>8 DEF ScheduledOnce, ReadyOnce, WaitingOnce, StoppedOnce
<1>10. NoTaskLost'
  <2> SUFFICES ASSUME NEW u \in Task, active[u], u # t
               PROVE  \/ state[u] = "READY" /\ u = currentTask
                      \/ state[u] = "READY" /\ u \in Elems(readyTasks'[priority[u]])
                      \/ state[u] = "WAITING" /\ u \in Elems(waitingTasks')
                      \/ state[u] = "STOPPED" /\ u \in Elems(stoppedTasks)
    BY <1>2, <1>4, <1>7, HandleFacts DEF NoTaskLost
  <2> QED BY <1>4, <1>7 DEF KernelInv, NoTaskLost
<1>11. LifeCycle'
  BY <1>2, <1>4, HandleFacts DEF KernelInv, LifeCycle
<1>12. NoBlockedTaskRuns'
  BY <1>2 DEF NoBlockedTaskRuns
<1> QED BY <1>4, <1>9, <1>10, <1>11, <1>12 DEF KernelInv

\* mk_stopTask moves a READY task to the stopped list.
LEMMA StopTaskStep ==
    ASSUME KernelInv, NEW id \in TaskIDs, mk_stopTask(id), TypeOK'
    PROVE  KernelInv'
<1>1. PICK t \in Task :
        /\ mk_task_getTaskByID(id, t) /\ state[t] = "READY"
        /\ mk_sched_removeReadyTask(t)
        /\ state' = [state EXCEPT ![t] = "STOPPED"]
        /\ stoppedTasks' = InsertAt(stoppedTasks, 1, t)
  BY Zenon DEF mk_stopTask, mk_sched_addStoppedTask
<1>2. /\ started /\ ~inTick /\ pendSV' = TRUE
      /\ UNCHANGED <<initialized, started, currentTask, active, priority,
                     waitingTasks, inTick, reschedule>>
  BY DEF mk_stopTask, ClientRuns, boot, handler
<1>3. active[t]
  BY <1>1, Zenon DEF mk_task_getTaskByID
<1>4. /\ ReadyOnce' /\ BitmapExact'
      /\ \A h \in Handle : state'[h] = IF h = t THEN "STOPPED" ELSE state[h]
      /\ \A u \in Task : u # t /\ active[u] /\ state[u] = "READY" =>
            u = currentTask \/ u \in Elems(readyTasks'[priority[u]])
  BY <1>1, <1>2, <1>3, BlockFacts
<1>5. /\ waitingTasks \in Seq(Task) /\ stoppedTasks \in Seq(Task)
      /\ Elems(waitingTasks) \subseteq Task /\ Elems(stoppedTasks) \subseteq Task
  BY ElemsFacts DEF KernelInv, TypeOK
<1>6. t \notin Elems(waitingTasks) /\ t \notin Elems(stoppedTasks)
      /\ Once(stoppedTasks)
  BY <1>1 DEF KernelInv, ScheduledOnce
<1>7. Elems(stoppedTasks') = Elems(stoppedTasks) \cup {t} /\ Once(stoppedTasks')
  <2>1. 1 \in 1..(Len(stoppedTasks) + 1)
    BY <1>5
  <2> QED BY <1>1, <1>5, <1>6, <2>1, InsertAtFacts
<1>8. WaitingOnce' /\ StoppedOnce'
  BY <1>1, <1>2, <1>3, <1>4, <1>5, <1>6, <1>7, HandleFacts
  DEF KernelInv, ScheduledOnce, WaitingOnce, StoppedOnce
<1>9. ScheduledOnce'
  BY <1>4, <1>8 DEF ScheduledOnce, ReadyOnce, WaitingOnce, StoppedOnce
<1>10. NoTaskLost'
  <2> SUFFICES ASSUME NEW u \in Task, active[u], u # t
               PROVE  \/ state[u] = "READY" /\ u = currentTask
                      \/ state[u] = "READY" /\ u \in Elems(readyTasks'[priority[u]])
                      \/ state[u] = "WAITING" /\ u \in Elems(waitingTasks)
                      \/ state[u] = "STOPPED" /\ u \in Elems(stoppedTasks')
    BY <1>2, <1>4, <1>7, HandleFacts DEF NoTaskLost
  <2> QED BY <1>4, <1>7 DEF KernelInv, NoTaskLost
<1>11. LifeCycle'
  BY <1>2, <1>4, HandleFacts DEF KernelInv, LifeCycle
<1>12. NoBlockedTaskRuns'
  BY <1>2 DEF NoBlockedTaskRuns
<1> QED BY <1>4, <1>9, <1>10, <1>11, <1>12 DEF KernelInv

\* mk_yieldTask moves nothing, and PendSV becomes pending.
LEMMA YieldTaskStep ==
    ASSUME KernelInv, NEW id \in TaskIDs, mk_yieldTask(id), TypeOK'
    PROVE  KernelInv'
<1>1. /\ started /\ ~inTick /\ pendSV' = TRUE
      /\ UNCHANGED <<initialized, started, currentTask, active, priority, state,
                     readyTasks, bitmap, waitingTasks, stoppedTasks, inTick,
                     reschedule>>
  BY DEF mk_yieldTask, ClientRuns, boot, sched, handler
<1>2. ScheduledOnce' /\ NoTaskLost' /\ BitmapExact'
  BY <1>1, SameSchedule
<1>3. LifeCycle' /\ NoBlockedTaskRuns'
  BY <1>1 DEF KernelInv, LifeCycle, NoBlockedTaskRuns
<1> QED BY <1>2, <1>3 DEF KernelInv

\* A tick begins only when no PendSV is pending.
LEMMA SysTickEnterStep ==
    ASSUME KernelInv, SysTickEnter, TypeOK'
    PROVE  KernelInv'
<1>1. /\ started /\ ~pendSV /\ inTick' = TRUE
      /\ UNCHANGED <<initialized, started, currentTask, active, priority, state,
                     readyTasks, bitmap, waitingTasks, stoppedTasks, pendSV,
                     reschedule>>
  BY DEF SysTickEnter, boot, tcb, sched
<1>2. ScheduledOnce' /\ NoTaskLost' /\ BitmapExact'
  BY <1>1, SameSchedule
<1>3. LifeCycle' /\ NoBlockedTaskRuns'
  BY <1>1 DEF KernelInv, LifeCycle, NoBlockedTaskRuns
<1> QED BY <1>2, <1>3 DEF KernelInv

\* A tick ends after its last sleeper.
LEMMA SysTickExitStep ==
    ASSUME KernelInv, SysTickExit, TypeOK'
    PROVE  KernelInv'
<1>1. /\ inTick /\ inTick' = FALSE /\ reschedule' = FALSE
      /\ UNCHANGED <<initialized, started, currentTask, active, priority, state,
                     readyTasks, bitmap, waitingTasks, stoppedTasks>>
  BY DEF SysTickExit, boot, sched
<1>2. ScheduledOnce' /\ NoTaskLost' /\ BitmapExact'
  BY <1>1, SameSchedule
<1>3. started /\ ~pendSV
  BY <1>1 DEF KernelInv, LifeCycle
<1>4. LifeCycle' /\ NoBlockedTaskRuns'
  BY <1>1, <1>3 DEF KernelInv, LifeCycle, NoBlockedTaskRuns
<1> QED BY <1>2, <1>4 DEF KernelInv

\* A woken task moves from the waiting list to the ready queue of its level:
\* it is not the current task, which is READY while a tick is handled.
LEMMA WakeTaskStep ==
    ASSUME KernelInv, WakeTask, TypeOK'
    PROVE  KernelInv'
<1> DEFINE t == Head(waitingTasks)
           p == priority[t]
<1>1. /\ inTick /\ waitingTasks # <<>>
      /\ mk_sched_addReadyTask(readyTasks, t, p)
      /\ waitingTasks' = Tail(waitingTasks)
      /\ UNCHANGED <<initialized, started, currentTask, active, priority,
                     stoppedTasks, pendSV, inTick>>
  BY DEF WakeTask, SleeperDue, boot
<1>2. /\ readyTasks \in [Level -> Seq(Task)] /\ bitmap \subseteq Level
      /\ state \in [Handle -> TaskState] /\ priority \in [Handle -> Level]
      /\ waitingTasks \in Seq(Task) /\ stoppedTasks \in Seq(Task)
      /\ readyTasks' \in [Level -> Seq(Task)]
  BY DEF KernelInv, TypeOK
<1>3. /\ t \in Task /\ Once(Tail(waitingTasks))
      /\ Elems(waitingTasks) = Elems(Tail(waitingTasks)) \cup {t}
      /\ t \notin Elems(Tail(waitingTasks))
  BY <1>1, <1>2, TailFacts DEF KernelInv, ScheduledOnce
<1> HIDE DEF t
<1>4. t \in Handle /\ p \in Level
  BY <1>2, <1>3, HandleFacts
<1>5. active[t] /\ state[t] = "WAITING"
  BY <1>3 DEF KernelInv, ScheduledOnce
<1>6. started /\ ~pendSV /\ state[currentTask] = "READY"
  BY <1>1 DEF KernelInv, LifeCycle, NoBlockedTaskRuns
<1>7. /\ t # currentTask
      /\ \A l \in Level : t \notin Elems(readyTasks[l])
      /\ t \notin Elems(stoppedTasks)
  BY <1>5, <1>6 DEF KernelInv, ScheduledOnce
<1>8. /\ \A l \in Level : Elems(readyTasks[l]) \subseteq Task
      /\ Elems(waitingTasks) \subseteq Task /\ Elems(stoppedTasks) \subseteq Task
  BY <1>2, ElemsFacts
<1> HIDE DEF p
<1>9. /\ HasRoom(readyTasks, p)
      /\ bitmap' = bitmap \cup {p}
      /\ \A l \in Level :
           /\ Elems(readyTasks'[l]) =
                Elems(readyTasks[l]) \cup (IF l = p THEN {t} ELSE {})
           /\ Once(readyTasks'[l])
  <2>1. Once(readyTasks[p]) /\ t \notin Elems(readyTasks[p])
    BY <1>4, <1>7 DEF KernelInv, ScheduledOnce
  <2>2. /\ HasRoom(readyTasks, p)
        /\ BitSet(readyTasks, p) = bitmap \cup {p}
        /\ \A l \in Level :
             /\ Elems(Pushed(readyTasks, t, p)[l]) =
                  Elems(readyTasks[l]) \cup (IF l = p THEN {t} ELSE {})
             /\ Once(readyTasks[l]) => Once(Pushed(readyTasks, t, p)[l])
    BY <1>2, <1>3, <1>4, <2>1, EnqueueFacts, Zenon
  <2>3. readyTasks' = Pushed(readyTasks, t, p) /\ bitmap' = BitSet(readyTasks, p)
    BY <1>1 DEF mk_sched_addReadyTask
  <2>4. \A l \in Level : Once(readyTasks[l])
    BY DEF KernelInv, ScheduledOnce
  <2> QED BY <2>2, <2>3, <2>4
<1>10. \A h \in Handle : state'[h] = IF h = t THEN "READY" ELSE state[h]
  BY <1>1, <1>2, <1>9 DEF mk_sched_addReadyTask
<1>11. LifeCycle'
  <2>1. state'[Idle] = "READY" /\ currentTask \in Handle
        /\ (currentTask \in Task => active[currentTask]) /\ initialized
    BY <1>3, <1>6, <1>10, HandleFacts DEF KernelInv, LifeCycle
  <2> QED BY <1>1, <1>6, <2>1 DEF LifeCycle
<1>12. ScheduledOnce'
  <2>1. ASSUME NEW l \in Level, NEW u \in Elems(readyTasks'[l])
        PROVE  active[u] /\ state'[u] = "READY" /\ priority[u] = l /\ u # currentTask
    <3>1. CASE u \in Elems(readyTasks[l])
      <4>1. u # t /\ u \in Handle
        BY <1>7, <1>8, <3>1, HandleFacts
      <4> QED BY <1>10, <3>1, <4>1 DEF KernelInv, ScheduledOnce
    <3>2. CASE u \notin Elems(readyTasks[l])
      <4>1. u = t /\ l = p
        BY <1>9, <3>2
      <4> QED BY <1>4, <1>5, <1>7, <1>10, <4>1 DEF p
    <3> QED BY <3>1, <3>2
  <2>2. ReadyOnce'
    BY <1>1, <1>9, <2>1 DEF ReadyOnce
  <2>3. ASSUME NEW u \in Elems(waitingTasks')
        PROVE  active[u] /\ state'[u] = "WAITING"
    <3>1. u \in Elems(waitingTasks) /\ u # t
      BY <1>1, <1>3
    <3>2. u \in Handle
      BY <1>8, <3>1, HandleFacts
    <3> QED BY <1>10, <3>1, <3>2 DEF KernelInv, ScheduledOnce
  <2>4. WaitingOnce'
    BY <1>1, <1>3, <2>3 DEF WaitingOnce
  <2>5. ASSUME NEW u \in Elems(stoppedTasks)
        PROVE  active[u] /\ state'[u] = "STOPPED"
    <3>1. u # t /\ u \in Handle
      BY <1>7, <1>8, HandleFacts
    <3> QED BY <1>10, <3>1 DEF KernelInv, ScheduledOnce
  <2>6. StoppedOnce'
    BY <1>1, <2>5 DEF KernelInv, ScheduledOnce, StoppedOnce
  <2> QED BY <2>2, <2>4, <2>6
          DEF ScheduledOnce, ReadyOnce, WaitingOnce, StoppedOnce
<1>13. NoTaskLost'
  <2>1. ASSUME NEW u \in Task, active[u]
        PROVE  \/ state'[u] = "READY" /\ u = currentTask
               \/ state'[u] = "READY" /\ u \in Elems(readyTasks'[priority[u]])
               \/ state'[u] = "WAITING" /\ u \in Elems(waitingTasks')
               \/ state'[u] = "STOPPED" /\ u \in Elems(stoppedTasks)
    <3>1. CASE u = t
      BY <1>4, <1>9, <1>10, <3>1 DEF p
    <3>2. CASE u # t
      <4>1. u \in Handle /\ priority[u] \in Level
        BY <1>2, HandleFacts
      <4>2. u \in Elems(waitingTasks) => u \in Elems(waitingTasks')
        BY <1>1, <1>3, <3>2
      <4>3. u \in Elems(readyTasks[priority[u]]) => u \in Elems(readyTasks'[priority[u]])
        BY <1>9, <4>1
      <4> QED BY <1>10, <2>1, <3>2, <4>1, <4>2, <4>3 DEF KernelInv, NoTaskLost
    <3> QED BY <3>1, <3>2
  <2> QED BY <1>1, <2>1 DEF NoTaskLost
<1>14. BitmapExact'
  <2>1. \A l \in Level : /\ readyTasks'[l] = <<>> <=> Elems(readyTasks'[l]) = {}
                         /\ readyTasks[l] = <<>> <=> Elems(readyTasks[l]) = {}
    BY <1>2, ElemsFacts
  <2>2. currentTask \in Task => state'[currentTask] = state[currentTask]
    BY <1>7, <1>10, HandleFacts
  <2>3. ASSUME NEW l \in Level
        PROVE  /\ readyTasks'[l] # <<>> => l \in bitmap'
               /\ l \in bitmap' /\ readyTasks'[l] = <<>> =>
                    l \in bitmap /\ readyTasks[l] = <<>>
    BY <1>9, <2>1 DEF KernelInv, BitmapExact
  <2> QED BY <1>1, <2>2, <2>3 DEF KernelInv, BitmapExact
<1>15. NoBlockedTaskRuns'
  <2>1. state'[currentTask] = "READY"
    BY <1>6, <1>7, <1>10 DEF KernelInv, LifeCycle
  <2> QED BY <1>1, <2>1 DEF NoBlockedTaskRuns
<1> QED BY <1>11, <1>12, <1>13, <1>14, <1>15 DEF KernelInv

-----------------------------------------------------------------------------
\* The invariant holds when main starts.
LEMMA KernelInvInit == Init => KernelInv
<1> SUFFICES ASSUME Init PROVE KernelInv
  OBVIOUS
<1>1. TypeOK
  BY TypeInit
<1>2. LifeCycle /\ NoTaskLost /\ NoBlockedTaskRuns
  BY DEF Init, LifeCycle, NoTaskLost, NoBlockedTaskRuns
<1>3. BitmapExact
  BY DEF Init, BitmapExact
<1>4. ScheduledOnce
  <2>1. Once(<<>>) /\ Elems(<<>>) = {}
    BY DEF Once, Elems
  <2> QED BY <2>1 DEF Init, ScheduledOnce
<1> QED BY <1>1, <1>2, <1>3, <1>4 DEF KernelInv

\* Every step keeps it.
LEMMA KernelInvStep == KernelInv /\ [Next]_vars => KernelInv'
<1> SUFFICES ASSUME KernelInv, [Next]_vars PROVE KernelInv'
  OBVIOUS
<1>1. TypeOK'
  BY TypeStep DEF KernelInv
<1>2. CASE UNCHANGED vars
  <2>1. UNCHANGED <<initialized, started, currentTask, active, priority, state,
                    readyTasks, bitmap, waitingTasks, stoppedTasks, pendSV,
                    inTick, reschedule>>
    BY <1>2 DEF vars, boot, tcb, sched, handler
  <2>2. ScheduledOnce' /\ NoTaskLost' /\ BitmapExact'
    BY <2>1, SameSchedule
  <2>3. LifeCycle' /\ NoBlockedTaskRuns'
    BY <2>1 DEF KernelInv, LifeCycle, NoBlockedTaskRuns
  <2> QED BY <1>1, <2>2, <2>3 DEF KernelInv
<1>3. CASE KernelCall
  <2>1. CASE mk_initKernel   BY <1>1, <2>1, InitKernelStep
  <2>2. CASE \E p \in Level : mk_createTask(p)   BY <1>1, <2>2, CreateTaskStep
  <2>3. CASE mk_startKernel   BY <1>1, <2>3, StartKernelStep
  <2>4. CASE \E id \in TaskIDs, d \in WaitTimes : mk_waitTask(id, d)
    BY <1>1, <2>4, WaitTaskStep
  <2>5. CASE \E id \in TaskIDs : mk_yieldTask(id)   BY <1>1, <2>5, YieldTaskStep
  <2>6. CASE \E id \in TaskIDs : mk_stopTask(id)   BY <1>1, <2>6, StopTaskStep
  <2> QED BY <1>3, <2>1, <2>2, <2>3, <2>4, <2>5, <2>6 DEF KernelCall
<1>4. CASE SysTick_Handler
  BY <1>1, <1>4, SysTickEnterStep, WakeTaskStep, SysTickExitStep DEF SysTick_Handler
<1>5. CASE PendSV_Handler
  BY <1>1, <1>5, PendSVStep
<1> QED BY <1>2, <1>3, <1>4, <1>5 DEF Next

\* The kernel keeps all of KernelInv, for any number of tasks, levels and ticks.
THEOREM Safety == Spec => []KernelInv
BY KernelInvInit, KernelInvStep, PTL DEF Spec

\* Every variable keeps its type: handles stay in the pool, the bitmap among the
\* levels, the time slices between 0 and TimeSlice.
THEOREM TypeCorrect == Spec => []TypeOK
<1>1. KernelInv => TypeOK   BY DEF KernelInv
<1> QED BY <1>1, Safety, PTL

\* No task is ever in two places of the scheduler (addReadyTask, addWaitingTask
\* and addStoppedTask do not look).
THEOREM TasksScheduledOnce == Spec => []ScheduledOnce
<1>1. KernelInv => ScheduledOnce   BY DEF KernelInv
<1> QED BY <1>1, Safety, PTL

\* No created task is ever dropped: no q_push of the scheduler fails, whatever
\* the size of the pool.
THEOREM TasksNeverLost == Spec => []NoTaskLost
<1>1. KernelInv => NoTaskLost   BY DEF KernelInv
<1> QED BY <1>1, Safety, PTL

\* mk_taskPriorityBitmap shows every queued task, and lies only about the level
\* of the task on the CPU.
THEOREM BitmapCorrect == Spec => []BitmapExact
<1>1. KernelInv => BitmapExact   BY DEF KernelInv
<1> QED BY <1>1, Safety, PTL

\* No task executes while it is WAITING or STOPPED.
THEOREM BlockedTasksDoNotRun == Spec => []NoBlockedTaskRuns
<1>1. KernelInv => NoBlockedTaskRuns   BY DEF KernelInv
<1> QED BY <1>1, Safety, PTL

-----------------------------------------------------------------------------
(* The order of the waiting list.                                          *)

\* Nothing happens to the order while the list and the wake times of the tasks
\* in it stay the same.
LEMMA SortedKept ==
    ASSUME TypeOK, WaitingSorted, waitingTasks' = waitingTasks,
           \A t \in Elems(waitingTasks) : wakeTime'[t] = wakeTime[t]
    PROVE  WaitingSorted'
<1>1. waitingTasks \in Seq(Task)
  BY DEF TypeOK
<1>2. \A i \in DOMAIN waitingTasks : waitingTasks[i] \in Elems(waitingTasks)
  BY DEF Elems
<1> QED BY <1>1, <1>2 DEF WaitingSorted

\* mk_sched_addWaitingTask keeps the list sorted: the tasks before the insertion
\* point wake no later than the new one, those after it later.
LEMMA SortedInsert ==
    ASSUME TypeOK, WaitingSorted, TypeOK', NEW t \in Task,
           t \notin Elems(waitingTasks),
           NEW w \in 0..(TickMod - 1), wakeTime' = [wakeTime EXCEPT ![t] = w],
           mk_sched_addWaitingTask(t, w)
    PROVE  WaitingSorted'
<1> DEFINE q == waitingTasks
           r == waitingTasks'
           at(j) == wakeTime[q[j]]
<1>1. /\ q \in Seq(Task) /\ Len(q) \in Nat /\ DOMAIN q = 1..Len(q)
      /\ r \in Seq(Task) /\ DOMAIN r = 1..Len(r)
      /\ wakeTime \in [Handle -> 0..(TickMod - 1)]
  BY DEF TypeOK
<1>2. PICK i \in 1..(Len(q) + 1) : InsertPoint(w, i) /\ r = InsertAt(q, i, t)
  BY DEF mk_sched_addWaitingTask
<1>3. /\ Len(r) = Len(q) + 1
      /\ \A j \in 1..Len(r) :
            r[j] = IF j < i THEN q[j] ELSE IF j = i THEN t ELSE q[j - 1]
  <2> HIDE DEF q, r
  <2>1. /\ Len(InsertAt(q, i, t)) = Len(q) + 1
        /\ \A j \in 1..(Len(q) + 1) :
             InsertAt(q, i, t)[j] =
               IF j < i THEN q[j] ELSE IF j = i THEN t ELSE q[j - 1]
    BY <1>1, InsertAtPositions
  <2>2. r = InsertAt(q, i, t)
    BY <1>2
  <2> QED BY <2>1, <2>2
<1>4. \A j \in 1..Len(q) : q[j] # t /\ q[j] \in Task
  BY <1>1, ElemsFacts
<1>5. /\ wakeTime'[t] = w
      /\ \A j \in 1..Len(q) : wakeTime'[q[j]] = at(j) /\ at(j) \in Nat
  BY <1>1, <1>4, HandleFacts
<1>6. \A j, k \in 1..Len(q) : j < k => at(j) <= at(k)
  BY <1>1 DEF WaitingSorted
<1>7. /\ \A j \in 1..(i - 1) : at(j) <= w
      /\ i <= Len(q) => w < at(i)
  BY <1>2 DEF InsertPoint
<1>8. \A j \in i..Len(q) : w <= at(j)
  <2> SUFFICES ASSUME NEW j \in i..Len(q) PROVE w <= at(j)
    OBVIOUS
  <2>1. i \in 1..Len(q) /\ j \in 1..Len(q) /\ w < at(i)
    BY <1>1, <1>2, <1>7
  <2>2. at(i) <= at(j)
    BY <1>5, <1>6, <2>1
  <2> QED BY <1>5, <2>1, <2>2
<1> HIDE DEF q, r, at
<1>9. ASSUME NEW j \in 1..Len(r), NEW k \in 1..Len(r), j < k
      PROVE  wakeTime'[r[j]] <= wakeTime'[r[k]]
  <2>1. CASE k < i
    BY <1>1, <1>3, <1>5, <1>6, <1>9, <2>1
  <2>2. CASE k = i
    BY <1>1, <1>3, <1>5, <1>7, <1>9, <2>2
  <2>3. CASE k > i /\ j < i
    <3>2. k - 1 \in i..Len(q) /\ j \in 1..(i - 1) /\ j \in 1..Len(q) /\ k - 1 \in 1..Len(q)
      BY <1>1, <1>2, <1>3, <1>9, <2>3
    <3>3. r[j] = q[j] /\ r[k] = q[k - 1]
      BY <1>3, <2>3
    <3>4. at(j) <= w /\ w <= at(k - 1)
      BY <1>7, <1>8, <3>2
    <3> QED BY <1>5, <3>2, <3>3, <3>4
  <2>4. CASE k > i /\ j = i
    <3>1. k - 1 \in i..Len(q) /\ k - 1 \in 1..Len(q)
      BY <1>1, <1>2, <1>3, <2>4
    <3>2. r[j] = t /\ r[k] = q[k - 1]
      BY <1>3, <2>4
    <3> QED BY <1>5, <1>8, <3>1, <3>2
  <2>5. CASE j > i
    <3>1. j - 1 \in 1..Len(q) /\ k - 1 \in 1..Len(q) /\ j - 1 < k - 1
      BY <1>1, <1>2, <1>3, <1>9, <2>5
    <3>2. r[j] = q[j - 1] /\ r[k] = q[k - 1]
      BY <1>3, <1>9, <2>5
    <3> QED BY <1>5, <1>6, <3>1, <3>2
  <2> QED BY <1>2, <2>1, <2>2, <2>3, <2>4, <2>5
<1> QED BY <1>1, <1>9 DEF WaitingSorted, r

\* Each action keeps the list sorted.
LEMMA SortedStep == KernelInv /\ WaitingSorted /\ [Next]_vars => WaitingSorted'
<1> SUFFICES ASSUME KernelInv, WaitingSorted, [Next]_vars PROVE WaitingSorted'
  OBVIOUS
<1>1. KernelInv' /\ TypeOK /\ TypeOK'
  BY KernelInvStep DEF KernelInv
<1>2. CASE UNCHANGED <<waitingTasks, wakeTime>>
  BY <1>1, <1>2, SortedKept
<1>3. CASE mk_initKernel
  BY <1>3 DEF mk_initKernel, WaitingSorted
<1>4. ASSUME NEW p \in Level, mk_createTask(p) PROVE WaitingSorted'
  <2>1. PICK t \in Task :
          /\ ~active[t]
          /\ wakeTime' = [wakeTime EXCEPT ![t] = 0]
    BY <1>4, Zenon DEF mk_createTask
  <2>2. waitingTasks' = waitingTasks
    BY <1>4 DEF mk_createTask
  <2>3. t \notin Elems(waitingTasks)
    BY <2>1 DEF KernelInv, ScheduledOnce
  <2>4. \A u \in Elems(waitingTasks) : wakeTime'[u] = wakeTime[u]
    BY <1>1, <2>1, <2>3, ElemsFacts, HandleFacts DEF TypeOK
  <2> QED BY <1>1, <2>2, <2>4, SortedKept
<1>5. ASSUME NEW id \in TaskIDs, NEW d \in WaitTimes, mk_waitTask(id, d)
      PROVE  WaitingSorted'
  <2> DEFINE w == (tickCount + d) % TickMod
  <2>1. PICK t \in Task :
          /\ state[t] = "READY"
          /\ wakeTime' = [wakeTime EXCEPT ![t] = w]
          /\ mk_sched_addWaitingTask(t, w)
    BY <1>5, Zenon DEF mk_waitTask
  <2>2. t \notin Elems(waitingTasks)
    BY <2>1 DEF KernelInv, ScheduledOnce
  <2>3. w \in 0..(TickMod - 1)
    <3>1. tickCount \in Int /\ d \in Int
      BY <1>1, KernelAssumption DEF TypeOK
    <3> QED BY <3>1, KernelAssumption
  <2> HIDE DEF w
  <2> QED BY <1>1, <2>1, <2>2, <2>3, SortedInsert
<1>6. CASE WakeTask
  <2>1. /\ waitingTasks # <<>> /\ waitingTasks' = Tail(waitingTasks)
        /\ wakeTime' = wakeTime
    BY <1>6 DEF WakeTask, SleeperDue
  <2> DEFINE q == waitingTasks
             r == waitingTasks'
  <2>2. q \in Seq(Task) /\ r \in Seq(Task)
    BY <1>1 DEF TypeOK
  <2>3. Len(q) = Len(r) + 1 /\ \A i \in 1..Len(r) : r[i] = q[i + 1]
    BY <2>1, <2>2, TailFacts
  <2>4. \A i, j \in 1..Len(q) : i < j => wakeTime[q[i]] <= wakeTime[q[j]]
    BY <2>2 DEF WaitingSorted
  <2>5. DOMAIN r = 1..Len(r) /\ Len(r) \in Nat
    BY <2>2
  <2> HIDE DEF q, r
  <2>6. ASSUME NEW i \in 1..Len(r), NEW j \in 1..Len(r), i < j
        PROVE  wakeTime[r[i]] <= wakeTime[r[j]]
    <3>1. i + 1 \in 1..Len(q) /\ j + 1 \in 1..Len(q) /\ i + 1 < j + 1
      BY <2>3, <2>5, <2>6
    <3> QED BY <2>3, <2>4, <3>1
  <2> QED BY <2>1, <2>5, <2>6 DEF WaitingSorted, r
<1>7. mk_startKernel \/ PendSV_Handler \/ SysTickEnter \/ SysTickExit
        => UNCHANGED <<waitingTasks, wakeTime>>
  BY DEF mk_startKernel, PendSV_Handler, SysTickEnter, SysTickExit, tcb, sched
<1>8. ASSUME NEW id \in TaskIDs, mk_yieldTask(id) \/ mk_stopTask(id)
      PROVE  UNCHANGED <<waitingTasks, wakeTime>>
  BY <1>8 DEF mk_yieldTask, mk_stopTask, sched
<1>9. UNCHANGED vars => UNCHANGED <<waitingTasks, wakeTime>>
  BY DEF vars, tcb, sched
<1> QED BY <1>2, <1>3, <1>4, <1>5, <1>6, <1>7, <1>8, <1>9
        DEF Next, KernelCall, SysTick_Handler

\* The loop of mk_sched_incrementSystemTick may stop at the first sleeper that
\* is not due: mk_sched_addWaitingTask keeps the list sorted by wake time.
THEOREM SleepersSorted == Spec => []WaitingSorted
<1>1. Init => WaitingSorted   BY DEF Init, WaitingSorted
<1> QED BY <1>1, Safety, SortedStep, PTL DEF Spec

-----------------------------------------------------------------------------
(* The IDs that mk_createTask hands out.                                   *)

\* Every ID in use has been handed out, and 0 never is.
IDsHandedOut ==
    \A t \in Task : active[t] => taskID[t] \in 1..(currentTaskID - 1)

\* The counter only grows, so that a new ID is not in use.
LEMMA IDsStep ==
    KernelInv /\ IDsHandedOut /\ IDsUnique /\ [Next]_vars
      => IDsHandedOut' /\ IDsUnique'
<1> SUFFICES ASSUME KernelInv, IDsHandedOut, IDsUnique, [Next]_vars
             PROVE  IDsHandedOut' /\ IDsUnique'
  OBVIOUS
<1>1. /\ currentTaskID \in Nat /\ currentTaskID >= 1
      /\ taskID \in [Handle -> 0..MaxID] /\ active \in [Task -> BOOLEAN]
  BY KernelAssumption DEF KernelInv, TypeOK, FirstTaskID
<1>2. CASE UNCHANGED <<active, taskID, currentTaskID>>
  BY <1>2 DEF IDsHandedOut, IDsUnique
<1>3. CASE mk_initKernel
  BY <1>3 DEF mk_initKernel, IDsHandedOut, IDsUnique
<1>4. ASSUME NEW p \in Level, mk_createTask(p)
      PROVE  IDsHandedOut' /\ IDsUnique'
  <2>1. PICK t \in Task :
          /\ active' = [active EXCEPT ![t] = TRUE]
          /\ taskID' = [taskID EXCEPT ![t] = currentTaskID]
    BY <1>4, Zenon DEF mk_createTask
  <2>2. currentTaskID' = currentTaskID + 1
    BY <1>4 DEF mk_createTask
  <2>3. /\ taskID'[t] = currentTaskID
        /\ \A u \in Task : u # t => taskID'[u] = taskID[u] /\ active'[u] = active[u]
    BY <1>1, <2>1, HandleFacts
  <2>4. \A u \in Task : u # t /\ active[u] => taskID[u] \in 1..(currentTaskID - 1)
    BY DEF IDsHandedOut
  <2>5. \A u \in Task : u # t /\ active[u] => taskID[u] # currentTaskID
    BY <1>1, <2>4
  <2>6. IDsHandedOut'
    BY <1>1, <2>2, <2>3, <2>4 DEF IDsHandedOut
  <2>7. \A u \in Task : active'[u] => taskID'[u] # 0
    BY <1>1, <2>2, <2>6 DEF IDsHandedOut
  <2>8. ASSUME NEW u \in Task, NEW v \in Task, active'[u], active'[v],
               taskID'[u] = taskID'[v]
        PROVE  u = v
    BY <2>3, <2>5, <2>8 DEF IDsUnique
  <2> QED BY <2>6, <2>7, <2>8 DEF IDsUnique
<1>5. mk_startKernel \/ PendSV_Handler \/ SysTick_Handler
        => UNCHANGED <<active, taskID, currentTaskID>>
  BY DEF mk_startKernel, PendSV_Handler, SysTick_Handler, SysTickEnter, WakeTask,
         SysTickExit, tcb
<1>6. ASSUME NEW id \in TaskIDs, NEW d \in WaitTimes, mk_waitTask(id, d)
      PROVE  UNCHANGED <<active, taskID, currentTaskID>>
  BY <1>6 DEF mk_waitTask
<1>7. ASSUME NEW id \in TaskIDs, mk_yieldTask(id) \/ mk_stopTask(id)
      PROVE  UNCHANGED <<active, taskID, currentTaskID>>
  BY <1>7 DEF mk_yieldTask, mk_stopTask
<1>8. UNCHANGED vars => UNCHANGED <<active, taskID, currentTaskID>>
  BY DEF vars, tcb
<1> QED BY <1>2, <1>3, <1>4, <1>5, <1>6, <1>7, <1>8 DEF Next, KernelCall

\* mk_task_getTaskByID finds the task that was given the ID, and no created
\* task is taken for the idle task.
THEOREM IDsNameOneTask == Spec => []IDsUnique
<1>1. Init => IDsHandedOut /\ IDsUnique   BY DEF Init, IDsHandedOut, IDsUnique
<1> QED BY <1>1, Safety, IDsStep, PTL DEF Spec

-----------------------------------------------------------------------------
(* The right task runs, when every task is created before the start.       *)

\* What RunningIsEligible says, without the excuse of a pending PendSV.
NoneBetter ==
    \A p \in Level : readyTasks[p] # <<>> =>
        /\ p >= priority[currentTask]
        /\ p = priority[currentTask] => timeLeft[currentTask] > 0

\* While a tick is handled, a better task has set the reschedule flag.
FlagShowsBetter ==
    \A p \in Level : readyTasks[p] # <<>> =>
        p >= priority[currentTask] \/ reschedule

\* The inductive form: no better task goes unnoticed.
BetterNoticed ==
    started /\ ~pendSV => IF inTick THEN FlagShowsBetter ELSE NoneBetter

\* mk_sched_getNextTask leaves the CPU to a task that no queued one beats.  When
\* it keeps the current task although its level has the highest bit, the bit
\* lies (BitmapExact) or the slice is not over.
LEMMA GetNextBest ==
    ASSUME KernelInv, NEW from, Scheduling(from), mk_sched_getNextTask(from),
           priority' = priority
    PROVE  NoneBetter'
<1>1. /\ readyTasks \in [Level -> Seq(Task)] /\ bitmap \subseteq Level
      /\ priority \in [Handle -> Level] /\ Level \subseteq Nat
      /\ timeLeft \in [Handle -> 0..TimeSlice] /\ from \in Handle
  BY DEF KernelInv, TypeOK, Scheduling, Level
<1>2. /\ \A p \in bitmap : readyTasks[p] = <<>> =>
            from \in Task /\ state[from] = "READY" /\ priority[from] = p
      /\ \A p \in Level : readyTasks[p] # <<>> => p \in bitmap
  BY SchedulingFacts DEF KernelInv, BitmapExact
<1>3. CASE RunIdle(from)
  BY <1>2, <1>3 DEF RunIdle, NoneBetter
<1>4. CASE KeepCurrent(from)
  <2>1. /\ currentTask' = from
        /\ UNCHANGED <<timeLeft, readyTasks, bitmap>>
        /\ \A h \in bitmap :
              IsHighest(h) => ~ShouldSwitch(from, h) \/ readyTasks[h] = <<>>
    BY <1>4 DEF KeepCurrent
  <2>2. CASE bitmap = {}
    BY <1>2, <2>1, <2>2 DEF NoneBetter
  <2>3. CASE bitmap # {}
    <3>1. PICK h \in bitmap : IsHighest(h)
      BY <1>1, <2>3, HighestExists
    <3>2. \A p \in Level : readyTasks[p] # <<>> => h <= p
      BY <1>2, <3>1 DEF IsHighest
    <3>3. CASE readyTasks[h] = <<>>
      <4>1. priority[from] = h
        BY <1>2, <3>3
      <4> QED BY <1>1, <2>1, <3>2, <3>3, <4>1 DEF NoneBetter
    <3>4. CASE ~ShouldSwitch(from, h)
      <4>1. h \in Nat /\ priority[from] \in Nat /\ timeLeft[from] \in Nat
        <5>1. h \in Nat   BY <1>1, <3>1
        <5>2. priority[from] \in Nat   BY <1>1
        <5>3. timeLeft[from] \in Nat   BY <1>1
        <5> QED BY <5>1, <5>2, <5>3
      <4>2. h >= priority[from] /\ (h = priority[from] => timeLeft[from] > 0)
        BY <3>4, <4>1 DEF ShouldSwitch
      <4>3. ASSUME NEW p \in Level, readyTasks[p] # <<>>
            PROVE  /\ p >= priority[from]
                   /\ p = priority[from] => timeLeft[from] > 0
        BY <1>1, <3>2, <4>1, <4>2, <4>3
      <4> QED BY <2>1, <4>3 DEF NoneBetter
    <3> QED BY <2>1, <3>1, <3>3, <3>4
  <2> QED BY <2>2, <2>3
<1>5. ASSUME NEW h \in bitmap, SwitchTo(from, h) PROVE NoneBetter'
  <2> DEFINE next   == Head(readyTasks[h])
             popped == [readyTasks EXCEPT ![h] = Tail(@)]
  <2>1. /\ IsHighest(h) /\ ShouldSwitch(from, h) /\ readyTasks[h] # <<>>
        /\ currentTask' = next
        /\ timeLeft' = [timeLeft EXCEPT ![next] = TimeSlice]
        /\ \/ /\ state[from] = "READY" /\ from # Idle
              /\ readyTasks' = Pushed(popped, from, priority[from])
           \/ readyTasks' = popped
    BY <1>5 DEF SwitchTo
  <2>2. h \in Level /\ next \in Elems(readyTasks[h]) /\ next \in Task
    BY <1>1, <2>1, TailFacts
  <2>3. priority[next] = h
    BY <2>2 DEF KernelInv, ScheduledOnce
  <2>4. timeLeft'[next] > 0
    BY <1>1, <2>1, <2>2, HandleFacts, KernelAssumption
  <2>5. \A p \in bitmap : h <= p
    BY <2>1 DEF IsHighest
  <2> HIDE DEF next
  <2>6. ASSUME NEW p \in Level, readyTasks'[p] # <<>> PROVE h <= p
    <3>1. CASE readyTasks[p] # <<>>
      BY <1>2, <2>5, <3>1
    <3>2. CASE readyTasks[p] = <<>>
      <4>1. p # h
        BY <2>1, <3>2
      <4>2. popped[p] = <<>>
        BY <1>1, <3>2, <4>1
      <4> HIDE DEF popped
      <4>3. state[from] = "READY" /\ readyTasks' = Pushed(popped, from, priority[from])
        BY <2>1, <2>6, <4>2
      <4>4. p = priority[from]
        <5>1. CASE HasRoom(popped, priority[from])
          <6>1. /\ DOMAIN popped = Level
                /\ readyTasks' = [popped EXCEPT ![priority[from]] =
                                     Append(popped[priority[from]], from)]
            BY <1>1, <4>3, <5>1 DEF Pushed, popped
          <6> QED BY <2>6, <4>2, <6>1
        <5>2. CASE ~HasRoom(popped, priority[from])
          BY <2>6, <4>2, <4>3, <5>2 DEF Pushed
        <5> QED BY <5>1, <5>2
      <4>5. h <= priority[from]
        <5>1. h \in Nat /\ priority[from] \in Nat
          BY <1>1
        <5> QED BY <2>1, <4>3, <5>1 DEF ShouldSwitch
      <4> QED BY <4>4, <4>5
    <3> QED BY <3>1, <3>2
  <2> QED BY <1>1, <2>1, <2>2, <2>3, <2>4, <2>6 DEF NoneBetter
<1> QED BY <1>3, <1>4, <1>5 DEF mk_sched_getNextTask
\* Only a task created while the kernel runs could be a better one that nothing
\* notices: a wait and a stop take a task away and ask for a reschedule, a tick
\* compares every task it wakes with the current one, and a slice that ends
\* sets PendSV.
LEMMA BetterStep ==
    ASSUME ~CreateWhileRunning
    PROVE  KernelInv /\ BetterNoticed /\ [Next]_vars => BetterNoticed'
<1> SUFFICES ASSUME KernelInv, BetterNoticed, [Next]_vars PROVE BetterNoticed'
  OBVIOUS
<1>1. /\ readyTasks \in [Level -> Seq(Task)]
      /\ priority \in [Handle -> Level]
      /\ timeLeft \in [Handle -> 0..TimeSlice]
      /\ inTick => ~pendSV
      /\ started => currentTask \in Handle /\ state[Idle] = "READY"
      /\ ~started => currentTask = NoTask /\ state[Idle] = "READY"
  BY HandleFacts DEF KernelInv, TypeOK, LifeCycle
<1>2. CASE mk_initKernel \/ \E p \in Level : mk_createTask(p)
  <2>1. ~started /\ started' = started
    BY <1>2 DEF mk_initKernel, mk_createTask, boot
  <2> QED BY <2>1 DEF BetterNoticed
<1>3. ASSUME NEW id \in TaskIDs, NEW d \in WaitTimes, mk_waitTask(id, d)
      PROVE  pendSV'
  BY <1>3 DEF mk_waitTask
<1>4. ASSUME NEW id \in TaskIDs, mk_yieldTask(id) \/ mk_stopTask(id) PROVE pendSV'
  BY <1>4 DEF mk_yieldTask, mk_stopTask
<1>5. CASE mk_startKernel
  <2>1. /\ ~started /\ mk_sched_getNextTask(Idle)
        /\ priority' = priority /\ inTick' = inTick /\ pendSV' = pendSV
    BY <1>5 DEF mk_startKernel, handler
  <2>2. Scheduling(Idle)
    BY <1>1, <2>1, HandleFacts DEF Scheduling
  <2>3. NoneBetter'
    BY <2>1, <2>2, GetNextBest
  <2>4. ~inTick
    BY <2>1 DEF KernelInv, LifeCycle
  <2> QED BY <2>1, <2>3, <2>4 DEF BetterNoticed
<1>6. CASE PendSV_Handler
  <2>1. /\ pendSV /\ mk_sched_getNextTask(currentTask)
        /\ priority' = priority /\ inTick' = inTick
    BY <1>6 DEF PendSV_Handler, handler
  <2>2. started /\ ~inTick
    BY <2>1 DEF KernelInv, LifeCycle
  <2>3. Scheduling(currentTask)
    BY <1>1, <2>2 DEF Scheduling
  <2>4. NoneBetter'
    BY <2>1, <2>3, GetNextBest
  <2> QED BY <2>1, <2>2, <2>4 DEF BetterNoticed
<1>7. CASE SysTickEnter
  <2>1. /\ started /\ ~pendSV /\ ~inTick /\ inTick'
        /\ UNCHANGED <<readyTasks, priority, currentTask>>
    BY <1>7 DEF SysTickEnter, tcb, sched
  <2>2. NoneBetter
    BY <2>1 DEF BetterNoticed
  <2> QED BY <2>1, <2>2 DEF BetterNoticed, NoneBetter, FlagShowsBetter
<1>8. CASE SysTickExit
  <2>1. /\ inTick /\ ~inTick' /\ started' = started
        /\ UNCHANGED <<readyTasks, priority, currentTask>>
        /\ timeLeft' = [timeLeft EXCEPT ![currentTask] = SliceAfterTick(@)]
        /\ pendSV' = (reschedule \/ SliceAfterTick(timeLeft[currentTask]) = 0)
    BY <1>8 DEF SysTickExit, boot, sched
  <2> SUFFICES ASSUME started, ~pendSV' PROVE NoneBetter'
    BY <2>1 DEF BetterNoticed
  <2>2. currentTask \in Handle /\ timeLeft[currentTask] \in Nat
    BY <1>1
  <2>3. ~reschedule /\ SliceAfterTick(timeLeft[currentTask]) # 0
    BY <2>1
  <2>4. timeLeft'[currentTask] > 0
    BY <1>1, <2>1, <2>2, <2>3, KernelAssumption DEF SliceAfterTick
  <2>5. FlagShowsBetter
    BY <1>1, <2>1 DEF BetterNoticed
  <2> QED BY <2>1, <2>3, <2>4, <2>5 DEF FlagShowsBetter, NoneBetter
<1>9. CASE WakeTask
  <2> DEFINE t == Head(waitingTasks)
  <2>1. /\ inTick /\ waitingTasks # <<>>
        /\ readyTasks' = Pushed(readyTasks, t, priority[t])
        /\ reschedule' = (reschedule \/ Preempts(t))
        /\ UNCHANGED <<started, pendSV, inTick, priority, currentTask>>
    BY <1>9 DEF WakeTask, SleeperDue, mk_sched_addReadyTask, boot
  <2>2. started /\ ~pendSV /\ currentTask \in Handle
    BY <1>1, <2>1 DEF KernelInv, LifeCycle
  <2>3. t \in Task
    BY <2>1, TailFacts DEF KernelInv, TypeOK
  <2> HIDE DEF t
  <2>4. FlagShowsBetter
    BY <2>1, <2>2 DEF BetterNoticed
  <2>5. priority[t] \in Level /\ priority[t] \in Nat /\ priority[currentTask] \in Nat
    BY <1>1, <2>2, <2>3, HandleFacts DEF Level
  <2>6. ASSUME NEW p \in Level, readyTasks'[p] # <<>>
        PROVE  p >= priority[currentTask] \/ reschedule'
    <3>1. CASE p = priority[t]
      <4>1. CASE priority[t] < priority[currentTask]
        BY <2>1, <4>1, Zenon DEF Preempts
      <4>2. CASE ~(priority[t] < priority[currentTask])
        BY <2>5, <3>1, <4>2
      <4> QED BY <4>1, <4>2
    <3>2. CASE p # priority[t]
      <4>1. readyTasks'[p] = readyTasks[p]
        BY <1>1, <2>1, <3>2 DEF Pushed
      <4> QED BY <2>1, <2>4, <2>6, <4>1 DEF FlagShowsBetter
    <3> QED BY <3>1, <3>2
  <2> QED BY <2>1, <2>6 DEF BetterNoticed, FlagShowsBetter
<1>10. CASE UNCHANGED vars
  BY <1>10 DEF vars, boot, tcb, sched, handler, BetterNoticed, NoneBetter,
               FlagShowsBetter
<1>11. pendSV' => BetterNoticed'
  BY DEF BetterNoticed
<1> QED BY <1>2, <1>3, <1>4, <1>5, <1>6, <1>7, <1>8, <1>9, <1>10, <1>11
        DEF Next, KernelCall, SysTick_Handler

\* When every task is created before mk_startKernel, nothing that makes a queued
\* task the one to run (a wait, a stop, a wake-up, the end of a slice) forgets
\* the reschedule.
THEOREM NoForgottenReschedule ==
    ASSUME ~CreateWhileRunning
    PROVE  Spec => []RunningIsEligible
<1>1. Init => BetterNoticed   BY DEF Init, BetterNoticed
<1>2. BetterNoticed => RunningIsEligible
  BY DEF BetterNoticed, NoneBetter, RunningIsEligible
<1>3. KernelInv /\ BetterNoticed /\ [Next]_vars => BetterNoticed'
  BY BetterStep
<1> QED BY <1>1, <1>2, <1>3, Safety, PTL DEF Spec
=============================================================================
