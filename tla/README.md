# A formal model of the microkernel

A small preemptive real-time kernel for the ARM Cortex-M4F (`microkernel/`), with
a hardware abstraction layer for the STM32F446 (`hal/`) and two demos. This
directory holds TLA+ modules that model the kernel, the TLC runs that check them
on small instances, and TLAPS proofs that hold for instances of any size. The
repository has no tests; what the code promises is read from its headers and
comments.

Run a model with `tlc -config X.cfg M` and check the proofs of `M` with
`tlapm M.tla`. `PROJECT.json` lists the runs, the lines each definition models,
the hazards and the theorems.

## 1. Inventory

| Component | State | Operations | Interacts with |
|---|---|---|---|
| kernel API (`microkernel.c`) | `kernel_initialized`, `kernel_started` | `mk_initKernel`, `mk_startKernel`, `mk_createTask`, `mk_waitTask`, `mk_yieldTask`, `mk_stopTask`, `mk_getCurrentTaskID` | called from `main` and from tasks; calls the task pool, the allocator and the scheduler |
| task pool (`mk_task.c`, `mk_globals.c`, `mk_common.h`) | `_mk_taskPool` (the TCBs, the idle task last), `_mk_currentTask`, `_mk_currentTaskID`, `_mk_kernelTickCount` | `mk_task_init`, `mk_task_getTaskByID` | shared by everything, without locks |
| scheduler (`mk_scheduler.c`) | a ready queue per level, the bitmap of the non-empty ones, the sorted waiting list, the stopped list | add/remove in each, `getNextTask`, `incrementSystemTick`, `waitTask`, `yieldTask`, `stopTask`, `init`, `start` | called by the API in thread mode and by both exception handlers |
| record queue (`mk_queue.c`) | a ring: `in`, `out`, `cnt`, slots | init, kill, flush, push, pop, drop, three peeks | one FIFO per level in the scheduler |
| stack allocation (`mk_mem.c`) | `allocated`, the lowest address given out | `mk_mem_init`, `mk_mem_initTaskStackFrame` | `mk_initKernel`, `mk_createTask` |
| port (`port.c`) | the PENDSVSET bit, the exception priorities | `SysTick_Handler`, `PendSV_Handler`, `mk_port_reschedule`, `mk_port_start` | hardware; calls the scheduler |
| idle task (`mk_common.c`) | none | loops | |
| HAL: GPIO (`gpio.c`) | the pins' configuration fields, ODR | `GPIO_Set_*`, `GPIO_Pin_Init`, `GPIO_Write`, `GPIO_Toggle`, `GPIO_Read` | called from `main`, from tasks and from the USART driver |
| HAL: USART (`usart.c`) | the USART's registers | `USART_Init`, `USART_Transmit`; `USART_Receive` (empty) | GPIO, RCC, NVIC; polls the hardware |
| HAL: RCC, NVIC, EXTI | clock gates, interrupt enables, edges | `GPIO_Clock_Init`, `NVIC_EnableIRQ`, `EXTI_Line_Enable` | called from `main` and the drivers |
| HAL: I2C, SysTick | | `I2C_Init` (a stub), a delay loop | nobody calls them with the kernel |
| demos (`demo1.c`, `demo2.c`) | | tasks that blink LEDs, transmit and wait | clients of both the kernel and the HAL; the kernel does not use the HAL |
| start-up, linker script | | | |

What is hard here:

- **Interleaving.** SysTick comes between any two instructions of a task; PendSV,
  once pending, comes before the next instruction of the task. The two have one
  priority (`port.h:28-29`), so they never interrupt each other. A kernel call
  itself is not protected from either, nor is a read-modify-write of a register.
- **Context.** Registers and stacks change hands at any instruction and at any
  alignment of the stack pointer; the first task starts from a frame made for
  another purpose.
- **Stale state.** A pop leaves the bit of the queue set; a blocked task goes on
  until PendSV; the bitmap, the queues, the lists and `state` say the same thing
  four times and must agree at every step.
- **Ordering.** The wake-up loop trusts the order of the waiting list.
- **Boundaries.** The tick counter and the wake times wrap at 2^32, the slices are
  unsigned, `cnt - 1` and `size - 68` wrap, a ring has its own wrap.
- **Liveness.** Round robin within a level rests on a zeroed slice being seen by
  the next PendSV.

What makes each component correct: for the scheduler, that no task is lost or in two places, that the
bitmap tells the truth, that a blocked task does not run and a better one does, that sleepers wake, on
time; for the queue, that it is a bounded queue; for the allocator, that stacks are as large as asked
and disjoint; for the port, that a task does not notice a switch; for the task pool, that an ID names one
task; for the HAL, that each field holds what the last caller asked and no byte is lost on its way.

## 2. Modules

| Module | What it is |
|---|---|
| `MkKernel` | API, task pool, scheduler and exception handlers: the core |
| `PriorityScheduler` | the abstract specification: one task runs at a time, taken among the best ready ones, never preempted by a worse one |
| `MkKernelRefinement` | the mapping from `MkKernel` to `PriorityScheduler` |
| `MkTimed` | `MkKernel` with history variables: how long each wait should last |
| `BoundedQueue`, `MkQueue` | the abstract bounded queue; the ring that implements it |
| `MkCalls` | waits, stops and yields taken apart into steps, the lists into links |
| `MkCallsRefinement` | `MkCalls` with interrupts off implements `MkKernel` |
| `MkMem` | where stacks and initial frames lie |
| `MkContext` | the words in them: context switches, on the stacks of `MkMem` |
| `HalDrivers` | the functions of the HAL as sequences of register accesses |
| `Hal` | these at work: the registers, the USART, and the clients of demo2 |
| `SeqSets` | sequences seen as sets |
| `MC_...` | the constants of the runs |
| `SeqSets_proofs` | facts about the sequence operations |
| `MkKernel_proofs` | the types; `KernelInv` is inductive; the order of the waiting list, the IDs, no forgotten reschedule |
| `MkKernelRefinement_proofs` | `MkKernel` implements `PriorityScheduler` |
| `MkTimed_proofs` | waits that do not wrap are punctual |
| `MkCalls_proofs` | with interrupts off, `MkCalls` implements `MkKernel` |
| `MkQueue_proofs` | the ring implements `BoundedQueue` |
| `MkContext_proofs` | stacks are right, and contexts survive |
| `Hal_proofs` | outputs stand, and bytes arrive in order |

### MkKernel and the code

A task is its handle, the index in `_mk_taskPool`. Each TCB field is a function
of the handle: `priority`, `taskID`, `state`, `timeLeft`, `wakeTime`, and
`active` for `stackPtr != NULL`. `timeSlice` is a constant (`TimeSlice`). A
ready queue and the two lists are sequences; `bitmap` is the set of the levels
whose bit is set. Actions have the names of the functions. `SysTick_Handler` is
three: `SysTickEnter` (the counter), `WakeTask` (one turn of the loop) and
`SysTickExit` (the slice, and the PendSV request). `mk_sched_getNextTask` is an
operator with three disjuncts, one for each way it goes; `PendSV_Handler` and
`mk_startKernel` are the two places that use it. When two reasons lead to the
same effect (no reason to switch; a failed pop whose -1 nobody reads), they are
one disjunct, `KeepCurrent`.

Three things are assumed of the clients, and the code checks none of them: a
kernel call is not interrupted in the middle, the task named in a wait or a stop
exists, is READY and is not the idle task, and `main` alone calls
`mk_initKernel` and `mk_startKernel`. `MkCalls` lifts the first and, for
sleeping tasks, the second.

### MkCalls and the code

`call[c]` is where task `c` is in a kernel call: the step (`pc`) and the local
variables of the functions it is in. It is per task, because PendSV can take the
CPU away in the middle. The calls begin with `mk_waitTask`, `mk_stopTask` or
`mk_yieldTask`; `RotatePop`, `RotatePush`, `LoadBitmap` and `StoreBitmap` are
`mk_sched_removeReadyTask`; `ListHead`, `Walk`, `InsertBefore` and `InsertLast`
are `mk_sched_addWaitingTask`; `Return` is `mk_port_reschedule` and the end. The
heads and the fields `next` and `prev` are what the code has, with -1 for no
task. `Masked = TRUE` turns exceptions off during a call, as `mk_queue.h:97-98`
asks; `Masked = FALSE` is the kernel as it stands. `TargetStates` are the states
in which a task may be named. A creation stays one step, and a task in the middle
of its own call makes none.

`MkCallsRefinement` maps the links to the sequences of `MkKernel`. During a call
the mapping shows the state in which the call began, kept in the history
variable `outside`, so that the last step of a call is the whole step of
`MkKernel`.

### MkContext and the code

A word of memory is its owner, what it is (a register of the task, a local
variable), a version, and its bit 9, which only the stacked xPSR uses: there the
hardware notes the padding word it inserts when PSP is not a multiple of 8. The
initial frames are those of `mk_mem.c`. `main` creates tasks before the start, and a
running task may create others at any time: the frame and the zeroes of a new stack are
written over whatever is there, with the contexts and the words of the other tasks
beside them. `mk_port_startFirstTask` and
`PendSV_Handler` follow the assembly in `port.c` and what the Cortex-M4 does on
exception entry and return. `Compute` is any computation of a task: it changes every
register and the depth of its stack. `own` is history: what the task last knew.

### HalDrivers, Hal and the code

A function of the HAL is a sequence of accesses, each to one register: a write, an
OR, an AND with a complement, a poll, a branch. A value is the set of its bits
that are 1. In `Hal` each thread has the rest of its call in `todo` and performs
one access at a time; a read-modify-write is a load and a store, so that
another thread can come between. The hardware, which is external, does what the
reference manual says: BSRR sets and resets bits of ODR, ISER only sets, a peripheral without its clock
ignores writes, DR goes into a shift register, which sets TXE, and the last byte
sets TC. A shift by 32 or more, undefined in C, gives 0 as a shift by register does on
this core.

`main` follows demo2: clocks, LEDs, USART, a greeting. Two tasks drive LEDs of
one port, one transmits, and one more, which demo2 does not have, configures
pins and interrupt lines, so that the shifts and masks are checked beyond the pins of the demo. One
task transmits and one configures. No lock or other means in the code would make more
than that safe.

`Want` says which bits of which register the caller of a function wants to be what; a call
comes with its set of wishes, and `asked` is what the registers should be configured to
when every call so far has fulfilled its own. `ClientAssumption` says what the configuring
task calls: it asks `GPIO_Pin_Init` for an alternate-function or analog pin below 8
without a pull, and never wants a pin push-pull again or an edge of a line taken back
(`OnlySet`), which no function of the HAL can do.

A definition named `Bug_...` is a faulty variant of the definition after it. The
specification never uses it; replacing the original by it must break the
property that guards against that fault.

## 3. Runs

| Run | Checks | Shows |
|---|---|---|
| `kernel_safe` | types, `ScheduledOnce`, `NoTaskLost`, `BitmapExact`, `NoBlockedTaskRuns`, `WaitingSorted`, `IDsUnique`, `ImplementsPriorityScheduler` | lists, queues, bitmap and states agree; each step is one of the abstract scheduler |
| `kernel_live` | `SleepersWake`, `EveryReadyTaskGetsItsTurn` | every sleeper wakes, also over the wrap of the counter; nobody is starved by its own level |
| `timed` | `PunctualWithoutWrap`, `RunningIsEligible` | waits last as long as asked unless they span the wrap; no queued task should run instead of the one that does |
| `queue` | types, `IndicesAgree`, `PeeksRight`, `ImplementsBoundedQueue` | the ring is a bounded queue, FIFO or LIFO, overwriting or not |
| `calls` | `LinksMirror`, `ImplementsKernel`, `CallsReturn` | with interrupts off the calls, step by step and on links, do what `MkKernel` says, and end |
| `mem` | `StackAsAsked`, `ContextPreserved`, `LocalsPreserved` | stacks are as large as asked, and a task finds its registers and its stack as it left them, whichever tasks are switched to or created meanwhile |
| `hal` | `ConfiguredAsAsked`, `OutputsAsWritten`, `BytesInOrder`, `BaudRateRight`, `TransmitReturns` | pins and lines are as asked, LEDs as last written, bytes arrive in order, a transmission ends |

and five runs that find the code and its documentation to disagree:

| Run | Counterexample |
|---|---|
| `timed_wrap` | `microkernel.h:50` promises a wait of `time` ms. The sum wraps around, and a wait over the wrap ends at the next tick. |
| `mem_min` | `microkernel.h:33` allows stacks of 64 bytes. The frame takes 68, and the loop bound wraps around. |
| `calls_preempted` | `mk_queue.h:97-98` wants interrupts off, and nobody turns them off. A task whose slice ends inside its own `mk_waitTask`, after `state = WAITING` and before the insertion, is in no queue and no list, and never runs again. |
| `calls_stopped` | `microkernel.h:64` stops a task, and no call resumes one. A sleeping task that is stopped stays in the waiting list, and the tick makes it READY. |
| `hal_af` | `usart.h:87-88` promises to configure the pins. `GPIO_Set_AF` shifts by `pin * 4` in AFRH too, which is 32 and more: the pins of USART3, above 7, keep alternate function 0. |

Other places where the code does not do what its text says, seen while
modelling, without a run of their own:

- `mk_common.c:3-4` puts the idle task on the CPU only when no other task is
  available. It has the lowest level and a slice of its own, so a woken task of
  that level waits until the idle task's slice ends.
- `mk_scheduler.c:255` promises a reschedule when a higher task is ready. One
  created by the running task is not noticed before the slice ends:
  `mk_createTask` asks for no reschedule, and a tick only looks at the tasks it
  wakes. (`RunningIsEligible` fails in `timed` with `CreateWhileRunning = TRUE`.)
- `mk_queue.h:158` says that in a LIFO `q_peekPrevious` and `q_peek` agree. Not
  once an overwriting LIFO has wrapped around.
- `GPIO_Pin_Init` ends in `GPIO_Set_AF`, which forces the alternate function mode
  whatever mode was asked, and never sets the pull; `GPIO_Set_OutputType` cannot
  go back to push-pull. `Hal` calls them only for what they can do (`ClientAssumption`).
- `I2C_Init` ORs 17 into TRISE, whose reset value is 2, which makes 19.
- `SYSTICK_Delay` waits for a counter that nothing increments.
- `USART_Transmit` hangs when `transmit_en` is 0.

### Bounds, and why they are enough

- `kernel_safe`: three tasks and two levels give two tasks of one level and one
  of another, a full ready queue but one place, two sleepers to order and one
  that runs. `MaxID = 3` bounds the creations (with a re-initialisation among
  them the slots are used again). Waits of 0 and 2 ticks at `TickMod = 3` make
  sleepers that are due at once, later, and over the wrap. A slice of one tick
  reaches every combination of a slice left and used up, and makes the tick
  subtract at the boundary.
- `kernel_live`: one wait time and `TickMod = 2`, which makes every wait span
  the wrap or not by when it begins; liveness needs the smaller graph.
- `timed`: `TickMod = 5` with waits of 0 and 3, so that most waits do not wrap;
  two tasks and three levels; `MsPerTick = 1` as with the configured rate of 1000 Hz.
- `queue`: rings of 1, 2 and 3 slots: in a ring of three, `in` and `out` differ,
  coincide when full and when empty, and lie on either side of the end. Three
  records tell positions apart.
- `calls`: three tasks of one level, so that a queue to rotate holds up to two and a
  walk meets up to two sleepers: insertions at the head, in the middle and at the
  end, as the wake times 0 and 1 come in any order over `TickMod = 2`. Two
  levels would multiply the states and add nothing to a rotation, which looks at
  one level; `kernel_safe` has two. The violation runs need two tasks only.
- `mem`: 4096 words of RAM and a 16-bit `size_t`; sizes at and next to the
  multiples of 8, and the smallest that works (65). Two tasks and the idle task
  are enough for one to overwrite another, and for one that has words in use or has come
  from a switch to create the other beside a saved context. 1 and 20 words in use give both
  alignments of PSP and stacks filled to their last word. `mem_min` has up to four tasks.
  Addresses may go below 0, since the code has no lower bound.
- `hal`: two ports, of which one has the LEDs and the USART2 pins and the other the
  USART6 pins; two baud rates, of which 334000 makes the fraction round up to a
  whole. Five calls set fields at the ends of registers and over earlier
  values; two of them in a row are enough to change a field twice, or two fields of
  one register. Messages of two bytes fill DR and the shift register.

The wrap moduli `TickMod` (2^32) and `SizeMod` (2^32) are constants; the small
values make the wrap happen within the run.

### Fairness

`FairSpec` assumes that the timer ticks for ever. SysTick has strong fairness: it
stays pending in hardware, and PendSV, which runs before it at equal priority, is
over after one call; clients that ask for a reschedule each time they run can
disable it again and again but never for ever. The handlers run to their end
(weak fairness of `WakeTask`, `SysTickExit`, `PendSV_Handler`). Nothing is assumed
of tasks: they may loop for ever or make no call. The safety runs assume no
fairness.

`CallsReturn` assumes weak fairness of the steps of a call: with interrupts off
nothing else can run. `TransmitReturns` assumes it of each thread, which has the CPU
again and again as `EveryReadyTaskGetsItsTurn` says of a ready task (in demo2 the
transmitting task has the best level of the three), and of the USART, which is
hardware and sends at its own rate.

`EveryReadyTaskGetsItsTurn` excuses a task while a higher one is ready: the
kernel has fixed priorities and lets a lower level starve.

## 4. Proofs

`MkKernel_proofs` proves `Spec => []KernelInv` for every value of the
constants that `KernelAssumption` allows: any pool up to 32767 tasks, 1 to 32
levels, any slice, tick and modulus, any durations. `KernelInv` is the
conjunction of (the runs check its parts)

- `TypeOK` and `LifeCycle` (what is true before the start, and in which order
  the exceptions are pending and active),
- `ScheduledOnce`, `NoTaskLost`, `BitmapExact`, `NoBlockedTaskRuns`.

None of them is inductive alone. A push succeeds because the queue misses the
task and holds every other at most once (`QueueHasRoom`, by the pigeonhole
principle: this needs `ScheduledOnce`). `getNextTask` leaves a READY task on the
CPU because a set bit over an empty queue belongs to a READY current task
(`BitmapExact`) and because queued tasks are READY (`ScheduledOnce`). A woken
task is not the current one because the current one is READY while a tick is
handled (`NoBlockedTaskRuns`, `LifeCycle`), and what it leaves behind is not lost
because `NoTaskLost` placed it in the waiting list. Even `TypeOK` needs
`LifeCycle`: PendSV schedules from the current task, and there must be one.

The proof has one lemma per action. `RemoveReadyFacts`, `EnqueueFacts` and
`GetNextStep` say once what the scheduler's helpers do to the queues as sets;
`BlockFacts` is what a wait and a stop share. `SeqSets_proofs` holds the facts
about sequences without duplicates. `HighestExists` (a non-empty bitmap has a
first bit) comes from the well-foundedness of the naturals.

It then builds on `KernelInv`:

- `SleepersSorted` (`Spec => []WaitingSorted`). A task that is about to wait is in
  no list (`ScheduledOnce`), so that setting its wake time moves nobody else.
- `IDsNameOneTask` (`Spec => []IDsUnique`), by `IDsHandedOut`: every ID in use is
  below the counter.
- `NoForgottenReschedule` (`Spec => []RunningIsEligible`), assuming that no task is
  created while the kernel runs; it fails otherwise (section 3). The inductive
  form `BetterNoticed` says what is true inside the tick: a better task has set
  the flag. `GetNextBest` uses `BitmapExact` once
  more: when the highest bit is over an empty queue, it is that of the current task.

`MkKernelRefinement_proofs` proves `Spec => ImplementsPriorityScheduler`. Each
action is a step of the abstract scheduler or a stutter. `SwitchIsBest` shows that
the task taken by `getNextTask` is among the best READY ones, from the bitmap and
`NoTaskLost`. `IdleAtStart` says that an initialised kernel that has not
started holds the idle task at the lowest level with a whole slice, which the
first switch needs.

`MkTimed_proofs` proves `WaitsArePunctual` (`TimedSpec => []PunctualWithoutWrap`). `due[t]`
counts down what a wait should still last; the code compares `wakeTime[t]` with
the counter. `Counted` ties the two together, also in the middle of a tick, when
the counter has moved and the sleepers have not yet been looked at. The tick
ends in front of the first sleeper that is not due, so that all sleepers behind it are
not due either (`WaitingSorted`), and a sleeper cannot be anywhere but in that list
(`KernelInv`). A sleeper that spans the wrap may stand anywhere in the list without
harm to the others. It is assumed that a tick is one millisecond (`OneTickPerMs`), which
is what `mk_config.h` sets.

`MkCalls_proofs` proves, for any number of tasks and levels, with interrupts off
during a call and READY tasks named in the waits and stops (`Disciplined`; the two
`calls_...` runs show what happens otherwise):

- `CallsImplementKernel` (`HistorySpec => ImplementsKernel`), so that what is proved of
  `MkKernel` holds of queues that are rotated and lists made of links; `KernelSafeBetweenCalls`
  says so of `KernelInv`.
- `LinksAlwaysMirror` (`HistorySpec => []LinksMirror`).

`CallsInv` is `MkKernel`'s `KernelInv` of what is seen from outside, and `CallsOK`, which has
three parts. `OneCaller`: nobody but the current task is in a call. `ListsRight`:
at every step the links form two lists without a common task, of which the
waiting list can be walked back. `Progress`: what the call has done so far,
compared with the snapshot `outside`. In the rotation of a queue (`Queue`), after `i` of its `n` pops
the queue is the old one turned by `i` places, without the target once it has
been met; after all `n` it is the old queue without the target, in its old
order. `Walked` says that the sleepers passed by wake no later than the target, so that the
insertion (`Listed`) is at the place `InsertPoint` names. `Chain`, which follows the links,
is shown to be the list that they form (`ChainFacts`). `KernelInv` of the snapshot
gives what the code relies on: the queue holds its target at most once, and a
READY target is in no list.

The history variable `outside` restricts nothing: it is assigned in each step and no
guard reads it.

`MkQueue_proofs` proves of rings of any length up to 65535 records:

- `RingTyped` and `RingAgrees`, by the inductive `Ring`. `IndicesAgree` carries the
  induction; what it needs besides is that a queue that is not initialised does
  not overwrite, since a push would go into a ring without slots.
- `RingIsQueue` (`Spec => ImplementsBoundedQueue`). `SlotOf(i)` is the slot of the i-th oldest
  record; each call moves these slots by one or leaves them alone, and the two
  sequences are compared element by element (`SameSeq`).
- `PeeksAgree`: the slot that a peek computes with `%` is `SlotOf` of that record.

`MkContext_proofs` proves `StacksRight` of `MkContext`: `StackAsAsked`, and that the
stacks do not overlap (`StacksDisjoint`), for any RAM and all sizes from 65 bytes to
what the rounding can represent (`SizesRepresentable`; `mem_min` shows what 64 does).
The inductive part is `AllocatedBelow`: what is given out next lies below
every stack.

It then proves `ContextsKept` and `StacksKept` (`ContextPreserved` and `LocalsPreserved`), for any
task code, switches at any alignment, as many tasks as one likes, and creations by `main` or by
a running task at any moment. `ContextInv` says of
each task that is not running that its registers lie at `stackPtr` in the order in which
they will be popped, with a padding word if and only if bit 9 of the saved xPSR says so
(`SavedAt`), and of each task that its stack pointer leaves room for one more
context above the bottom of its stack (`OwnerRight`). The room is there because every
stack has its frame and one word more (`RoomForPadding`): sizes of 65 bytes and more
give 72. As the stacks are disjoint, a store to one is not seen in another; a new stack
lies below all that were given out (`AllocatedBelow`), so neither its frame nor its zeroes
are written over a context or a word in use (`CreateTaskKeepsContext`). The
top of RAM is assumed to be a multiple of 8 bytes (`ContextAssumption`), as in
`STM32F446XX_FLASH.ld:56-64`. That a task stays within its own stack is the guard of
`Compute`: the kernel does not check it.

`Hal_proofs` proves, for any messages, any clock and any baud rate whose divider has 16 bits, any
pins in the ports looked at, and any USART but USART1, whose TX pin is that of the green LED
(PA9): `HalAssumption` rules it out.

- `OutputsStand` (`Spec => []OutputsAsWritten`) and `BytesArrive` (`Spec => []BytesInOrder`),
  both from `HalInv`, which `HalSafe` shows inductive.

`Typed` says of which accesses the rest of a call can consist: what `main` does before it
transmits (`MainConfigures`, through `USART_Init` and the functions of gpio.c and nvic.c) touches
neither ODR nor DR. `ClockRight` says that GPIOA has its clock once `main` has made its first access, and
that the read-modify-writes that follow do not take it away; without the clock the write to BSRR
would be lost. `LedRight` follows the pin of a LED through its toggle: between the read of
ODR and the write to BSRR nobody else changes that pin, as BSRR drives one pin and not the
port. `SerialRight` says that a byte is written to DR only right after a poll (`Paced`), and
that TXE and TC are set only while DR is empty. `TransmitIs` and `BytesOfTransmit` turn the flattened
sequence of `USART_Transmit` into its accesses one by one. `HalAssumption` is the contract of the
clients: the task that configures leaves ODR and the USART alone, and the pins of the LEDs are
not those of the USART (of the six, only USART1 has one of them).

It then proves, for any calls that `ClientAssumption` allows, in any number and order:

- `PinsConfigured` (`Spec => []ConfiguredAsAsked`), where every USART has its pins below 8
  (`LowPins`, as USART2, UART4 and USART6 have). Without that hypothesis the property
  fails, as `hal_af` shows; `PinsConfiguredButAF` says that nothing but AFRL and AFRH can
  then be wrong.
- `BaudRateKept` (`Spec => []BaudRateRight`), for all pins. `DividerNear` is the
  arithmetic: the fraction is rounded from hundredths and may carry, and the divider is
  off by at most one.

`ConfiguredAsAsked` speaks of the end of a call; the invariant has to speak of its middle.
`After(s, i, r, v)` is what the first `i` accesses of `s` make of a register `r` that
holds `v`: a bit is 1 when some access sets it and no later one clears it, or when it was
1 and none clears it. That is a definition with quantifiers, so that no induction is
needed. `Works(s, C, W)` says that `s` fulfils the wishes `W` and changes nothing else,
whatever the registers hold when the clocks `C` are on, that each of its accesses finds
its peripheral clocked, and that the check of the mode in `GPIO_Set_AF` finds the mode
set. It is proved for every function of gpio.c, rcc.c, nvic.c, exti.c and usart.c that
`Hal` calls, and for their sequence by `WorksConcat`, which asks that no wish of the
second is about a bit of one of the first (`PinsApart`: fields of two pins do not overlap;
`PeripheralsApart`).

The invariant is that of what is left to do. `WorkRight`: the accesses that are left find
their clocks, a loaded value is still that of its register, and in the end the ports have
a clock and BRR the divider. `AskedRight`: in the end every register is as asked. A step
of `main` or of the configuring task takes the first access off the rest and performs it,
so that the end stays the same (`ReadyTail`, `ConfiguringStep`); a step of any other
thread or of the USART touches none of these registers (`OthersApart`); a new call begins
from registers that are as asked, and `asked` changes by its wishes (`SetupKeeps`). TLC
checked both parts on the constants of `hal` before they were proved.

Only model-checked:

- Liveness, which is out of the prover's reach: `SleepersWake`,
  `EveryReadyTaskGetsItsTurn`, `CallsReturn`, `TransmitReturns`. Every other property of a
  passing run is a theorem.

## 5. What is not modelled

- The floating-point context; the vector table and the start-up code (its
  effect, zeroed memory, is `Init`).
- The set-up of the timer and of the priorities in `mk_port_start`; `MkContext` begins
  after it.
- A NULL task from an unknown ID, or a NULL `_mk_currentTask`: what a write there
  does is the memory map's business.
- A second `mk_startKernel`, and kernel calls from an application's interrupts.
- A wait that names a sleeping or a stopped task: it puts the task into the list
  twice, or links the two lists. In `MkCalls` with WAITING among the
  `TargetStates`, `CallsReturn` fails: the walk goes round for ever.
- `mk_createTask` interrupted in the middle: a creation is one step, also when a running
  task makes it. Nobody else looks below `allocated` or at a slot that is being filled, so
  that one creation at a time may be interrupted; of two at once the second would get the
  first one's stack.
- The contents of records; a queue of no records, which `q_init` does not refuse.
- A tick rate above 1000 Hz makes `MK_SCHED_MS_PER_TICK` 0 and stops the slices;
  `KernelAssumption` excludes it.
- `I2C_Init`: it programs one peripheral with hard-coded values, and nothing
  transfers. The SysTick driver: a second owner of the kernel's timer, whose
  counter nobody increments. `GPIO_Read` and `read_byte` change nothing; `USART_Receive`
  is empty.
- Two tasks that transmit on one USART or configure pins of one port: nothing says
  they may, and without a lock they lose bytes or fields.
- `NVIC_EnableIRQ`'s effect, an interrupt: no demo has a handler.

## 6. Plan

Done: `MkKernel` with its refinement, invariant and proofs; `MkTimed`, `MkQueue`, `MkMem`,
`MkCalls` (the links, and the exceptions between the steps of a call), `MkContext` and
`Hal`; the proofs of every safety property that a passing run checks.

What would come next needs an answer from the code first: whether two tasks may configure or
transmit at once, what `mk_stopTask` should do to a sleeping task, and how `mk_waitTask`
should keep the timer off. Each would be a guard or an action of a module that is there.
