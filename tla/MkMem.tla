-------------------------------- MODULE MkMem --------------------------------
(***************************************************************************)
(* Stack allocation (mk_mem.c): the stacks of the kernel, of the idle task *)
(* and of the tasks are cut from the top of RAM downwards and never given  *)
(* back.  Addresses count 32-bit words; what is written into a frame is    *)
(* in MkContext, here is only where it is.                                 *)
(***************************************************************************)
EXTENDS Integers, Sequences

CONSTANTS
    RamWords,           \* words of RAM, so also the initial stack pointer
    KernelStackSize,    \* MK_CONFIG_KERNEL_STACK_SIZE (bytes)
    SizeMod,            \* size_t wraps at 2^32
    MaxTasks,           \* MK_CONFIG_MAX_TASKS
    Sizes               \* the stack sizes the clients ask for (bytes)

ASSUME MemAssumption ==
    /\ RamWords \in Nat /\ KernelStackSize \in Nat /\ MaxTasks \in Nat \ {0}
    /\ SizeMod \in Nat \ {0} /\ SizeMod % 8 = 0
    /\ Sizes \subseteq 0..(SizeMod - 1)

FrameWords == 17     \* xPSR .. R0 saved by hardware, LR and R4-R11 by PendSV
FrameBytes == 68
IdleWords  == 64     \* the rest of the idle task's stack

VARIABLES
    allocated,       \* the lowest address given out (0 before mk_mem_init)
    stacks           \* of the tasks created, in order

memVars == <<allocated, stacks>>

Init == allocated = 0 /\ stacks = <<>>

\* (size + 7U) & ~7U
Bug_NotAligned(bytes) == bytes
Align8(bytes) == (((bytes + 7) % SizeMod) \div 8) * 8

\* The words below the frame: the loop bound of line 109, in unsigned
\* arithmetic.
Fill(size) == ((Align8(size) - FrameBytes) % SizeMod) \div 4

\* mk_mem_init, which a second mk_initKernel repeats (and mk_task_init drops
\* the tasks).  The BKPT when the kernel stack is too deep already stops the
\* CPU and is left out.
mk_mem_init ==
    /\ allocated' =
         RamWords - (Align8(KernelStackSize) \div 4) - FrameWords - IdleWords
    /\ stacks' = <<>>

\* mk_createTask's check of the size, and mk_mem_initTaskStackFrame.
Bug_AllocatedBeforeFill(size) ==
    LET sp == allocated - FrameWords
    IN  /\ allocated # 0 /\ size >= 64 /\ Len(stacks) < MaxTasks
        /\ stacks' = Append(stacks, [high |-> allocated, sp |-> sp,
                                     low |-> sp - Fill(size), asked |-> size])
        /\ allocated' = sp

mk_mem_initTaskStackFrame(size) ==
    LET sp  == allocated - FrameWords
        low == sp - Fill(size)
    IN  /\ allocated # 0 /\ size >= 64 /\ Len(stacks) < MaxTasks
        /\ stacks' = Append(stacks, [high |-> allocated, sp |-> sp,
                                     low |-> low, asked |-> size])
        /\ allocated' = low

Next == mk_mem_init \/ \E size \in Sizes : mk_mem_initTaskStackFrame(size)

Spec == Init /\ [][Next]_memVars

-----------------------------------------------------------------------------
\* A task gets the stack it asked for, rounded up to 8 bytes, and its initial
\* frame lies inside: whatever the size and whatever was allocated before
\* (microkernel.h:33: "size of the task's stack in bytes, minimum 64 bytes").
StackAsAsked ==
    \A i \in DOMAIN stacks :
        LET s == stacks[i]  bytes == 4 * (s.high - s.low)
        IN  s.asked <= bytes /\ bytes < s.asked + 8 /\ s.low <= s.sp
=============================================================================
