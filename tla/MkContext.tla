------------------------------ MODULE MkContext ------------------------------
(***************************************************************************)
(* The registers of the tasks: the initial frames that mk_mem.c writes,    *)
(* mk_port_startFirstTask and PendSV_Handler of port.c, word by word, on   *)
(* the stacks of MkMem.  Task i owns stacks[i]; 0 is the idle task, which  *)
(* only loops.  Which task mk_sched_getNextTask picks is MkKernel's        *)
(* business and left open.                                                 *)
(*                                                                         *)
(* An exception stacks eight registers on PSP, after a padding word when   *)
(* PSP is not a multiple of 8 bytes, which it notes in bit 9 of the stacked *)
(* xPSR (STKALIGN); the return undoes that.  Exceptions that return to the *)
(* same task change nothing that the task can see and are left out.        *)
(***************************************************************************)
EXTENDS MkMem

CONSTANT Locals     \* how many words of its stack a task may have in use

\* RAM ends at a multiple of 8 bytes (STM32F446XX_FLASH.ld:56-64).
ASSUME ContextAssumption == Locals \subseteq Nat /\ RamWords % 2 = 0

Idle   == 0
Nobody == -1

\* From low to high addresses.  "exc" is r14 in the handler, EXC_RETURN.
Soft == <<"r4", "r5", "r6", "r7", "r8", "r9", "r10", "r11", "exc">>
Hard == <<"r0", "r1", "r2", "r3", "r12", "lr", "pc", "xpsr">>
Reg  == {Soft[i] : i \in 1..9} \cup {Hard[i] : i \in 1..8}

\* The words below a stack pointer that saving a context takes: 17, or 18.
ContextWords(sp) == FrameWords + (sp % 2)

VARIABLES
    memory,        \* the words written to stacks
    stackPtr,      \* TCB: stackPtr
    current,       \* _mk_currentTask
    regs, psp,     \* of the CPU
    own            \* history: what each task last knew its registers and
                   \* its stack to be

contextVars == <<memVars, memory, stackPtr, current, regs, psp, own>>

\* A word is its owner, what it is, a version, and its bit 9.
Zero      == <<Nobody, "0", 0, 0>>
Thumb     == <<Nobody, "0x01000000", 0, 0>>
ExcReturn == <<Nobody, "0xFFFFFFFD", 0, 0>>

\* The registers a task is to start with: its argument in r0.
Fresh(t) ==
    [r \in Reg |-> IF r = "xpsr" THEN Thumb
                   ELSE IF r = "exc" THEN ExcReturn
                   ELSE IF r \in {"pc", "r0"} THEN <<t, r, 0, 0>>
                   ELSE Zero]

\* What a function says after some of its values, new, are written.
Over(new, old) ==
    LET written == DOMAIN new
    IN  [a \in written \cup DOMAIN old |-> IF a \in written THEN new[a] ELSE old[a]]

Only(t, value) == [u \in {t} |-> value]

\* Words from address sp on hold these registers, or are read into them.
StoreAt(sp, names, value) ==
    [a \in sp..(sp + Len(names) - 1) |-> value[names[a - sp + 1]]]

ReadFrom(m, a) == IF a \in DOMAIN m THEN m[a] ELSE Zero

Position(names, r) == CHOOSE i \in DOMAIN names : names[i] = r

\* xPSR as stacked: with the bit that says whether there is padding above.
Stacked(value, pad) == [value EXCEPT !["xpsr"] = [@ EXCEPT ![4] = pad]]

\* The initial frame of lines 83-102 (36-55 for the idle task), and zeroes
\* below it.
InitialStack(t, high, low) ==
    LET sp == high - FrameWords
    IN  Over(StoreAt(sp, Soft \o Hard, Stacked(Fresh(t), 0)),
             [a \in low..(sp - 1) |-> Zero])

NewOwner(t, high) == [regs |-> Fresh(t), psp |-> high, top |-> high,
                      words |-> <<>>, version |-> 0]

IdleTop == RamWords - Align8(KernelStackSize) \div 4

ContextInit ==
    /\ Init
    /\ memory = <<>> /\ stackPtr = <<>> /\ own = <<>>
    /\ current = Nobody
    /\ regs = Fresh(Nobody) /\ psp = 0

-----------------------------------------------------------------------------
InitKernel ==
    /\ current = Nobody
    /\ mk_mem_init
    /\ memory' = InitialStack(Idle, IdleTop, allocated')
    /\ stackPtr' = Only(Idle, IdleTop - FrameWords)
    /\ own' = Only(Idle, NewOwner(Idle, IdleTop))
    /\ UNCHANGED <<current, regs, psp>>

\* mk_createTask, which main or a running task may call (the idle task calls
\* nothing): the frame and the zeroes are written over whatever is there.  What
\* the call does to the caller's own registers and stack is Compute's.
CreateTask(size) ==
    /\ current # Idle
    /\ mk_mem_initTaskStackFrame(size)
    /\ LET t == Len(stacks')  s == stacks'[t]
       IN  /\ memory' = Over(InitialStack(t, s.high, s.low), memory)
           /\ stackPtr' = Over(Only(t, s.sp), stackPtr)
           /\ own' = Over(Only(t, NewOwner(t, s.high)), own)
    /\ UNCHANGED <<current, regs, psp>>

\* mk_port_startFirstTask pops all of the frame but EXC_RETURN, which it skips,
\* and xPSR, which it leaves on the stack.
mk_port_startFirstTask(t) ==
    /\ current = Nobody /\ t \in DOMAIN stackPtr
    /\ current' = t
    /\ regs' = [r \in Reg |->
          IF r \in {"xpsr", "exc"} THEN regs[r]
          ELSE ReadFrom(memory, stackPtr[t] - 1 + Position(Soft \o Hard, r))]
    /\ psp' = stackPtr[t] + 16
    /\ own' = [own EXCEPT ![t].psp = psp', ![t].top = psp']
    /\ UNCHANGED <<memVars, memory, stackPtr>>

\* The task computes: every register changes, and it has n words of its stack
\* in use, those it keeps unchanged and the new ones written.  It leaves room
\* for its context.
Compute(n) ==
    LET me  == own[current]
        v   == 1 - me.version
        sp  == me.top - n
        new == [a \in sp..(psp - 1) |-> <<current, "local", v, 0>>]
    IN  /\ current \notin {Nobody, Idle}
        /\ sp - ContextWords(sp) >= stacks[current].low
        /\ regs' = [r \in Reg |-> IF r = "exc" THEN ExcReturn ELSE <<current, r, v, 0>>]
        /\ psp' = sp
        /\ memory' = Over(new, memory)
        /\ own' = [own EXCEPT ![current] =
              [regs |-> regs', psp |-> sp, top |-> me.top, version |-> v,
               words |-> [a \in sp..(me.top - 1) |->
                            IF a < psp THEN new[a] ELSE me.words[a]]]]
        /\ UNCHANGED <<memVars, stackPtr, current>>

\* stmdb r0!, {r4-r11, r14}: without r14 the frame is a word shorter.
Bug_LinkNotSaved == <<"r4", "r5", "r6", "r7", "r8", "r9", "r10", "r11">>
SavedBySoftware == Soft

\* The hardware stacks, PendSV_Handler saves and takes the stack pointer of
\* the next task from its TCB, restores, and the hardware unstacks.
PendSV_Handler(next) ==
    LET pad   == psp % 2
        entry == psp - pad - Len(Hard)
        sp    == entry - Len(SavedBySoftware)
        frame == StoreAt(sp, SavedBySoftware \o Hard, Stacked(regs, pad))
        saved == Over(frame, memory)
        from  == IF next = current THEN sp ELSE stackPtr[next]
        Word(r) == ReadFrom(saved, from - 1 + Position(Soft \o Hard, r))
    IN  /\ current # Nobody /\ next \in DOMAIN stackPtr
        /\ memory' = saved
        /\ stackPtr' = [stackPtr EXCEPT ![current] = sp]
        /\ current' = next
        /\ regs' = [r \in Reg |->
                      IF r = "xpsr" THEN [Word(r) EXCEPT ![4] = 0] ELSE Word(r)]
        /\ psp' = from + FrameWords + Word("xpsr")[4]
        /\ UNCHANGED <<memVars, own>>

ContextNext ==
    \/ InitKernel
    \/ \E size \in Sizes : CreateTask(size)
    \/ \E t \in 0..MaxTasks : mk_port_startFirstTask(t) \/ PendSV_Handler(t)
    \/ \E n \in Locals : Compute(n)

ContextSpec == ContextInit /\ [][ContextNext]_contextVars

-----------------------------------------------------------------------------
\* A task never notices that it was switched away from: whenever it runs it
\* has the registers and the stack pointer that it left, at first those of its
\* initial frame, whatever PendSV and the other tasks did, at any alignment,
\* and whichever stacks they created meanwhile.
ContextPreserved ==
    current # Nobody => regs = own[current].regs /\ psp = own[current].psp

\* Nor do its words on the stack change, for the running task or another: no
\* context is saved over them, and no stack created while they are in use is
\* filled over them.
LocalsPreserved ==
    \A t \in DOMAIN own : \A a \in DOMAIN own[t].words :
        memory[a] = own[t].words[a]
=============================================================================
