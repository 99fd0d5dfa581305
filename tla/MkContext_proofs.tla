--------------------------- MODULE MkContext_proofs ---------------------------
(***************************************************************************)
(* Stacks are as large as asked and disjoint, for every RAM and every      *)
(* choice of sizes between 65 and what the rounding can represent (64, the *)
(* documented minimum, is what the run mem_min refutes); and so a task     *)
(* gets back the registers and finds the stack that it left.               *)
(***************************************************************************)
EXTENDS MkContext, SequenceTheorems, TLAPS

\* What the theorems ask of the clients.
SizesRepresentable == Sizes \subseteq 65..(SizeMod - 8)

\* A remainder of what is smaller than the modulus is that.
LEMMA SmallRemainder ==
    ASSUME NEW m \in Nat \ {0}, NEW x \in 0..(m - 1)
    PROVE  x % m = x
BY SMT

\* Rounding up to a multiple of 8.
LEMMA RoundedUp ==
    ASSUME NEW x \in Nat
    PROVE  LET r == ((x + 7) \div 8) * 8
           IN  r \in Nat /\ x <= r /\ r <= x + 7 /\ r % 8 = 0
BY SMT

\* A size is rounded up to 8 bytes (mk_mem.c:79).
LEMMA AlignFacts ==
    ASSUME NEW size \in 65..(SizeMod - 8), SizeMod \in Nat
    PROVE  /\ Align8(size) \in 72..(SizeMod - 1)
           /\ size <= Align8(size) /\ Align8(size) <= size + 7
           /\ Align8(size) % 8 = 0
<1>1. size \in Nat /\ SizeMod \in Nat \ {0} /\ size + 7 \in 0..(SizeMod - 1)
  OBVIOUS
<1>2. (size + 7) % SizeMod = size + 7
  BY <1>1, SmallRemainder
<1>3. Align8(size) = ((size + 7) \div 8) * 8
  BY <1>2 DEF Align8
<1> QED
  BY <1>1, <1>3, RoundedUp

\* So that the loop of mk_mem.c:109 fills what is left below the frame.
LEMMA FillFacts ==
    ASSUME NEW size \in 65..(SizeMod - 8), SizeMod \in Nat
    PROVE  /\ Fill(size) \in Nat
           /\ 4 * (Fill(size) + FrameWords) = Align8(size)
<1>1. /\ Align8(size) \in 72..(SizeMod - 1)
      /\ Align8(size) % 8 = 0
  BY AlignFacts
<1>2. Align8(size) - FrameBytes \in 0..(SizeMod - 1) /\ SizeMod \in Nat \ {0}
  BY <1>1 DEF FrameBytes
<1>3. (Align8(size) - FrameBytes) % SizeMod = Align8(size) - FrameBytes
  BY <1>2, SmallRemainder
<1>4. Fill(size) = (Align8(size) - 68) \div 4
  BY <1>3 DEF Fill, FrameBytes
<1> QED
  BY <1>1, <1>4 DEF FrameWords

Stack == [high : Int, sp : Int, low : Int, asked : Int]

MemTypeOK == allocated \in Int /\ stacks \in Seq(Stack)

\* A later stack begins where an earlier one ends, or below: no two tasks
\* share a word (mk_mem.c:62-116).
StacksDisjoint ==
    \A i, j \in DOMAIN stacks : i < j => stacks[j].high <= stacks[i].low

\* The next stack begins at or below the end of each.
AllocatedBelow ==
    \A i \in DOMAIN stacks : allocated <= stacks[i].low

MemInv == MemTypeOK /\ StackAsAsked /\ StacksDisjoint /\ AllocatedBelow

LEMMA InitKernelKeepsMem ==
    ASSUME MemAssumption, mk_mem_init
    PROVE  MemInv'
<1>1. Align8(KernelStackSize) \div 4 \in Int
  <2>1. (KernelStackSize + 7) % SizeMod \in Int
    BY SMT DEF MemAssumption
  <2> QED
    BY <2>1 DEF Align8
<1>2. allocated' \in Int
  BY <1>1 DEF mk_mem_init, MemAssumption, FrameWords, IdleWords
<1> QED
  BY <1>2 DEF mk_mem_init, MemInv, MemTypeOK, StackAsAsked, StacksDisjoint,
              AllocatedBelow

LEMMA CreateKeepsMem ==
    ASSUME MemAssumption, SizesRepresentable, MemInv,
           NEW size \in Sizes, mk_mem_initTaskStackFrame(size)
    PROVE  MemInv'
<1> DEFINE sp  == allocated - FrameWords
           low == sp - Fill(size)
           new == [high |-> allocated, sp |-> sp, low |-> low, asked |-> size]
           n   == Len(stacks) + 1
<1>1. size \in 65..(SizeMod - 8) /\ size \in Int /\ SizeMod \in Nat
  BY DEF SizesRepresentable, MemAssumption
<1>2. Fill(size) \in Nat /\ 4 * (Fill(size) + FrameWords) = Align8(size)
  BY <1>1, FillFacts
<1>3. Align8(size) \in Int /\ size <= Align8(size) /\ Align8(size) <= size + 7
  BY <1>1, AlignFacts
<1>4. stacks' = Append(stacks, new) /\ allocated' = low
  BY DEF mk_mem_initTaskStackFrame
<1>5. allocated \in Int /\ sp \in Int /\ low \in Int /\ new \in Stack
  BY <1>1, <1>2 DEF MemInv, MemTypeOK, FrameWords, Stack
<1>6. stacks \in Seq(Stack) /\ MemTypeOK'
  BY <1>4, <1>5 DEF MemInv, MemTypeOK
<1>7. /\ DOMAIN stacks = 1..Len(stacks) /\ Len(stacks) \in Nat
      /\ DOMAIN stacks' = 1..n
      /\ \A i \in 1..Len(stacks) : stacks'[i] = stacks[i] /\ stacks[i] \in Stack
      /\ stacks'[n] = new
  BY <1>4, <1>5, <1>6
<1> HIDE DEF new
<1>8. /\ new.high = allocated /\ new.sp = sp /\ new.low = low /\ new.asked = size
  BY DEF new
<1>9. low <= sp /\ low <= allocated
  BY <1>2, <1>5 DEF FrameWords
<1>10. StackAsAsked'
  <2>1. new.asked <= 4 * (new.high - new.low)
        /\ 4 * (new.high - new.low) < new.asked + 8
    BY <1>1, <1>2, <1>3, <1>5, <1>8 DEF FrameWords
  <2> QED
    BY <2>1, <1>7, <1>8, <1>9 DEF MemInv, StackAsAsked
<1>11. AllocatedBelow'
  BY <1>4, <1>5, <1>7, <1>8, <1>9 DEF MemInv, AllocatedBelow, Stack
<1>12. StacksDisjoint'
  BY <1>7, <1>8 DEF MemInv, StacksDisjoint, AllocatedBelow
<1> QED
  BY <1>6, <1>10, <1>11, <1>12 DEF MemInv

LEMMA ContextStepKeepsMem ==
    ASSUME MemAssumption, SizesRepresentable, MemInv, [ContextNext]_contextVars
    PROVE  MemInv'
<1>1. CASE UNCHANGED memVars
  BY <1>1 DEF memVars, MemInv, MemTypeOK, StackAsAsked, StacksDisjoint,
              AllocatedBelow
<1>2. CASE InitKernel
  BY <1>2, InitKernelKeepsMem DEF InitKernel
<1>3. CASE \E size \in Sizes : CreateTask(size)
  BY <1>3, CreateKeepsMem DEF CreateTask
<1>4. ASSUME NEW t \in 0..MaxTasks, mk_port_startFirstTask(t) \/ PendSV_Handler(t)
      PROVE  UNCHANGED memVars
  BY <1>4 DEF mk_port_startFirstTask, PendSV_Handler
<1>5. ASSUME NEW n \in Locals, Compute(n)
      PROVE  UNCHANGED memVars
  BY <1>5 DEF Compute
<1> QED
  BY <1>1, <1>2, <1>3, <1>4, <1>5 DEF ContextNext, contextVars

\* A task gets the stack it asked for, its frame lies inside, and no other
\* stack overlaps it, whatever the tasks do meanwhile (mk_mem.c:62-116), when
\* every size is at least 65 bytes.
THEOREM StacksRight ==
    ASSUME SizesRepresentable
    PROVE  ContextSpec => []StackAsAsked /\ []StacksDisjoint
<1>1. ContextInit => MemInv
  BY DEF ContextInit, Init, MemInv, MemTypeOK, StackAsAsked, StacksDisjoint,
         AllocatedBelow
<1>2. MemInv /\ [ContextNext]_contextVars => MemInv'
  BY MemAssumption, ContextStepKeepsMem
<1>3. MemInv => StackAsAsked /\ StacksDisjoint
  BY DEF MemInv
<1> QED
  BY <1>1, <1>2, <1>3, PTL DEF ContextSpec
-----------------------------------------------------------------------------
(* The stack of each task and the idle task, and the context saved on it.  *)

Created == DOMAIN own

IdleBottom == IdleTop - FrameWords - IdleWords

High(t) == IF t = Idle THEN IdleTop    ELSE stacks[t].high
Low(t)  == IF t = Idle THEN IdleBottom ELSE stacks[t].low

\* There is a task for each stack, and the idle task, from mk_initKernel on.
CreatedRight ==
    /\ DOMAIN stackPtr = Created
    /\ Created = {} \/ Created = 0..Len(stacks)
    /\ Created = {} => allocated = 0 /\ stacks = <<>>
    /\ current = Nobody \/ current \in Created

\* A stack has room for a frame and a padding word.  Every one ends one word
\* after a multiple of 8 bytes: the idle task took 81 words.
RoomForPadding ==
    /\ Created # {} => allocated <= IdleBottom /\ allocated % 2 = 1
    /\ \A i \in DOMAIN stacks :
          /\ stacks[i].high <= IdleBottom /\ stacks[i].high % 2 = 1
          /\ stacks[i].high - stacks[i].low >= FrameWords + 1
          /\ stacks[i].sp = stacks[i].high - FrameWords

\* What a task knows of itself, and that there is room to save it.
OwnerRight(t) ==
    /\ own[t] = [regs |-> own[t].regs, psp |-> own[t].psp, top |-> own[t].top,
                 words |-> own[t].words, version |-> own[t].version]
    /\ own[t].regs = [r \in Reg |-> own[t].regs[r]]
    /\ \E o, s, v : own[t].regs["xpsr"] = <<o, s, v, 0>>
    /\ own[t].psp \in Int /\ own[t].top \in Int
    /\ own[t].psp <= own[t].top /\ own[t].top <= High(t)
    /\ own[t].psp - ContextWords(own[t].psp) >= Low(t)
    /\ DOMAIN own[t].words = own[t].psp..(own[t].top - 1)

\* The words of a context with these values lie in m, from sp on.
FrameAt(m, sp, value) ==
    \A i \in 1..FrameWords :
        sp - 1 + i \in DOMAIN m /\ m[sp - 1 + i] = value[(Soft \o Hard)[i]]

\* A task that is not running has its registers on its stack, at the stack
\* pointer in its TCB, under a padding word or not.
SavedAt(t, pad) ==
    /\ stackPtr[t] \in Int /\ stackPtr[t] >= Low(t)
    /\ own[t].psp = stackPtr[t] + FrameWords + pad
    /\ FrameAt(memory, stackPtr[t], Stacked(own[t].regs, pad))

Saved(t) == t = current \/ \E pad \in {0, 1} : SavedAt(t, pad)

\* No word that a task uses is lost.
LocalsKept(t) ==
    \A a \in DOMAIN own[t].words : a \in DOMAIN memory /\ memory[a] = own[t].words[a]

\* Before the start every context is the initial frame.
NotStarted ==
    current = Nobody =>
        /\ regs = Fresh(Nobody)
        /\ \A t \in Created :
              /\ own[t].regs = Fresh(t) /\ own[t].psp = High(t)
              /\ own[t].top = High(t) /\ stackPtr[t] = High(t) - FrameWords

ContextInv ==
    /\ CreatedRight /\ RoomForPadding /\ NotStarted /\ ContextPreserved
    /\ \A t \in Created : OwnerRight(t) /\ Saved(t) /\ LocalsKept(t)

\* The names of a context's words are the registers.
LEMMA PositionFacts ==
    /\ Len(Soft \o Hard) = FrameWords /\ Len(Soft) = 9 /\ Len(Hard) = 8
    /\ \A i \in 1..FrameWords : (Soft \o Hard)[i] \in Reg
    /\ \A r \in Reg : /\ Position(Soft \o Hard, r) \in 1..FrameWords
                      /\ (Soft \o Hard)[Position(Soft \o Hard, r)] = r
<1> DEFINE Names == {"r4", "r5", "r6", "r7", "r8", "r9", "r10", "r11", "exc",
                     "r0", "r1", "r2", "r3", "r12", "lr", "pc", "xpsr"}
           both == Soft \o Hard
<1>1. Soft \in Seq(Names) /\ Hard \in Seq(Names) /\ Len(Soft) = 9 /\ Len(Hard) = 8
  BY DEF Soft, Hard
<1> HIDE DEF Names
<1>2. /\ Len(both) = 17 /\ DOMAIN both = 1..17
      /\ \A i \in 1..9 : both[i] = Soft[i]
      /\ \A i \in 1..8 : both[i + 9] = Hard[i]
  <2>1. /\ both \in Seq(Names) /\ Len(both) = 9 + 8
        /\ \A i \in 1..(9 + 8) :
              both[i] = IF i <= 9 THEN Soft[i] ELSE Hard[i - 9]
    <3>1. /\ both \in Seq(Names) /\ Len(both) = Len(Soft) + Len(Hard)
          /\ \A i \in 1..(Len(Soft) + Len(Hard)) :
                both[i] = IF i <= Len(Soft) THEN Soft[i] ELSE Hard[i - Len(Soft)]
      BY <1>1, ConcatProperties
    <3> HIDE DEF both
    <3> QED BY <1>1, <3>1
  <2> HIDE DEF both
  <2>2. ASSUME NEW i \in 1..8 PROVE both[i + 9] = Hard[i]
    <3>1. i + 9 \in 1..(9 + 8) /\ ~(i + 9 <= 9) /\ (i + 9) - 9 = i
      OBVIOUS
    <3> QED BY <2>1, <3>1
  <2> QED BY <2>1, <2>2
<1> HIDE DEF both
<1>3. ASSUME NEW i \in 1..17 PROVE both[i] \in Reg
  <2>1. CASE i \in 1..9
    BY <1>2, <2>1 DEF Reg
  <2>2. CASE i \notin 1..9
    <3>1. i - 9 \in 1..8 /\ both[i] = Hard[i - 9]
      <4>1. i - 9 \in 1..8 /\ (i - 9) + 9 = i
        BY <2>2
      <4> QED BY <1>2, <4>1
    <3> QED BY <3>1 DEF Reg
  <2> QED BY <2>1, <2>2
<1>4. ASSUME NEW r \in Reg
      PROVE  Position(both, r) \in 1..17 /\ both[Position(both, r)] = r
  <2>1. \E i \in 1..17 : both[i] = r
    <3>1. CASE \E i \in 1..9 : r = Soft[i]
      BY <1>2, <3>1
    <3>2. CASE \E i \in 1..8 : r = Hard[i]
      <4>1. PICK i \in 1..8 : r = Hard[i]
        BY <3>2
      <4>2. i + 9 \in 1..17 /\ both[i + 9] = r
        BY <1>2, <4>1
      <4> QED BY <4>2
    <3> QED BY <3>1, <3>2 DEF Reg
  <2>2. \E i \in DOMAIN both : both[i] = r
    BY <1>2, <2>1
  <2>3. /\ Position(both, r) \in DOMAIN both
        /\ both[Position(both, r)] = r
    BY <2>2 DEF Position
  <2> QED BY <1>2, <2>3
<1> QED BY <1>1, <1>2, <1>3, <1>4 DEF both, FrameWords

\* Where the words of a context come to lie.
LEMMA StoredFacts ==
    ASSUME NEW sp \in Int, NEW value
    PROVE  LET frame == StoreAt(sp, Soft \o Hard, value)
           IN  /\ DOMAIN frame = sp..(sp + FrameWords - 1)
               /\ FrameAt(frame, sp, value)
<1> DEFINE both == Soft \o Hard
           frame == StoreAt(sp, both, value)
<1>1. Len(both) = 17
  BY PositionFacts DEF FrameWords
<1> HIDE DEF both
<1>2. frame = [a \in sp..(sp + 16) |-> value[both[a - sp + 1]]]
  BY <1>1 DEF StoreAt
<1>3. ASSUME NEW i \in 1..17
      PROVE  sp - 1 + i \in sp..(sp + 16) /\ frame[sp - 1 + i] = value[both[i]]
  <2>1. sp - 1 + i \in sp..(sp + 16) /\ (sp - 1 + i) - sp + 1 = i
    OBVIOUS
  <2> QED BY <1>2, <2>1
<1>4. DOMAIN frame = sp..(sp + FrameWords - 1)
  BY <1>2 DEF FrameWords
<1>5. FrameWords = 17
  BY DEF FrameWords
<1> QED BY <1>2, <1>3, <1>4, <1>5 DEF both, FrameAt

\* A word written over others, and the others.
LEMMA OverFacts ==
    ASSUME NEW new, NEW old
    PROVE  /\ DOMAIN Over(new, old) = DOMAIN new \cup DOMAIN old
           /\ \A a \in DOMAIN new : Over(new, old)[a] = new[a]
           /\ \A a \in DOMAIN old \ DOMAIN new : Over(new, old)[a] = old[a]
BY DEF Over

\* What the exception return makes of the stacked xPSR.
LEMMA BitRestored ==
    ASSUME NEW o, NEW s, NEW v, NEW pad
    PROVE  LET w == [<<o, s, v, 0>> EXCEPT ![4] = pad]
           IN  w[4] = pad /\ [w EXCEPT ![4] = 0] = <<o, s, v, 0>>
OBVIOUS

LEMMA StackedFacts ==
    ASSUME NEW value, value = [r \in Reg |-> value[r]], NEW pad,
           \E o, s, v : value["xpsr"] = <<o, s, v, 0>>
    PROVE  LET w == Stacked(value, pad)
           IN  /\ w["xpsr"][4] = pad
               /\ value = [r \in Reg |->
                             IF r = "xpsr" THEN [w[r] EXCEPT ![4] = 0] ELSE w[r]]
<1> DEFINE w == Stacked(value, pad)
<1>1. PICK o, s, v : value["xpsr"] = <<o, s, v, 0>>
  OBVIOUS
<1>2. "xpsr" \in Reg
  <2>1. 8 \in 1..8 /\ Hard[8] = "xpsr"
    BY DEF Hard
  <2> QED BY <2>1 DEF Reg
<1>3. /\ w["xpsr"] = [<<o, s, v, 0>> EXCEPT ![4] = pad]
      /\ \A r \in Reg : r # "xpsr" => w[r] = value[r]
  BY <1>1, <1>2 DEF Stacked
<1>4. w["xpsr"][4] = pad /\ [w["xpsr"] EXCEPT ![4] = 0] = value["xpsr"]
  BY <1>1, <1>3, BitRestored
<1> HIDE DEF w
<1> QED BY <1>3, <1>4 DEF w
-----------------------------------------------------------------------------
\* The idle task's stack ends at an even word.
LEMMA IdleFacts ==
    /\ IdleTop \in Int /\ IdleTop % 2 = 0
    /\ IdleBottom \in Int /\ IdleBottom = IdleTop - 81
<1>1. (KernelStackSize + 7) % SizeMod \in Int
  BY MemAssumption, SMT
<1> DEFINE x == (KernelStackSize + 7) % SizeMod
<1>2. Align8(KernelStackSize) = (x \div 8) * 8
  BY DEF Align8
<1> HIDE DEF x
<1>3. (x \div 8) \in Int /\ ((x \div 8) * 8) \div 4 = 2 * (x \div 8)
  BY <1>1 DEF x
<1>4. RamWords \in Int /\ RamWords % 2 = 0
  BY MemAssumption, ContextAssumption
<1>5. IdleTop = RamWords - 2 * (x \div 8)
  BY <1>2, <1>3 DEF IdleTop
<1> QED BY <1>3, <1>4, <1>5 DEF IdleBottom, FrameWords, IdleWords

\* Where each stack lies, and that there is room for a context at its end.
LEMMA StackFacts ==
    ASSUME MemInv, CreatedRight, RoomForPadding, NEW t \in Created
    PROVE  /\ High(t) \in Int /\ Low(t) \in Int
           /\ High(t) - ContextWords(High(t)) >= Low(t)
           /\ High(t) - 1 - ContextWords(High(t) - 1) >= Low(t)
           /\ High(t) - FrameWords >= Low(t)
           /\ t # Idle => High(t) <= IdleBottom /\ t \in 1..Len(stacks)
<1>1. CASE t = Idle
  BY <1>1, IdleFacts DEF High, Low, ContextWords, FrameWords
<1>2. CASE t # Idle
  <2>1. Created = 0..Len(stacks) /\ stacks \in Seq(Stack)
    BY DEF CreatedRight, MemInv, MemTypeOK
  <2>2. t \in 1..Len(stacks) /\ t \in DOMAIN stacks
    BY <1>2, <2>1 DEF Idle
  <2>3. stacks[t] \in Stack
    BY <2>1, <2>2
  <2>4. /\ stacks[t].high \in Int /\ stacks[t].low \in Int
        /\ High(t) = stacks[t].high /\ Low(t) = stacks[t].low
    BY <1>2, <2>3 DEF Stack, High, Low
  <2>5. /\ stacks[t].high <= IdleBottom /\ stacks[t].high % 2 = 1
        /\ stacks[t].high - stacks[t].low >= 18
    BY <2>2 DEF RoomForPadding, FrameWords
  <2> QED BY <1>2, <2>2, <2>4, <2>5 DEF ContextWords, FrameWords
<1> QED BY <1>1, <1>2

\* No two stacks share a word.
LEMMA StacksApart ==
    ASSUME MemInv, CreatedRight, RoomForPadding,
           NEW t \in Created, NEW u \in Created, t # u
    PROVE  High(t) <= Low(u) \/ High(u) <= Low(t)
<1>1. CASE t = Idle \/ u = Idle
  BY <1>1, StackFacts DEF Low
<1>2. CASE t # Idle /\ u # Idle
  <2>1. t \in 1..Len(stacks) /\ u \in 1..Len(stacks)
    BY <1>2, StackFacts
  <2>2. stacks \in Seq(Stack)
    BY DEF MemInv, MemTypeOK
  <2>3. t < u \/ u < t
    BY <2>1
  <2> QED BY <1>2, <2>1, <2>2, <2>3 DEF MemInv, StacksDisjoint, High, Low
<1> QED BY <1>1, <1>2

\* What is written between lo and hi does not disturb a task whose stack lies
\* elsewhere.
LEMMA Undisturbed ==
    ASSUME NEW t, NEW lo \in Int, NEW hi \in Int, NEW new,
           OwnerRight(t), LocalsKept(t), Low(t) \in Int, High(t) \in Int,
           hi <= Low(t) \/ High(t) <= lo,
           DOMAIN new \subseteq lo..(hi - 1), memory' = Over(new, memory),
           own'[t] = own[t], stackPtr'[t] = stackPtr[t],
           Low(t)' = Low(t), High(t)' = High(t)
    PROVE  /\ OwnerRight(t)' /\ LocalsKept(t)'
           /\ \A pad \in {0, 1} : SavedAt(t, pad) => SavedAt(t, pad)'
<1>1. /\ own[t].psp \in Int /\ own[t].top \in Int
      /\ own[t].psp <= own[t].top /\ own[t].top <= High(t)
      /\ own[t].psp - ContextWords(own[t].psp) >= Low(t)
      /\ DOMAIN own[t].words = own[t].psp..(own[t].top - 1)
  BY DEF OwnerRight
<1>2. own[t].psp >= Low(t)
  BY <1>1 DEF ContextWords, FrameWords
<1>3. OwnerRight(t)'
  BY DEF OwnerRight
<1>4. ASSUME NEW a \in Low(t)..(High(t) - 1), a \in DOMAIN memory
      PROVE  a \in DOMAIN memory' /\ memory'[a] = memory[a]
  <2>1. a \notin DOMAIN new
    BY <1>4
  <2> QED BY <1>4, <2>1 DEF Over
<1>5. LocalsKept(t)'
  <2> SUFFICES ASSUME NEW a \in DOMAIN own[t].words
               PROVE  a \in DOMAIN memory' /\ memory'[a] = own[t].words[a]
    BY DEF LocalsKept
  <2>1. a \in Low(t)..(High(t) - 1)
    BY <1>1, <1>2
  <2>2. a \in DOMAIN memory /\ memory[a] = own[t].words[a]
    BY DEF LocalsKept
  <2> QED BY <1>4, <2>1, <2>2
<1>6. ASSUME NEW pad \in {0, 1}, SavedAt(t, pad) PROVE SavedAt(t, pad)'
  <2>1. /\ stackPtr[t] \in Int /\ stackPtr[t] >= Low(t)
        /\ own[t].psp = stackPtr[t] + FrameWords + pad
    BY <1>6 DEF SavedAt
  <2>2. ASSUME NEW i \in 1..FrameWords
        PROVE  /\ stackPtr[t] - 1 + i \in DOMAIN memory'
               /\ memory'[stackPtr[t] - 1 + i] =
                     Stacked(own[t].regs, pad)[(Soft \o Hard)[i]]
    <3>1. /\ stackPtr[t] - 1 + i \in DOMAIN memory
          /\ memory[stackPtr[t] - 1 + i] =
                Stacked(own[t].regs, pad)[(Soft \o Hard)[i]]
      BY <1>6 DEF SavedAt, FrameAt
    <3>2. i \in 1..17 /\ own[t].psp = stackPtr[t] + 17 + pad
      BY <2>1 DEF FrameWords
    <3>3. stackPtr[t] - 1 + i \in Low(t)..(High(t) - 1)
      BY <1>1, <1>6, <2>1, <3>2
    <3> QED BY <1>4, <3>1, <3>3
  <2>3. FrameAt(memory', stackPtr[t], Stacked(own[t].regs, pad))
    BY <2>2 DEF FrameAt
  <2> QED BY <2>1, <2>3 DEF SavedAt
<1> QED BY <1>3, <1>5, <1>6

\* The initial frame, and the zeroes below it, fill the stack.
LEMMA InitialStackFacts ==
    ASSUME NEW t, NEW high \in Int, NEW low \in Int, low <= high - FrameWords
    PROVE  LET new == InitialStack(t, high, low)  sp == high - FrameWords
           IN  /\ DOMAIN new = low..(high - 1)
               /\ FrameAt(new, sp, Stacked(Fresh(t), 0))
<1> DEFINE sp    == high - FrameWords
           value == Stacked(Fresh(t), 0)
           frame == StoreAt(sp, Soft \o Hard, value)
           zeros == [a \in low..(sp - 1) |-> Zero]
           new   == InitialStack(t, high, low)
<1>1. new = Over(frame, zeros)
  BY DEF InitialStack
<1>2. sp \in Int /\ sp = high - 17
  BY DEF FrameWords
<1> HIDE DEF sp, value
<1>3. /\ DOMAIN frame = sp..(sp + FrameWords - 1)
      /\ FrameAt(frame, sp, value)
  BY <1>2, StoredFacts
<1>4. DOMAIN zeros = low..(sp - 1)
  OBVIOUS
<1> HIDE DEF frame, zeros, new
<1>5. DOMAIN new = DOMAIN frame \cup DOMAIN zeros
      /\ \A a \in DOMAIN frame : new[a] = frame[a]
  BY <1>1 DEF Over
<1>6. low <= sp /\ sp + FrameWords - 1 = high - 1
  BY <1>2 DEF sp, FrameWords
<1>7. DOMAIN new = low..(high - 1)
  BY <1>2, <1>3, <1>4, <1>5, <1>6
<1>8. FrameAt(new, sp, value)
  BY <1>3, <1>5 DEF FrameAt
<1> QED BY <1>7, <1>8 DEF new, sp, value

\* A task just created.
LEMMA NewTaskFacts ==
    ASSUME NEW t, NEW high \in Int, High(t)' = high, Low(t)' \in Int,
           high - ContextWords(high) >= Low(t)', Low(t)' <= high - FrameWords,
           own'[t] = NewOwner(t, high), stackPtr'[t] = high - FrameWords,
           \A a \in DOMAIN InitialStack(t, high, Low(t)') :
              /\ a \in DOMAIN memory'
              /\ memory'[a] = InitialStack(t, high, Low(t)')[a]
    PROVE  OwnerRight(t)' /\ SavedAt(t, 0)' /\ LocalsKept(t)'
<1>1. /\ own'[t] = [regs |-> Fresh(t), psp |-> high, top |-> high,
                    words |-> <<>>, version |-> 0]
      /\ DOMAIN own'[t].words = {} /\ high..(high - 1) = {}
  BY DEF NewOwner
<1>2. \E o, s, v : Fresh(t)["xpsr"] = <<o, s, v, 0>>
  <2>1. 8 \in 1..8 /\ Hard[8] = "xpsr"
    BY DEF Hard
  <2>2. "xpsr" \in Reg
    BY <2>1 DEF Reg
  <2> QED BY <2>2 DEF Fresh, Thumb
<1>3. Fresh(t) = [r \in Reg |-> Fresh(t)[r]]
  BY DEF Fresh
<1>4. OwnerRight(t)'
  <2>1. /\ own'[t].regs = Fresh(t) /\ own'[t].psp = high /\ own'[t].top = high
        /\ own'[t] = [regs |-> own'[t].regs, psp |-> own'[t].psp,
                      top |-> own'[t].top, words |-> own'[t].words,
                      version |-> own'[t].version]
        /\ DOMAIN own'[t].words = high..(high - 1)
    BY <1>1
  <2>2. high <= high
    OBVIOUS
  <2> QED BY <1>2, <1>3, <2>1, <2>2, Zenon DEF OwnerRight
<1>5. LocalsKept(t)'
  BY <1>1 DEF LocalsKept
<1>6. SavedAt(t, 0)'
  <2>1. FrameAt(memory', high - FrameWords, Stacked(Fresh(t), 0))
    <3>1. FrameAt(InitialStack(t, high, Low(t)'), high - FrameWords,
                  Stacked(Fresh(t), 0))
      BY InitialStackFacts
    <3> QED BY <3>1 DEF FrameAt
  <2>2. own'[t].psp = (high - FrameWords) + FrameWords + 0
        /\ own'[t].regs = Fresh(t) /\ high - FrameWords \in Int
    BY <1>1 DEF FrameWords
  <2> QED BY <2>1, <2>2 DEF SavedAt
<1> QED BY <1>4, <1>5, <1>6

LEMMA InitKernelKeepsContext ==
    ASSUME MemInv, MemInv', ContextInv, InitKernel
    PROVE  ContextInv'
<1>1. /\ current = Nobody /\ current' = Nobody /\ regs' = regs
      /\ allocated' = IdleBottom /\ stacks' = <<>>
      /\ memory' = InitialStack(Idle, IdleTop, allocated')
      /\ stackPtr' = Only(Idle, IdleTop - FrameWords)
      /\ own' = Only(Idle, NewOwner(Idle, IdleTop))
  BY DEF InitKernel, mk_mem_init, IdleBottom, IdleTop
<1>2. /\ DOMAIN own' = {Idle} /\ DOMAIN stackPtr' = {Idle}
      /\ own'[Idle] = NewOwner(Idle, IdleTop)
      /\ stackPtr'[Idle] = IdleTop - FrameWords
  BY <1>1 DEF Only
<1>3. CreatedRight'
  <2>1. Len(stacks') = 0 /\ 0..0 = {Idle}
    BY <1>1 DEF Idle
  <2> QED BY <1>1, <1>2, <2>1 DEF CreatedRight, Created
<1>4. RoomForPadding'
  <2>1. IdleBottom % 2 = 1 /\ IdleBottom <= IdleBottom /\ DOMAIN stacks' = {}
    BY <1>1, IdleFacts
  <2> QED BY <1>1, <2>1 DEF RoomForPadding
<1>5. High(Idle)' = IdleTop /\ Low(Idle)' = IdleBottom
  BY DEF High, Low
<1>6. OwnerRight(Idle)' /\ SavedAt(Idle, 0)' /\ LocalsKept(Idle)'
  <2>1. IdleTop - ContextWords(IdleTop) >= IdleBottom /\ IdleBottom <= IdleTop - FrameWords
    BY IdleFacts DEF ContextWords, FrameWords
  <2> QED BY <1>1, <1>2, <1>5, <2>1, IdleFacts, NewTaskFacts
<1>7. NotStarted'
  <2>1. regs = Fresh(Nobody)
    BY <1>1 DEF ContextInv, NotStarted
  <2> QED BY <1>1, <1>2, <1>5, <2>1 DEF NotStarted, NewOwner, Created
<1>8. ContextPreserved'
  BY <1>1 DEF ContextPreserved
<1> QED BY <1>2, <1>3, <1>4, <1>6, <1>7, <1>8 DEF ContextInv, Saved, Created

\* A new stack lies below all others, so its frame and its zeroes disturb
\* neither a saved context nor a word in use, be the caller main or a task.
LEMMA CreateTaskKeepsContext ==
    ASSUME SizesRepresentable, MemInv, MemInv', ContextInv,
           NEW size \in Sizes, CreateTask(size)
    PROVE  ContextInv'
<1> DEFINE sp  == allocated - FrameWords
           low == sp - Fill(size)
           new == [high |-> allocated, sp |-> sp, low |-> low, asked |-> size]
<1>1. /\ current' = current /\ regs' = regs /\ psp' = psp
      /\ allocated # 0 /\ stacks' = Append(stacks, new) /\ allocated' = low
  BY DEF CreateTask, mk_mem_initTaskStackFrame
<1>2. /\ stacks \in Seq(Stack) /\ allocated \in Int /\ Len(stacks) \in Nat
      /\ DOMAIN stacks = 1..Len(stacks)
      /\ \A i \in 1..Len(stacks) : stacks[i] \in Stack
  BY DEF MemInv, MemTypeOK
<1>n. PICK n \in Nat : n = Len(stacks) + 1
  BY <1>2
<1>3. /\ Fill(size) \in Nat /\ (Fill(size) + FrameWords) % 2 = 0
      /\ Fill(size) + FrameWords >= 18
  <2>1. size \in 65..(SizeMod - 8) /\ SizeMod \in Nat
    BY MemAssumption DEF SizesRepresentable
  <2>2. Fill(size) \in Nat /\ 4 * (Fill(size) + FrameWords) = Align8(size)
    BY <2>1, FillFacts
  <2>3. Align8(size) \in Int /\ Align8(size) >= 72 /\ Align8(size) % 8 = 0
    BY <2>1, AlignFacts
  <2> QED BY <2>2, <2>3 DEF FrameWords
<1>4. sp \in Int /\ low \in Int /\ sp = allocated - 17 /\ low <= sp
      /\ allocated - low >= 18 /\ (allocated - low) % 2 = 0
  BY <1>2, <1>3 DEF FrameWords
<1> HIDE DEF sp, low
<1>5. /\ Len(stacks') = n /\ DOMAIN stacks' = 1..n /\ stacks'[n] = new
      /\ \A i \in 1..Len(stacks) : stacks'[i] = stacks[i]
  BY <1>n, <1>1, <1>2
<1>6. /\ memory' = Over(InitialStack(n, allocated, low), memory)
      /\ stackPtr' = Over(Only(n, sp), stackPtr)
      /\ own' = Over(Only(n, NewOwner(n, allocated)), own)
  BY <1>5 DEF CreateTask
<1>7. Created = 0..Len(stacks) /\ DOMAIN stackPtr = Created /\ n \notin Created
      /\ n # Idle
  <2>1. Created = 0..Len(stacks) /\ DOMAIN stackPtr = Created
    BY <1>1 DEF ContextInv, CreatedRight
  <2> QED BY <1>n, <1>2, <2>1 DEF Idle
<1>8. /\ DOMAIN own' = 0..n /\ DOMAIN stackPtr' = 0..n
      /\ own'[n] = NewOwner(n, allocated) /\ stackPtr'[n] = sp
      /\ \A t \in Created : own'[t] = own[t] /\ stackPtr'[t] = stackPtr[t]
  <2>1. {n} \cup 0..Len(stacks) = 0..n
    BY <1>n, <1>2
  <2>2. \A t \in Created : t # n
    BY <1>7
  <2> QED BY <1>6, <1>7, <2>1, <2>2 DEF Over, Only, Created
<1>9. CreatedRight'
  <2>1. 0 \in 0..n
    OBVIOUS
  <2>2. current = Nobody \/ current \in 0..n
    BY <1>n, <1>2, <1>7 DEF ContextInv, CreatedRight
  <2> QED BY <1>1, <1>5, <1>8, <2>1, <2>2 DEF CreatedRight, Created
<1>10. allocated <= IdleBottom /\ allocated % 2 = 1
  <2>1. Created # {}
    BY <1>2, <1>7
  <2> QED BY <2>1 DEF ContextInv, RoomForPadding
<1>11. RoomForPadding'
  <2>1. low <= IdleBottom /\ low % 2 = 1
    BY <1>2, <1>4, <1>10, IdleFacts
  <2>2. ASSUME NEW i \in 1..n
        PROVE  /\ stacks'[i].high <= IdleBottom /\ stacks'[i].high % 2 = 1
               /\ stacks'[i].high - stacks'[i].low >= FrameWords + 1
               /\ stacks'[i].sp = stacks'[i].high - FrameWords
    <3>1. CASE i = n
      BY <1>4, <1>5, <1>10, <3>1 DEF FrameWords
    <3>2. CASE i # n
      <4>1. i \in 1..Len(stacks)
        BY <1>n, <1>2, <3>2
      <4> QED BY <1>2, <1>5, <4>1 DEF ContextInv, RoomForPadding
    <3> QED BY <3>1, <3>2
  <2> QED BY <1>1, <1>5, <2>1, <2>2 DEF RoomForPadding
<1>12. ASSUME NEW t \in Created PROVE High(t)' = High(t) /\ Low(t)' = Low(t)
  <2>1. t = Idle \/ t \in 1..Len(stacks)
    BY <1>2, <1>7 DEF Idle
  <2> QED BY <1>5, <2>1 DEF High, Low
<1>13. High(n)' = allocated /\ Low(n)' = low
  BY <1>5, <1>7 DEF High, Low
<1>14. OwnerRight(n)' /\ SavedAt(n, 0)' /\ LocalsKept(n)'
  <2>1. allocated - ContextWords(allocated) >= low /\ low <= allocated - FrameWords
        /\ sp = allocated - FrameWords
    BY <1>2, <1>4, <1>10 DEF ContextWords, FrameWords
  <2>2. \A a \in DOMAIN InitialStack(n, allocated, low) :
            /\ a \in DOMAIN memory'
            /\ memory'[a] = InitialStack(n, allocated, low)[a]
    BY <1>6 DEF Over
  <2> QED BY <1>2, <1>4, <1>8, <1>13, <2>1, <2>2, NewTaskFacts
<1>15. ASSUME NEW t \in Created
       PROVE  OwnerRight(t)' /\ LocalsKept(t)' /\ Saved(t)'
  <2>1. OwnerRight(t) /\ LocalsKept(t) /\ Saved(t) /\ CreatedRight /\ RoomForPadding
    BY DEF ContextInv
  <2>2. High(t) \in Int /\ Low(t) \in Int
    BY <2>1, StackFacts
  <2>3. allocated <= Low(t)
    <3>1. CASE t = Idle
      BY <1>10, <3>1 DEF Low
    <3>2. CASE t # Idle
      BY <1>2, <1>7, <2>1, <3>2, StackFacts DEF Low, MemInv, AllocatedBelow
    <3> QED BY <3>1, <3>2
  <2>4. DOMAIN InitialStack(n, allocated, low) \subseteq low..(allocated - 1)
    BY <1>2, <1>4, InitialStackFacts DEF FrameWords
  <2>5. own'[t] = own[t] /\ stackPtr'[t] = stackPtr[t]
    BY <1>8
  <2>6. /\ OwnerRight(t)' /\ LocalsKept(t)'
        /\ \A pad \in {0, 1} : SavedAt(t, pad) => SavedAt(t, pad)'
    BY <1>2, <1>4, <1>6, <1>12, <2>1, <2>2, <2>3, <2>4, <2>5, Undisturbed
  <2>7. Saved(t)'
    BY <1>1, <2>1, <2>6 DEF Saved
  <2> QED BY <2>6, <2>7
<1>16. NotStarted'
  <2> SUFFICES ASSUME current = Nobody PROVE NotStarted'
    BY <1>1 DEF NotStarted
  <2>1. ASSUME NEW t \in 0..n
        PROVE  /\ own'[t].regs = Fresh(t) /\ own'[t].psp = High(t)'
               /\ own'[t].top = High(t)' /\ stackPtr'[t] = High(t)' - FrameWords
    <3>1. CASE t = n
      BY <1>8, <1>13, <3>1 DEF NewOwner, sp
    <3>2. CASE t # n
      <4>1. t \in Created
        BY <1>n, <1>2, <1>7, <3>2
      <4> QED BY <1>1, <1>8, <1>12, <4>1 DEF ContextInv, NotStarted
    <3> QED BY <3>1, <3>2
  <2>2. regs' = Fresh(Nobody)
    BY <1>1 DEF ContextInv, NotStarted
  <2> QED BY <1>8, <2>1, <2>2 DEF NotStarted, Created
<1>17. ASSUME NEW t \in 0..n PROVE OwnerRight(t)' /\ LocalsKept(t)' /\ Saved(t)'
  <2>1. CASE t = n
    BY <1>14, <2>1 DEF Saved
  <2>2. CASE t # n
    <3>1. t \in Created
      BY <1>n, <1>2, <1>7, <2>2
    <3> QED BY <1>15, <3>1
  <2> QED BY <2>1, <2>2
<1>18. ContextPreserved'
  <2> SUFFICES ASSUME current # Nobody PROVE ContextPreserved'
    BY <1>1 DEF ContextPreserved
  <2>1. current \in Created /\ ContextPreserved
    BY DEF ContextInv, CreatedRight
  <2> QED BY <1>1, <1>8, <2>1 DEF ContextPreserved
<1> QED BY <1>8, <1>9, <1>11, <1>16, <1>17, <1>18 DEF ContextInv, Created

\* What makes OwnerRight true of new values, and what keeps it true.
LEMMA OwnerFacts ==
    ASSUME NEW t, NEW r, NEW p \in Int, NEW top \in Int, NEW w, NEW v,
           own'[t] = [regs |-> r, psp |-> p, top |-> top, words |-> w,
                      version |-> v],
           r = [x \in Reg |-> r[x]], \E o, s, k : r["xpsr"] = <<o, s, k, 0>>,
           p <= top, top <= High(t)', p - ContextWords(p) >= Low(t)',
           DOMAIN w = p..(top - 1)
    PROVE  OwnerRight(t)'
<1>1. /\ own'[t].regs = r /\ own'[t].psp = p /\ own'[t].top = top
      /\ own'[t].words = w
      /\ own'[t] = [regs |-> own'[t].regs, psp |-> own'[t].psp,
                    top |-> own'[t].top, words |-> own'[t].words,
                    version |-> own'[t].version]
  OBVIOUS
<1> QED BY <1>1, Zenon DEF OwnerRight

LEMMA OwnerKept ==
    ASSUME NEW t, OwnerRight(t), own'[t] = own[t],
           Low(t)' = Low(t), High(t)' = High(t)
    PROVE  OwnerRight(t)'
BY DEF OwnerRight

LEMMA SavedKept ==
    ASSUME NEW t, NEW pad, SavedAt(t, pad), own'[t] = own[t],
           stackPtr'[t] = stackPtr[t], memory' = memory, Low(t)' = Low(t)
    PROVE  SavedAt(t, pad)'
BY DEF SavedAt

\* What is saved is what the registers are restored to.
LEMMA RestoredFacts ==
    ASSUME NEW m, NEW sp, NEW value, FrameAt(m, sp, value)
    PROVE  \A r \in Reg :
              ReadFrom(m, sp - 1 + Position(Soft \o Hard, r)) = value[r]
<1> SUFFICES ASSUME NEW r \in Reg
             PROVE  ReadFrom(m, sp - 1 + Position(Soft \o Hard, r)) = value[r]
  OBVIOUS
<1>1. /\ Position(Soft \o Hard, r) \in 1..FrameWords
      /\ (Soft \o Hard)[Position(Soft \o Hard, r)] = r
  BY PositionFacts
<1> QED BY <1>1, Zenon DEF ReadFrom, FrameAt

\* The first task starts with the registers of its frame.  Neither xPSR nor
\* EXC_RETURN is read from there, but they are the same already.
LEMMA StartKeepsContext ==
    ASSUME MemInv, ContextInv, NEW t \in 0..MaxTasks, mk_port_startFirstTask(t)
    PROVE  ContextInv'
<1>1. /\ current = Nobody /\ t \in Created /\ current' = t
      /\ psp' = stackPtr[t] + 16
      /\ own' = [own EXCEPT ![t].psp = psp', ![t].top = psp']
      /\ UNCHANGED <<allocated, stacks, memory, stackPtr>>
      /\ regs' = [r \in Reg |->
            IF r \in {"xpsr", "exc"} THEN regs[r]
            ELSE ReadFrom(memory, stackPtr[t] - 1 + Position(Soft \o Hard, r))]
  BY DEF mk_port_startFirstTask, memVars, ContextInv, CreatedRight, Created
<1>2. CreatedRight /\ RoomForPadding
      /\ \A u \in Created : /\ OwnerRight(u) /\ LocalsKept(u)
                            /\ \E pad \in {0, 1} : SavedAt(u, pad)
  <2>1. 0..Len(stacks) \subseteq Nat
    OBVIOUS
  <2>2. Nobody \notin Created
    BY <2>1 DEF ContextInv, CreatedRight, Nobody
  <2> QED BY <1>1, <2>2 DEF ContextInv, Saved
<1>3. /\ regs = Fresh(Nobody)
      /\ own[t].regs = Fresh(t) /\ own[t].psp = High(t)
      /\ own[t].top = High(t) /\ stackPtr[t] = High(t) - FrameWords
  BY <1>1 DEF ContextInv, NotStarted
<1>4. /\ High(t) \in Int /\ Low(t) \in Int
      /\ High(t) - 1 - ContextWords(High(t) - 1) >= Low(t)
  BY <1>1, <1>2, StackFacts
<1>5. psp' = High(t) - 1
  BY <1>1, <1>3, <1>4 DEF FrameWords
<1>6. /\ DOMAIN own' = Created
      /\ own'[t] = [regs |-> Fresh(t), psp |-> psp', top |-> psp',
                    words |-> own[t].words, version |-> own[t].version]
      /\ \A u \in Created : u # t => own'[u] = own[u]
  <2>1. own[t] = [regs |-> own[t].regs, psp |-> own[t].psp, top |-> own[t].top,
                  words |-> own[t].words, version |-> own[t].version]
    BY <1>1, <1>2 DEF OwnerRight
  <2> QED BY <1>1, <1>3, <2>1 DEF Created
<1>7. \A u \in Created : High(u)' = High(u) /\ Low(u)' = Low(u)
  BY <1>1 DEF High, Low
<1>8. DOMAIN own[t].words = {}
  <2>1. DOMAIN own[t].words = High(t)..(High(t) - 1)
    BY <1>1, <1>2, <1>3, Zenon DEF OwnerRight
  <2> QED BY <1>4, <2>1
<1>9. OwnerRight(t)'
  <2>1. /\ Fresh(t) = [r \in Reg |-> Fresh(t)[r]]
        /\ \E o, s, v : Fresh(t)["xpsr"] = <<o, s, v, 0>>
    <3>1. OwnerRight(t)
      BY <1>1, <1>2
    <3> QED BY <1>3, <3>1, Zenon DEF OwnerRight
  <2>2. /\ psp' \in Int /\ psp' <= psp' /\ psp' <= High(t)'
        /\ psp' - ContextWords(psp') >= Low(t)'
        /\ DOMAIN own[t].words = psp'..(psp' - 1)
    BY <1>1, <1>4, <1>5, <1>7, <1>8
  <2> QED BY <1>6, <2>1, <2>2, OwnerFacts
<1>10. LocalsKept(t)'
  BY <1>6, <1>8 DEF LocalsKept
<1>11. ASSUME NEW u \in Created, u # t
       PROVE  OwnerRight(u)' /\ Saved(u)' /\ LocalsKept(u)'
  <2>1. own'[u] = own[u] /\ stackPtr'[u] = stackPtr[u] /\ memory' = memory
    BY <1>1, <1>6, <1>11
  <2>2. OwnerRight(u)'
    BY <1>2, <1>7, <2>1, OwnerKept
  <2>3. LocalsKept(u)'
    BY <1>2, <2>1 DEF LocalsKept
  <2>4. PICK pad \in {0, 1} : SavedAt(u, pad)
    BY <1>2
  <2>5. SavedAt(u, pad)'
    BY <1>7, <2>1, <2>4, SavedKept
  <2> QED BY <2>2, <2>3, <2>5 DEF Saved
<1>12. regs' = Fresh(t)
  <2>1. PICK pad \in {0, 1} : SavedAt(t, pad)
    BY <1>1, <1>2
  <2>2. \A r \in Reg :
           ReadFrom(memory, stackPtr[t] - 1 + Position(Soft \o Hard, r))
              = Stacked(own[t].regs, pad)[r]
    <3> DEFINE value == Stacked(own[t].regs, pad)
               sp == stackPtr[t]
    <3>1. FrameAt(memory, sp, value)
      BY <2>1 DEF SavedAt
    <3> HIDE DEF value, sp
    <3>2. \A r \in Reg : ReadFrom(memory, sp - 1 + Position(Soft \o Hard, r)) = value[r]
      BY <3>1, RestoredFacts
    <3> QED BY <3>2 DEF value, sp
  <2>3. \A r \in Reg : r # "xpsr" => Stacked(own[t].regs, pad)[r] = Fresh(t)[r]
    BY <1>3 DEF Stacked, Fresh
  <2>4. ASSUME NEW r \in Reg PROVE regs'[r] = Fresh(t)[r]
    <3>1. CASE r \in {"xpsr", "exc"}
      BY <1>1, <1>3, <3>1 DEF Fresh
    <3>2. CASE r \notin {"xpsr", "exc"}
      BY <1>1, <2>2, <2>3, <3>2
    <3> QED BY <3>1, <3>2
  <2>5. DOMAIN regs' = Reg /\ regs' = [r \in Reg |-> regs'[r]]
        /\ Fresh(t) = [r \in Reg |-> Fresh(t)[r]]
    BY <1>1 DEF Fresh
  <2> QED BY <2>4, <2>5
<1>13. ContextPreserved'
  BY <1>1, <1>6, <1>12 DEF ContextPreserved
<1>14. CreatedRight' /\ RoomForPadding'
  BY <1>1, <1>2, <1>6 DEF CreatedRight, RoomForPadding, Created
<1>15. NotStarted'
  <2>1. t # Nobody
    BY DEF Nobody
  <2> QED BY <1>1, <2>1 DEF NotStarted
<1>16. ASSUME NEW u \in Created PROVE OwnerRight(u)' /\ Saved(u)' /\ LocalsKept(u)'
  BY <1>1, <1>9, <1>10, <1>11 DEF Saved
<1> QED BY <1>6, <1>13, <1>14, <1>15, <1>16 DEF ContextInv, Created

\* A task writes between its stack pointers only.
LEMMA ComputeKeepsContext ==
    ASSUME MemInv, ContextInv, NEW n \in Locals, Compute(n)
    PROVE  ContextInv'
<1> DEFINE c   == current
           me  == own[c]
           v   == 1 - me.version
           sp  == me.top - n
           new == [a \in sp..(psp - 1) |-> <<c, "local", v, 0>>]
           words == [a \in sp..(me.top - 1) |->
                        IF a < psp THEN new[a] ELSE me.words[a]]
<1>1. /\ c \notin {Nobody, Idle} /\ sp - ContextWords(sp) >= stacks[c].low
      /\ regs' = [r \in Reg |-> IF r = "exc" THEN ExcReturn ELSE <<c, r, v, 0>>]
      /\ psp' = sp /\ memory' = Over(new, memory)
      /\ own' = [own EXCEPT ![c] = [regs |-> regs', psp |-> sp, top |-> me.top,
                                   version |-> v, words |-> words]]
      /\ UNCHANGED <<allocated, stacks, stackPtr, current>>
  BY DEF Compute, memVars
<1>2. c \in Created /\ CreatedRight /\ RoomForPadding
      /\ \A u \in Created : OwnerRight(u) /\ Saved(u) /\ LocalsKept(u)
  BY <1>1 DEF ContextInv, CreatedRight
<1>3. regs = me.regs /\ psp = me.psp
  BY <1>1 DEF ContextInv, ContextPreserved
<1>4. /\ High(c) \in Int /\ Low(c) \in Int /\ Low(c) = stacks[c].low
  BY <1>1, <1>2, StackFacts DEF Low
<1>5. /\ psp \in Int /\ me.top \in Int /\ psp <= me.top /\ me.top <= High(c)
      /\ DOMAIN me.words = psp..(me.top - 1)
      /\ psp - ContextWords(psp) >= Low(c)
  BY <1>2, <1>3 DEF OwnerRight
<1>6. sp \in Int /\ sp <= me.top /\ n \in Nat
  BY <1>5, ContextAssumption
<1> HIDE DEF sp
<1>7. psp >= Low(c) /\ sp >= Low(c)
  BY <1>1, <1>4, <1>5, <1>6 DEF ContextWords, FrameWords
<1>8. DOMAIN new = sp..(psp - 1) /\ DOMAIN words = sp..(me.top - 1)
  OBVIOUS
<1>9. /\ DOMAIN own' = Created
      /\ own'[c] = [regs |-> regs', psp |-> sp, top |-> me.top,
                    version |-> v, words |-> words]
      /\ \A u \in Created : u # c => own'[u] = own[u]
  BY <1>1, <1>2 DEF Created
<1>10. \A u \in Created : High(u)' = High(u) /\ Low(u)' = Low(u)
  BY <1>1 DEF High, Low
<1>11. regs' = [r \in Reg |-> regs'[r]] /\ \E o, s, w : regs'["xpsr"] = <<o, s, w, 0>>
  <2>1. 8 \in 1..8 /\ Hard[8] = "xpsr"
    BY DEF Hard
  <2>2. "xpsr" \in Reg
    BY <2>1 DEF Reg
  <2>3. regs'["xpsr"] = <<c, "xpsr", v, 0>>
    BY <1>1, <2>2
  <2> QED BY <1>1, <2>3
<1>12. ASSUME NEW a \in sp..(me.top - 1)
       PROVE  a \in DOMAIN memory' /\ memory'[a] = words[a]
  <2>1. CASE a < psp
    <3>1. a \in DOMAIN new
      BY <1>5, <1>6, <1>8, <2>1
    <3>2. words[a] = new[a]
      BY <2>1
    <3> HIDE DEF new, words
    <3> QED BY <1>1, <3>1, <3>2 DEF Over
  <2>2. CASE ~(a < psp)
    <3>1. a \in DOMAIN me.words /\ a \notin DOMAIN new
      BY <1>5, <1>6, <1>8, <2>2
    <3>2. a \in DOMAIN memory /\ memory[a] = me.words[a]
      BY <1>2, <3>1 DEF LocalsKept
    <3>3. words[a] = me.words[a]
      BY <2>2
    <3> HIDE DEF new, words
    <3> QED BY <1>1, <3>1, <3>2, <3>3 DEF Over
  <2> QED BY <2>1, <2>2
<1> HIDE DEF new, words
<1>13. \A t : t = c => OwnerRight(t)' /\ LocalsKept(t)' /\ Saved(t)'
  <2> SUFFICES ASSUME NEW t, t = c PROVE OwnerRight(t)' /\ LocalsKept(t)' /\ Saved(t)'
    OBVIOUS
  <2>1. own'[t] = [regs |-> regs', psp |-> sp, top |-> me.top,
                   version |-> v, words |-> words]
    BY <1>9
  <2>2. High(t)' = High(c) /\ Low(t)' = Low(c)
    BY <1>2, <1>10
  <2>3. OwnerRight(t)'
    <3>1. /\ sp \in Int /\ me.top \in Int /\ sp <= me.top /\ me.top <= High(t)'
          /\ sp - ContextWords(sp) >= Low(t)'
          /\ DOMAIN words = sp..(me.top - 1)
      BY <1>1, <1>4, <1>5, <1>6, <1>8, <2>2
    <3> HIDE DEF me, v
    <3> QED BY <1>11, <2>1, <3>1, OwnerFacts
  <2>4. LocalsKept(t)'
    BY <1>8, <1>12, <2>1 DEF LocalsKept
  <2> QED BY <1>1, <2>3, <2>4 DEF Saved
<1>14. ASSUME NEW u \in Created, u # c
       PROVE  OwnerRight(u)' /\ LocalsKept(u)' /\ Saved(u)'
  <2>1. OwnerRight(u) /\ LocalsKept(u) /\ \E pad \in {0, 1} : SavedAt(u, pad)
    BY <1>2, <1>14 DEF Saved
  <2>2. High(u) \in Int /\ Low(u) \in Int
    BY <1>2, StackFacts
  <2>3. High(c) <= Low(u) \/ High(u) <= Low(c)
    BY <1>2, <1>14, StacksApart
  <2>4. DOMAIN new \subseteq Low(c)..(High(c) - 1)
    BY <1>4, <1>5, <1>6, <1>7, <1>8
  <2>5. own'[u] = own[u] /\ stackPtr'[u] = stackPtr[u]
    BY <1>1, <1>9, <1>14
  <2>6. /\ OwnerRight(u)' /\ LocalsKept(u)'
        /\ \A pad \in {0, 1} : SavedAt(u, pad) => SavedAt(u, pad)'
    BY <1>1, <1>4, <1>10, <2>1, <2>2, <2>3, <2>4, <2>5, Undisturbed
  <2> QED BY <2>1, <2>6 DEF Saved
<1>15. CreatedRight' /\ RoomForPadding' /\ NotStarted'
  BY <1>1, <1>2, <1>9 DEF CreatedRight, RoomForPadding, NotStarted, Created
<1>16. ContextPreserved'
  BY <1>1, <1>9 DEF ContextPreserved
<1> QED BY <1>9, <1>13, <1>14, <1>15, <1>16 DEF ContextInv, Created

\* PendSV_Handler saves below the running task's stack pointer, on its stack,
\* and takes what was saved of the next task.
LEMMA PendSVKeepsContext ==
    ASSUME MemInv, ContextInv, NEW next \in 0..MaxTasks, PendSV_Handler(next)
    PROVE  ContextInv'
<1> DEFINE c     == current
           pad   == psp % 2
           sp    == psp - pad - Len(Hard) - Len(SavedBySoftware)
           frame == StoreAt(sp, SavedBySoftware \o Hard, Stacked(regs, pad))
           saved == Over(frame, memory)
           from  == IF next = c THEN sp ELSE stackPtr[next]
           Word(r) == ReadFrom(saved, from - 1 + Position(Soft \o Hard, r))
<1>1. /\ c # Nobody /\ next \in DOMAIN stackPtr /\ current' = next
      /\ memory' = saved /\ stackPtr' = [stackPtr EXCEPT ![c] = sp]
      /\ regs' = [r \in Reg |->
                    IF r = "xpsr" THEN [Word(r) EXCEPT ![4] = 0] ELSE Word(r)]
      /\ psp' = from + FrameWords + Word("xpsr")[4]
      /\ UNCHANGED <<allocated, stacks, own>>
  BY DEF PendSV_Handler, memVars
<1>2. /\ c \in Created /\ next \in Created /\ CreatedRight /\ RoomForPadding
      /\ DOMAIN stackPtr = Created
      /\ \A u \in Created : OwnerRight(u) /\ Saved(u) /\ LocalsKept(u)
  BY <1>1 DEF ContextInv, CreatedRight
<1>3. regs = own[c].regs /\ psp = own[c].psp
  BY <1>1 DEF ContextInv, ContextPreserved
<1>4. High(c) \in Int /\ Low(c) \in Int
  BY <1>2, StackFacts
<1>5. /\ psp \in Int /\ own[c].top \in Int /\ psp <= own[c].top
      /\ own[c].top <= High(c) /\ psp - ContextWords(psp) >= Low(c)
      /\ DOMAIN own[c].words = psp..(own[c].top - 1)
  BY <1>2, <1>3 DEF OwnerRight
<1>6. /\ pad \in {0, 1} /\ sp \in Int /\ psp = sp + FrameWords + pad /\ sp >= Low(c)
  <2>1. Len(Hard) = 8 /\ Len(SavedBySoftware) = 9 /\ FrameWords = 17
    BY PositionFacts DEF SavedBySoftware, FrameWords
  <2>2. psp - (17 + (psp % 2)) >= Low(c)
    BY <1>5, <2>1 DEF ContextWords
  <2>3. psp % 2 \in {0, 1}
    BY <1>5
  <2> QED BY <1>4, <1>5, <2>1, <2>2, <2>3
<1> HIDE DEF pad, sp
<1>7. /\ DOMAIN frame = sp..(sp + FrameWords - 1)
      /\ FrameAt(frame, sp, Stacked(regs, pad))
  BY <1>6, StoredFacts DEF SavedBySoftware
<1> HIDE DEF frame
<1>8. FrameAt(saved, sp, Stacked(regs, pad))
  BY <1>7 DEF Over, FrameAt
<1>9. \A u \in Created : High(u)' = High(u) /\ Low(u)' = Low(u)
  BY <1>1 DEF High, Low
<1>10. stackPtr'[c] = sp /\ DOMAIN stackPtr' = Created
       /\ \A u \in Created : u # c => stackPtr'[u] = stackPtr[u]
  BY <1>1, <1>2
<1>11. \A t : t = c => OwnerRight(t)' /\ LocalsKept(t)' /\ Saved(t)'
  <2> SUFFICES ASSUME NEW t, t = c PROVE OwnerRight(t)' /\ LocalsKept(t)' /\ Saved(t)'
    OBVIOUS
  <2>1. High(t)' = High(t) /\ Low(t)' = Low(t) /\ own' = own
    BY <1>1, <1>2, <1>9
  <2>2. OwnerRight(t)'
    BY <1>2, <2>1, OwnerKept
  <2>3. LocalsKept(t)'
    <3> SUFFICES ASSUME NEW a \in DOMAIN own[t].words
                 PROVE  a \in DOMAIN memory' /\ memory'[a] = own[t].words[a]
      BY <2>1 DEF LocalsKept
    <3>1. a \notin DOMAIN frame
      <4>1. a \in psp..(own[c].top - 1)
        BY <1>5
      <4> QED BY <1>5, <1>6, <1>7, <4>1 DEF FrameWords
    <3>2. a \in DOMAIN memory /\ memory[a] = own[t].words[a]
      BY <1>2 DEF LocalsKept
    <3> QED BY <1>1, <3>1, <3>2 DEF Over
  <2>4. PICK p \in {0, 1} : p = pad
    BY <1>6
  <2>5. SavedAt(t, p)'
    <3>1. FrameAt(saved, sp, Stacked(own[t].regs, p))
      BY <1>3, <1>8, <2>4
    <3>2. stackPtr'[t] = sp /\ own[t].psp = sp + FrameWords + p /\ sp >= Low(t)
      BY <1>3, <1>6, <1>10, <2>4
    <3> HIDE DEF saved
    <3> QED BY <1>1, <1>6, <2>1, <3>1, <3>2 DEF SavedAt
  <2> QED BY <2>2, <2>3, <2>5 DEF Saved
<1>12. ASSUME NEW u \in Created, u # c
       PROVE  /\ OwnerRight(u)' /\ LocalsKept(u)'
              /\ \E p \in {0, 1} : SavedAt(u, p) /\ SavedAt(u, p)'
  <2>1. OwnerRight(u) /\ LocalsKept(u) /\ \E p \in {0, 1} : SavedAt(u, p)
    BY <1>2, <1>12 DEF Saved
  <2>2. High(u) \in Int /\ Low(u) \in Int
    BY <1>2, StackFacts
  <2>3. High(c) <= Low(u) \/ High(u) <= Low(c)
    BY <1>2, <1>12, StacksApart
  <2>4. DOMAIN frame \subseteq Low(c)..(High(c) - 1)
    BY <1>4, <1>5, <1>6, <1>7 DEF FrameWords
  <2>5. own'[u] = own[u] /\ stackPtr'[u] = stackPtr[u]
    BY <1>1, <1>10, <1>12
  <2>6. /\ OwnerRight(u)' /\ LocalsKept(u)'
        /\ \A p \in {0, 1} : SavedAt(u, p) => SavedAt(u, p)'
    BY <1>1, <1>4, <1>9, <2>1, <2>2, <2>3, <2>4, <2>5, Undisturbed
  <2> QED BY <2>1, <2>6
<1>13. PICK back \in {0, 1} :
         /\ from \in Int /\ own[next].psp = from + FrameWords + back
         /\ FrameAt(saved, from, Stacked(own[next].regs, back))
  <2>1. CASE next = c
    BY <1>3, <1>6, <1>8, <2>1
  <2>2. CASE next # c
    <3>1. PICK p \in {0, 1} : SavedAt(next, p) /\ SavedAt(next, p)'
      BY <1>2, <1>12, <2>2
    <3>2. /\ stackPtr'[next] = from /\ own' = own /\ memory' = saved
      BY <1>1, <1>2, <1>10, <2>2
    <3> HIDE DEF saved, from
    <3> QED BY <3>1, <3>2 DEF SavedAt
  <2> QED BY <2>1, <2>2
<1> HIDE DEF saved, from
<1>14. \A r \in Reg : Word(r) = Stacked(own[next].regs, back)[r]
  BY <1>13, RestoredFacts
<1> HIDE DEF Word
<1>15. /\ Stacked(own[next].regs, back)["xpsr"][4] = back
       /\ own[next].regs = [r \in Reg |->
             IF r = "xpsr" THEN [Stacked(own[next].regs, back)[r] EXCEPT ![4] = 0]
             ELSE Stacked(own[next].regs, back)[r]]
  <2> DEFINE value == own[next].regs
  <2>1. /\ value = [r \in Reg |-> value[r]]
        /\ \E o, s, v : value["xpsr"] = <<o, s, v, 0>>
    BY <1>2 DEF OwnerRight
  <2> HIDE DEF value
  <2>2. LET w == Stacked(value, back)
        IN  /\ w["xpsr"][4] = back
            /\ value = [r \in Reg |->
                          IF r = "xpsr" THEN [w[r] EXCEPT ![4] = 0] ELSE w[r]]
    BY <2>1, StackedFacts
  <2> QED BY <2>2, Zenon DEF value
<1>16. "xpsr" \in Reg
  <2>1. 8 \in 1..8 /\ Hard[8] = "xpsr"
    BY DEF Hard
  <2> QED BY <2>1 DEF Reg
<1>17. ContextPreserved'
  <2>1. psp' = own[next].psp
    BY <1>1, <1>13, <1>14, <1>15, <1>16
  <2>2. regs' = own[next].regs
    BY <1>1, <1>14, <1>15
  <2> QED BY <1>1, <2>1, <2>2 DEF ContextPreserved
<1>18. CreatedRight' /\ RoomForPadding'
  BY <1>1, <1>2, <1>10 DEF CreatedRight, RoomForPadding, Created
<1>19. NotStarted'
  <2>1. next # Nobody
    BY DEF Nobody
  <2> QED BY <1>1, <2>1 DEF NotStarted
<1>20. \A u \in Created : OwnerRight(u)' /\ Saved(u)' /\ LocalsKept(u)'
  BY <1>11, <1>12 DEF Saved
<1> QED BY <1>1, <1>17, <1>18, <1>19, <1>20 DEF ContextInv, Created

LEMMA ContextStep ==
    ASSUME SizesRepresentable
    PROVE  MemInv /\ MemInv' /\ ContextInv /\ [ContextNext]_contextVars => ContextInv'
<1> SUFFICES ASSUME MemInv, MemInv', ContextInv, [ContextNext]_contextVars
             PROVE  ContextInv'
  OBVIOUS
<1>1. CASE UNCHANGED contextVars
  BY <1>1 DEF contextVars, memVars, ContextInv, CreatedRight, RoomForPadding,
        NotStarted, ContextPreserved, OwnerRight, Saved, SavedAt, LocalsKept,
        Created, High, Low
<1>2. CASE InitKernel
  BY <1>2, InitKernelKeepsContext
<1>3. CASE \E size \in Sizes : CreateTask(size)
  BY <1>3, CreateTaskKeepsContext
<1>4. CASE \E t \in 0..MaxTasks : mk_port_startFirstTask(t) \/ PendSV_Handler(t)
  BY <1>4, StartKeepsContext, PendSVKeepsContext
<1>5. CASE \E n \in Locals : Compute(n)
  BY <1>5, ComputeKeepsContext
<1> QED BY <1>1, <1>2, <1>3, <1>4, <1>5 DEF ContextNext

LEMMA ContextSafe ==
    ASSUME SizesRepresentable
    PROVE  ContextSpec => []ContextInv
<1>1. ContextInit => MemInv /\ ContextInv
  <2> SUFFICES ASSUME ContextInit PROVE MemInv /\ ContextInv
    OBVIOUS
  <2>1. DOMAIN own = {} /\ DOMAIN stackPtr = {} /\ DOMAIN stacks = {}
    BY DEF ContextInit, Init
  <2> QED BY <2>1 DEF ContextInit, Init, MemInv, MemTypeOK, StackAsAsked,
        StacksDisjoint, AllocatedBelow, ContextInv, CreatedRight, RoomForPadding,
        NotStarted, ContextPreserved, Created
<1>2. MemInv /\ [ContextNext]_contextVars => MemInv'
  BY MemAssumption, ContextStepKeepsMem
<1>3. MemInv /\ MemInv' /\ ContextInv /\ [ContextNext]_contextVars => ContextInv'
  BY ContextStep
<1> QED BY <1>1, <1>2, <1>3, PTL DEF ContextSpec

\* Whatever PendSV_Handler saves and restores, whichever task it picks and
\* however the stack pointer is aligned, and whenever main or a running task
\* creates another beside the saved contexts, a task finds its registers and
\* its stack pointer as it left them, for every number of tasks and all sizes
\* of 65 bytes and more.
THEOREM ContextsKept ==
    ASSUME SizesRepresentable
    PROVE  ContextSpec => []ContextPreserved
<1>1. ContextInv => ContextPreserved
  BY DEF ContextInv
<1> QED BY <1>1, ContextSafe, PTL

\* And the words on its stack: no saved context, with the padding that the
\* hardware may add, and no initial frame or zero fill of a stack that another
\* task, or the task itself, creates meanwhile is ever written over them.
THEOREM StacksKept ==
    ASSUME SizesRepresentable
    PROVE  ContextSpec => []LocalsPreserved
<1>1. ContextInv => LocalsPreserved
  BY DEF ContextInv, LocalsPreserved, LocalsKept, Created
<1> QED BY <1>1, ContextSafe, PTL
=============================================================================
