---------------------------------- MODULE Hal ----------------------------------
(***************************************************************************)
(* The drivers of HalDrivers at work, as in demo2.c: main configures the   *)
(* clocks, the LEDs and a USART, and sends a greeting; then tasks run, two *)
(* that blink the LEDs, one that transmits, and one that configures pins   *)
(* and interrupt lines.  The kernel may switch tasks between any two       *)
(* accesses to registers, so also within a read-modify-write.              *)
(*                                                                         *)
(* The clients keep to this: only one task transmits, only one configures, *)
(* and it asks for what the drivers can do (ClientAssumption).             *)
(***************************************************************************)
EXTENDS HalDrivers

CONSTANTS
    Ports,          \* of the GPIO ports, those looked at
    InitStructs,    \* what main gives to USART_Init
    Messages,       \* what the tasks transmit
    SetupCalls,     \* what the task that configures may call
    MaxSetups       \* and how often

VARIABLES
    reg,            \* the registers
    data, shifter,  \* of the USART: the byte in DR, and the one being sent
    todo,           \* of each thread: the accesses left of its call
    loaded,         \* of each thread: the value read in a read-modify-write
    usart,          \* what main gave to USART_Init
    setups,         \* how often the configuring task has called
    asked, level,   \* history: what registers should be configured to, and
                    \* the LEDs written to
    due             \* history: the bytes to be seen on the line

halVars == <<reg, data, shifter, todo, loaded, usart, setups, asked, level, due>>

Led    == {"red", "green"}
LedPin == [red |-> 8, green |-> 9]
Task   == Led \cup {"uart", "setup"}
Thread == Task \cup {"main"}

Empty     == {}          \* no byte
NotLoaded == {-1}
Greeting  == <<"g">>

\* The peripherals without clock ignore accesses; RCC, NVIC and EXTI have one.
Clock == [GPIOA |-> 0, GPIOB |-> 1, GPIOC |-> 2, GPIOD |-> 3]
ClockOf(peripheral) ==
    CASE peripheral \in DOMAIN Clock -> {<<<<"RCC", "AHB1ENR">>, Clock[peripheral]>>}
      [] peripheral \in DOMAIN Usart ->
           {<<Usart[peripheral].enr, Usart[peripheral].clock>>}
      [] OTHER -> {}
Clocked(peripheral) == \A c \in ClockOf(peripheral) : c[2] \in reg[c[1]]

PinRegs  == Ports \X {"MODER", "OTYPER", "OSPEEDR", "PUPDR", "AFRL", "AFRH"}
LineRegs == ({"EXTI"} \X {"IMR", "RTSR", "FTSR"}) \cup {ISER(i) : i \in {0, 32, 64}}
Register ==
    PinRegs \cup LineRegs \cup (Ports \X {"ODR"})
      \cup ({"RCC"} \X {"AHB1ENR", "APB1ENR", "APB2ENR"})
      \cup ((DOMAIN Usart) \X {"SR", "BRR", "CR1", "CR2", "CR3"})

\* After a reset: the debug pins are in use, and a USART is ready to send.
AfterReset(r) ==
    CASE r = <<"GPIOA", "MODER">> -> {27, 29, 31}
      [] r = <<"GPIOB", "MODER">> -> {7, 9}
      [] r[2] = "SR"              -> {TXE, TC}
      [] OTHER                    -> {}

\* A read-modify-write of a pin or an interrupt line, and a choice of some.
Setting   == [op : {"set", "clear"}, reg : PinRegs \cup LineRegs, bits : SUBSET (0..31)]
Branching == [op : {"if"}, reg : PinRegs, bits : SUBSET (0..31),
              yes : Seq(Setting), no : Seq(Setting)]

\* The usart has its pins in Ports, not those of the LEDs, and a divider of 16
\* bits, a message is a sequence of bytes, and the task that configures leaves
\* outputs and the usart alone.
ASSUME HalAssumption ==
    /\ "GPIOA" \in Ports /\ Ports \subseteq DOMAIN Clock
    /\ \A init \in InitStructs :
          /\ init.usartx \in DOMAIN Usart
          /\ Usart[init.usartx].txPort \in Ports /\ Usart[init.usartx].rxPort \in Ports
          /\ \A l \in Led : <<"GPIOA", LedPin[l]>> \notin
                {<<Usart[init.usartx].txPort, Usart[init.usartx].tx>>,
                 <<Usart[init.usartx].rxPort, Usart[init.usartx].rx>>}
          /\ init.sys_freq \in Nat /\ init.baud_rate \in Nat \ {0}
          /\ UART_BRR_SAMPLING16(init.sys_freq, init.baud_rate) < 65536
    /\ \A m \in Messages : m \in Seq(ToSet(m))
    /\ \A call \in SetupCalls : call.accesses \in Seq(Setting \cup Branching)

-----------------------------------------------------------------------------
(* What the caller of a function wants: bits width*pin on of register to be *)
(* the value.                                                              *)
Want(register, width, pin, value) ==
    [reg |-> register, field |-> {width * pin + i : i \in 0..(width - 1)},
     value |-> {width * pin + i : i \in value}]

\* AFRL holds the pins 0 to 7, and AFRH 8 to 15.
WantAF(port, pin, af) ==
    Want(<<port, IF pin < 8 THEN "AFRL" ELSE "AFRH">>, 4, pin % 8, af)

WantAlternate(port, pin, af) ==
    {Want(<<port, "MODER">>, 2, pin, GPIO_MODE_AF), WantAF(port, pin, af)}

\* No two wishes of a call are about the same field.
Fulfil(registers, wishes) ==
    [r \in DOMAIN registers |->
       LET about == {w \in wishes : w.reg = r}
       IN  (registers[r] \ UNION {w.field : w \in about})
             \cup UNION {w.value : w \in about}]

UsartWishes(init) ==
    LET u == Usart[init.usartx]
    IN  WantAlternate(u.txPort, u.tx, u.af) \cup WantAlternate(u.rxPort, u.rx, u.af)
          \cup {w \in {Want(ISER(u.irqn), 1, u.irqn % 32, {0})} :
                  init.transmit_interrupts_en \/ init.receive_interrupts_en}

Call(accesses, wishes) == [accesses |-> accesses, wishes |-> wishes]

SetMode(port, pin, mode) ==
    Call(GPIO_Set_Mode(port, pin, mode), {Want(<<port, "MODER">>, 2, pin, mode)})

OpenDrain(port, pin) ==
    Call(GPIO_Set_OutputType(port, pin, {0}), {Want(<<port, "OTYPER">>, 1, pin, {0})})

SetOutputSpeed(port, pin, speed) ==
    Call(GPIO_Set_OutputSpeed(port, pin, speed), {Want(<<port, "OSPEEDR">>, 2, pin, speed)})

SetPull(port, pin, pull) ==
    Call(GPIO_Set_Pull(port, pin, pull), {Want(<<port, "PUPDR">>, 2, pin, pull)})

PinInit(init) ==
    Call(GPIO_Pin_Init(init),
         {Want(<<init.gpiox, "MODER">>, 2, init.pin, init.pin_mode),
           Want(<<init.gpiox, "OTYPER">>, 1, init.pin, init.output_type),
           Want(<<init.gpiox, "OSPEEDR">>, 2, init.pin, init.output_speed),
           Want(<<init.gpiox, "PUPDR">>, 2, init.pin, init.pull),
           WantAF(init.gpiox, init.pin, init.alternate_function)})

LineEnable(line, trigger) ==
    LET Wanted(edge) == IF edge \in trigger THEN {0} ELSE {}
    IN  Call(EXTI_Line_Enable(line, trigger),
             {Want(<<"EXTI", "IMR">>, 1, line, {0}),
               Want(<<"EXTI", "RTSR">>, 1, line, Wanted("rising")),
               Want(<<"EXTI", "FTSR">>, 1, line, Wanted("falling"))})

-----------------------------------------------------------------------------
MainProgram(init) ==
    GPIO_Clock_Init
      \o GPIO_Set_Mode("GPIOA", LedPin["red"], GPIO_MODE_OUTPUT)
      \o GPIO_Set_Mode("GPIOA", LedPin["green"], GPIO_MODE_OUTPUT)
      \o USART_Init(init)
      \o USART_Transmit(init.usartx, Greeting)

MainWishes(init) ==
    {Want(<<"GPIOA", "MODER">>, 2, LedPin[l], GPIO_MODE_OUTPUT) : l \in Led}
      \cup UsartWishes(init)

\* What the registers should be configured to when main has ended.
Configured(init) ==
    Fulfil([r \in PinRegs \cup LineRegs |-> AfterReset(r)], MainWishes(init))

\* The calls that do what they are asked.  GPIO_Pin_Init makes every pin one of
\* an alternate function, and does not look at the pull.
PinStructs ==
    [gpiox : Ports, pin : 0..7, pin_mode : {GPIO_MODE_AF, GPIO_MODE_ANALOG},
     output_type : SUBSET {0}, output_speed : SUBSET {0, 1}, pull : {{}},
     alternate_function : SUBSET (0..3)]

Driven(call) ==
    \/ \E port \in Ports, pin \in 0..15, value \in SUBSET {0, 1} :
          call \in {SetMode(port, pin, value), SetOutputSpeed(port, pin, value),
                   SetPull(port, pin, value), OpenDrain(port, pin)}
    \/ \E init \in PinStructs : call = PinInit(init)
    \/ \E line \in 0..22, trigger \in SUBSET {"rising", "falling"} :
          call = LineEnable(line, trigger)

\* The wishes that a call may only add to: no function makes a pin push-pull
\* again or takes an edge of a line back, and GPIO_Pin_Init does not set the pull.
OnlySet(call) ==
    {w \in call.wishes :
       \/ w.reg[2] \in {"OTYPER", "IMR", "RTSR", "FTSR"}
       \/ \A a \in ToSet(call.accesses) : a.reg # w.reg}

ASSUME ClientAssumption ==
    \A call \in SetupCalls :
        /\ Driven(call)
        /\ \A w \in OnlySet(call) :
              /\ \A init \in InitStructs :
                    Configured(init)[w.reg] \cap w.field \subseteq w.value
              /\ \A other \in SetupCalls : \A x \in other.wishes :
                    x.reg = w.reg => x.value \cap w.field \subseteq w.value

Init ==
    /\ usart \in InitStructs
    /\ reg = [r \in Register |-> AfterReset(r)]
    /\ data = Empty /\ shifter = Empty
    /\ todo = [t \in Thread |-> IF t = "main" THEN MainProgram(usart) ELSE <<>>]
    /\ loaded = [t \in Thread |-> NotLoaded]
    /\ setups = 0
    /\ asked = Configured(usart)
    /\ level = [l \in Led |-> FALSE]
    /\ due = Greeting

Idle(t)  == todo[t] = <<>>
Start(t, accesses) ==
    /\ Idle("main") /\ Idle(t)
    /\ todo' = [todo EXCEPT ![t] = accesses]

hardware == <<reg, data, shifter, loaded, usart>>

Blink(l) ==
    /\ \/ \E high \in BOOLEAN :
            /\ Start(l, GPIO_Write("GPIOA", LedPin[l], high))
            /\ level' = [level EXCEPT ![l] = high]
       \/ /\ Start(l, GPIO_Toggle("GPIOA", LedPin[l]))
          /\ level' = [level EXCEPT ![l] = ~@]
    /\ UNCHANGED <<hardware, setups, asked, due>>

Transmit(message) ==
    /\ Start("uart", USART_Transmit(usart.usartx, message))
    /\ due' = due \o message
    /\ UNCHANGED <<hardware, setups, asked, level>>

Setup(call) ==
    /\ setups < MaxSetups
    /\ Start("setup", call.accesses)
    /\ asked' = Fulfil(asked, call.wishes)
    /\ setups' = setups + 1
    /\ UNCHANGED <<hardware, level, due>>

-----------------------------------------------------------------------------
(* A step of a thread: an access of its call.  A read-modify-write is two. *)

Access(t) == Head(todo[t])
Done(t)   == todo' = [todo EXCEPT ![t] = Tail(@)]
others    == <<usart, setups, asked, level, due>>

Load(t) ==
    /\ ~Idle(t) /\ Access(t).op \in {"set", "clear"} /\ loaded[t] = NotLoaded
    /\ loaded' = [loaded EXCEPT ![t] = reg[Access(t).reg]]
    /\ UNCHANGED <<reg, data, shifter, todo, others>>

\* Two registers are written for what the write does: BSRR sets the bits of ODR
\* that its lower half names and resets those of its upper half, ISER only sets.
Assigned(a) ==
    CASE a.reg[2] = "BSRR" ->
           [reg EXCEPT ![<<a.reg[1], "ODR">>] =
              (@ \ {b - 16 : b \in a.bits}) \cup (a.bits \cap 0..15)]
      [] a.reg[1] = "NVIC" -> [reg EXCEPT ![a.reg] = @ \cup a.bits]
      [] OTHER             -> [reg EXCEPT ![a.reg] = a.bits]

Store(t) ==
    /\ ~Idle(t) /\ loaded[t] # NotLoaded
    /\ LET a == Access(t)
           v == IF a.op = "set" THEN loaded[t] \cup a.bits ELSE loaded[t] \ a.bits
       IN  reg' = IF Clocked(a.reg[1]) THEN [reg EXCEPT ![a.reg] = v] ELSE reg
    /\ loaded' = [loaded EXCEPT ![t] = NotLoaded]
    /\ Done(t)
    /\ UNCHANGED <<data, shifter, others>>

Assign(t) ==
    /\ ~Idle(t) /\ Access(t).op = "write" /\ Access(t).reg[2] # "DR"
    /\ reg' = IF Clocked(Access(t).reg[1]) THEN Assigned(Access(t)) ELSE reg
    /\ Done(t)
    /\ UNCHANGED <<data, shifter, loaded, others>>

\* The byte goes to DR, over one that is still there.  The driver has read SR
\* before, so that the write clears TC.
WriteDR(t) ==
    /\ ~Idle(t) /\ Access(t).op = "write" /\ Access(t).reg[2] = "DR"
    /\ LET u == Access(t).reg[1]
       IN  /\ Clocked(u)
           /\ data' = {Access(t).bits}
           /\ reg' = [reg EXCEPT ![<<u, "SR">>] = @ \ {TXE, TC}]
    /\ Done(t)
    /\ UNCHANGED <<shifter, loaded, others>>

\* The loops have no other way out: a poll in vain is tried again.
Poll(t) ==
    /\ ~Idle(t) /\ Access(t).op = "await"
    /\ todo' = IF Access(t).bits \subseteq reg[Access(t).reg]
               THEN [todo EXCEPT ![t] = Tail(@)] ELSE todo
    /\ UNCHANGED <<reg, data, shifter, loaded, others>>

Branch(t) ==
    /\ ~Idle(t) /\ Access(t).op = "if"
    /\ LET a == Access(t)
       IN  todo' = [todo EXCEPT ![t] =
                      (IF a.bits \subseteq reg[a.reg] THEN a.yes ELSE a.no) \o Tail(@)]
    /\ UNCHANGED <<reg, data, shifter, loaded, others>>

Step(t) == Load(t) \/ Store(t) \/ Assign(t) \/ WriteDR(t) \/ Poll(t) \/ Branch(t)

\* The USART sends when it and its transmitter are enabled.
SR == <<usart.usartx, "SR">>
TransferByte ==
    /\ {13, 3} \subseteq reg[<<usart.usartx, "CR1">>]
    /\ data # Empty /\ shifter = Empty
    /\ shifter' = data /\ data' = Empty
    /\ reg' = [reg EXCEPT ![SR] = @ \cup {TXE}]
    /\ UNCHANGED <<todo, loaded, others>>

FrameSent ==
    /\ shifter # Empty
    /\ shifter' = Empty
    /\ due' = Tail(due)
    /\ reg' = IF data = Empty THEN [reg EXCEPT ![SR] = @ \cup {TC}] ELSE reg
    /\ UNCHANGED <<data, todo, loaded, usart, setups, asked, level>>

Next ==
    \/ \E l \in Led : Blink(l)
    \/ \E m \in Messages : Transmit(m)
    \/ \E call \in SetupCalls : Setup(call)
    \/ \E t \in Thread : Step(t)
    \/ TransferByte \/ FrameSent

\* A task that is ready gets the CPU, and the USART sends.
Fairness ==
    /\ \A t \in Thread : WF_halVars(Step(t))
    /\ WF_halVars(TransferByte) /\ WF_halVars(FrameSent)

Spec == Init /\ [][Next]_halVars /\ Fairness

-----------------------------------------------------------------------------
\* When no configuration is going on, every field of every pin and interrupt
\* is as the last call asked, and every other field as after the reset: the
\* shifts and the masks of gpio.c hit their pin, the writes of other tasks in
\* between disturb nothing, "the pins are configured according to the defines
\* in usart.h" (usart.h:87-89).
ConfiguredAsAsked ==
    Idle("main") /\ Idle("setup") =>
        \A r \in PinRegs \cup LineRegs : reg[r] = asked[r]

\* Two tasks can drive pins of one port at the same time: when a write or a
\* toggle has returned, its pin is as it left it, whatever the others do.
OutputsAsWritten ==
    Idle("main") =>
        \A l \in Led : Idle(l) =>
            (level[l] <=> LedPin[l] \in reg[<<"GPIOA", "ODR">>])

\* The bytes that accesses write to DR.
BytesOf(accesses) ==
    LET bytes[i \in 0..Len(accesses)] ==
          IF i = 0 THEN <<>>
          ELSE IF accesses[i].reg[2] = "DR" THEN Append(bytes[i - 1], accesses[i].bits)
          ELSE bytes[i - 1]
    IN  bytes[Len(accesses)]

\* No byte is overwritten, skipped or reordered on its way: what the shift
\* register, DR and the rest of the calls still hold is what is due.
BytesInOrder ==
    SetToSeq(shifter) \o SetToSeq(data) \o BytesOf(todo["main"])
      \o BytesOf(todo["uart"]) = due

\* The divider in BRR is the nearest but one to clock and baud rate, at worst.
BaudRateRight ==
    Idle("main") =>
        LET quotient == usart.sys_freq \div usart.baud_rate
        IN  \E brr \in (quotient - 1)..(quotient + 1) :
              LET error == brr * usart.baud_rate - usart.sys_freq
              IN  /\ reg[<<usart.usartx, "BRR">>] = Bits(brr)
                  /\ -usart.baud_rate <= error /\ error <= usart.baud_rate

\* A transmission comes to an end: the status bits that it polls are set some
\* day, in main and in the task.
TransmitReturns ==
    \A t \in {"main", "uart"} : ~Idle(t) ~> Idle(t)
=============================================================================
