------------------------------ MODULE HalDrivers ------------------------------
(***************************************************************************)
(* The drivers of the STM32F446 (gpio.c, usart.c, exti.c, nvic.c, rcc.c).  *)
(* A driver function is the sequence of the accesses it makes to registers; *)
(* Hal.tla says what an access does.  A register is named by its           *)
(* peripheral and its field, and a value is the set of its bits that are 1. *)
(***************************************************************************)
EXTENDS Integers, Sequences, SequencesExt

\* reg = bits, reg |= bits, reg &= ~bits, while ((reg & bits) != bits) {},
\* if ((reg & bits) == bits) yes else no.
Write(reg, bits) == <<[op |-> "write", reg |-> reg, bits |-> bits]>>
Set(reg, bits)   == <<[op |-> "set",   reg |-> reg, bits |-> bits]>>
Clear(reg, bits) == <<[op |-> "clear", reg |-> reg, bits |-> bits]>>
Await(reg, bits) == <<[op |-> "await", reg |-> reg, bits |-> bits]>>
If(reg, bits, yes, no) ==
    <<[op |-> "if", reg |-> reg, bits |-> bits, yes |-> yes, no |-> no]>>

When(condition, accesses) == IF condition THEN accesses ELSE <<>>

\* bits << n of a 32-bit word.  For n >= 32, which C leaves undefined, the
\* Cortex-M4 shifts by a register and gives 0.
Shift(bits, n) == {b + n : b \in bits} \cap 0..31

\* The bits of a number.
Bits(n) == {b \in 0..30 : (n \div 2^b) % 2 = 1}

-----------------------------------------------------------------------------
(* gpio.c                                                                  *)

GPIO_MODE_INPUT  == {}
GPIO_MODE_OUTPUT == {0}
GPIO_MODE_AF     == {1}
GPIO_MODE_ANALOG == {0, 1}

Bug_ModeNotCleared(port, pin, mode) ==
    Set(<<port, "MODER">>, Shift(mode, pin * 2))

GPIO_Set_Mode(port, pin, mode) ==
    Clear(<<port, "MODER">>, Shift({0, 1}, pin * 2))
      \o Set(<<port, "MODER">>, Shift(mode, pin * 2))

\* Open drain ({0}) can be set, but push-pull ({}) not again.
GPIO_Set_OutputType(port, pin, type) ==
    Set(<<port, "OTYPER">>, Shift(type, pin))

GPIO_Set_OutputSpeed(port, pin, speed) ==
    Clear(<<port, "OSPEEDR">>, Shift({0, 1}, pin * 2))
      \o Set(<<port, "OSPEEDR">>, Shift(speed, pin * 2))

GPIO_Set_Pull(port, pin, pull) ==
    Clear(<<port, "PUPDR">>, Shift({0, 1}, pin * 2))
      \o Set(<<port, "PUPDR">>, Shift(pull, pin * 2))

\* IS_MODE asks whether the bits of the mode are set, which those of the
\* analog mode are too.
GPIO_Set_AF(port, pin, af) ==
    LET afr == <<port, IF pin <= 7 THEN "AFRL" ELSE "AFRH">>
    IN  If(<<port, "MODER">>, Shift(GPIO_MODE_AF, pin * 2), <<>>,
           GPIO_Set_Mode(port, pin, GPIO_MODE_AF))
          \o Clear(afr, Shift(0..3, pin * 4)) \o Set(afr, Shift(af, pin * 4))

GPIO_Pin_Init(init) ==
    GPIO_Set_Mode(init.gpiox, init.pin, init.pin_mode)
      \o GPIO_Set_OutputType(init.gpiox, init.pin, init.output_type)
      \o GPIO_Set_OutputSpeed(init.gpiox, init.pin, init.output_speed)
      \o GPIO_Set_AF(init.gpiox, init.pin, init.alternate_function)

Bug_WriteThroughODR(port, pin, high) ==
    IF high THEN Set(<<port, "ODR">>, {pin}) ELSE Clear(<<port, "ODR">>, {pin})

GPIO_Write(port, pin, high) ==
    Write(<<port, "BSRR">>, {IF high THEN pin ELSE pin + 16})

GPIO_Toggle(port, pin) ==
    If(<<port, "ODR">>, {pin}, GPIO_Write(port, pin, FALSE),
       GPIO_Write(port, pin, TRUE))

-----------------------------------------------------------------------------
(* rcc.c, nvic.c, exti.c                                                   *)

GPIO_Clock_Init ==
    LET ClockOn(b) == Set(<<"RCC", "AHB1ENR">>, {b})
    IN  ClockOn(0) \o ClockOn(1) \o ClockOn(2) \o ClockOn(3) \o ClockOn(7)

ISER(irqn) == <<"NVIC", <<"ISER0", "ISER1", "ISER2">>[(irqn \div 32) + 1]>>

NVIC_EnableIRQ(irqn) == When(irqn >= 0, Write(ISER(irqn), {irqn % 32}))

\* A trigger is a set of edges.
EXTI_Line_Enable(line, trigger) ==
    Set(<<"EXTI", "IMR">>, {line})
      \o When("rising" \in trigger, Set(<<"EXTI", "RTSR">>, {line}))
      \o When("falling" \in trigger, Set(<<"EXTI", "FTSR">>, {line}))

-----------------------------------------------------------------------------
(* usart.c                                                                 *)

AF7 == {0, 1, 2}
AF8 == {3}

\* The pins of usart.h, and the clock bit and the interrupt of each branch of
\* USART_Init.
Pins(txPort, tx, rxPort, rx, af, enr, clock, irqn) ==
    [txPort |-> txPort, tx |-> tx, rxPort |-> rxPort, rx |-> rx, af |-> af,
     enr |-> <<"RCC", enr>>, clock |-> clock, irqn |-> irqn]

Usart ==
    [USART1 |-> Pins("GPIOA",  9, "GPIOA", 10, AF7, "APB2ENR",  4, 37),
     USART2 |-> Pins("GPIOA",  2, "GPIOA",  3, AF7, "APB1ENR", 17, 38),
     USART3 |-> Pins("GPIOB", 10, "GPIOB", 11, AF7, "APB1ENR", 18, 39),
     UART4  |-> Pins("GPIOA",  0, "GPIOA",  1, AF8, "APB1ENR", 19, 52),
     UART5  |-> Pins("GPIOC", 12, "GPIOD",  2, AF8, "APB1ENR", 20, 53),
     USART6 |-> Pins("GPIOC",  6, "GPIOC",  7, AF8, "APB2ENR",  5, 71)]

\* The divider of the clock in sixteenths, from hundredths of a unit.
UART_DIV_SAMPLING16(pclk, baud)     == (pclk * 25) \div (4 * baud)
UART_DIVMANT_SAMPLING16(pclk, baud) == UART_DIV_SAMPLING16(pclk, baud) \div 100
UART_DIVFRAQ_SAMPLING16(pclk, baud) ==
    ((UART_DIV_SAMPLING16(pclk, baud) % 100) * 16 + 50) \div 100

Bug_NoOverflow(pclk, baud) ==
    UART_DIVMANT_SAMPLING16(pclk, baud) * 16
      + (UART_DIVFRAQ_SAMPLING16(pclk, baud) % 16)

UART_BRR_SAMPLING16(pclk, baud) ==
    LET fraq == UART_DIVFRAQ_SAMPLING16(pclk, baud)
    IN  UART_DIVMANT_SAMPLING16(pclk, baud) * 16
          + ((fraq \div 16) % 16) * 16 + (fraq % 16)

\* CR1: 13 the usart, 3 transmitter, 2 receiver, 6 and 5 their interrupts.
Bug_ResetLast(init) ==
    LET CR1 == <<init.usartx, "CR1">>
    IN  Set(CR1, {13}) \o When(init.transmit_en, Set(CR1, {3}))
          \o Write(CR1, {})

Enable(init) ==
    LET CR1  == <<init.usartx, "CR1">>
        irqn == Usart[init.usartx].irqn
    IN  Write(CR1, {}) \o Write(<<init.usartx, "CR2">>, {})
          \o Write(<<init.usartx, "CR3">>, {})
          \o Set(CR1, {13})
          \o When(init.transmit_en, Set(CR1, {3}))
          \o When(init.receive_en, Set(CR1, {2}))
          \o When(init.transmit_interrupts_en, Set(CR1, {6}) \o NVIC_EnableIRQ(irqn))
          \o When(init.receive_interrupts_en, Set(CR1, {5}) \o NVIC_EnableIRQ(irqn))

USART_Init(init) ==
    LET u == Usart[init.usartx]
        Alternate(port, pin) == GPIO_Set_Mode(port, pin, GPIO_MODE_AF)
                                  \o GPIO_Set_AF(port, pin, u.af)
    IN  Set(u.enr, {u.clock})
          \o Alternate(u.txPort, u.tx) \o Alternate(u.rxPort, u.rx)
          \o Enable(init)
          \o Write(<<init.usartx, "BRR">>,
                   Bits(UART_BRR_SAMPLING16(init.sys_freq, init.baud_rate)))

TXE == 7
TC  == 6

Bug_NoWait(usartx, byte) == Write(<<usartx, "DR">>, byte)

write_byte(usartx, byte) ==
    Write(<<usartx, "DR">>, byte) \o Await(<<usartx, "SR">>, {TC})

USART_Transmit(usartx, buf) ==
    Await(<<usartx, "SR">>, {TXE})
      \o FlattenSeq([i \in DOMAIN buf |-> write_byte(usartx, buf[i])])
=============================================================================
