-------------------------------- MODULE MC_Hal --------------------------------
(* Small instances of Hal for TLC. *)
EXTENDS Hal
Struct(usartx, baud, interrupts) ==
    [usartx |-> usartx, sys_freq |-> 16000000, baud_rate |-> baud,
     transmit_en |-> TRUE, receive_en |-> interrupts,
     transmit_interrupts_en |-> FALSE, receive_interrupts_en |-> interrupts]

\* With 334000 baud the fraction of the divider rounds up to a whole.
MC_Ports       == {"GPIOA", "GPIOC"}
MC_InitStructs == {Struct("USART2", 9600, FALSE), Struct("USART6", 334000, TRUE)}
MC_Messages    == {<<"a", "b">>}

\* Fields that were something else before, and the highest pins and lines.
MC_SetupCalls ==
    {SetMode("GPIOA", 9, GPIO_MODE_INPUT),
     PinInit([gpiox |-> "GPIOC", pin |-> 7, pin_mode |-> GPIO_MODE_AF,
              output_type |-> {0}, output_speed |-> {0}, pull |-> {},
              alternate_function |-> {0, 1}]),
     SetOutputSpeed("GPIOC", 7, {1}), SetPull("GPIOC", 15, {1}),
     LineEnable(13, {"rising", "falling"})}

\* A USART on pins above 7.
MC_HighPorts == {"GPIOA", "GPIOB"}
MC_HighPins  == {Struct("USART3", 115200, FALSE)}
MC_NoCalls  == {}
=============================================================================
