SPECIFICATION Spec
CONSTANTS
  Ports <- MC_Ports
  InitStructs <- MC_InitStructs
  Messages <- MC_Messages
  SetupCalls <- MC_SetupCalls
  MaxSetups = 2
INVARIANTS
  ConfiguredAsAsked
  OutputsAsWritten
  BytesInOrder
  BaudRateRight
PROPERTY
  TransmitReturns
