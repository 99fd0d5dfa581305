SPECIFICATION Spec
CONSTANTS
  Ports <- MC_HighPorts
  InitStructs <- MC_HighPins
  Messages <- MC_Messages
  SetupCalls <- MC_NoCalls
  MaxSetups = 0
INVARIANT
  ConfiguredAsAsked
