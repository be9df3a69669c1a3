SPECIFICATION RtcSpec
CONSTANTS
  NUM_TERMINALS = 2
  MAX_INTERRUPT_FREQUENCY = 4
  Frequencies <- PositiveFrequencies
INVARIANTS
  RtcTypeOK
  WaitIsExact
PROPERTIES
  AcceptsPowersOfTwo
  EveryReadReturns
  EveryWriteReturns
