SPECIFICATION RtcSpec
CONSTANTS
  NUM_TERMINALS = 2
  MAX_INTERRUPT_FREQUENCY = 4
  Frequencies <- WithNegative
PROPERTIES
  EveryWriteReturns
