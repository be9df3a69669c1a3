SPECIFICATION PoliteSpec
CONSTANTS
  NUM_TERMINALS = 2
  KEYBOARD_BUFFER_SIZE = 3
  Chars = {a}
  EditKeys = {"enter", "left", "ctrl_L"}
  ReadSizes = {3}
  MaxDistance = 3
  NUL = NUL
  NEWLINE = NEWLINE
  BLANK = BLANK
PROPERTIES
  
  EchoIffStored
