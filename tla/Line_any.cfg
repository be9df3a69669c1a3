SPECIFICATION LineSpec
CONSTANTS
  NUM_TERMINALS = 1
  KEYBOARD_BUFFER_SIZE = 2
  Chars = {a}
  EditKeys = {"enter", "backspace", "left", "right", "up", "down", "ctrl_L"}
  ReadSizes = {2}
  MaxDistance = 2
  NUL = NUL
  NEWLINE = NEWLINE
  BLANK = BLANK

  
PROPERTIES
  EnterWakesReader
CHECK_DEADLOCK FALSE
