SPECIFICATION LineSpec
CONSTANTS
  NUM_TERMINALS = 1
  KEYBOARD_BUFFER_SIZE = 3
  Chars = {a, b}
  EditKeys = {"enter", "left", "ctrl_L"}
  ReadSizes = {3}
  MaxDistance = 3
  NUL = NUL
  NEWLINE = NEWLINE
  BLANK = BLANK
PROPERTIES
  ClearKeepsLine
