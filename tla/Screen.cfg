SPECIFICATION RowSpec
CONSTANTS
  NUM_TERMINALS = 2
  NUM_COLS = 3
  NUM_ROWS = 2
  KEYBOARD_BUFFER_SIZE = 4
  Chars = {a}
  Keys = {"char", "enter", "backspace", "left", "right", "ctrl_L"}
  MaxOutput = 3
  Typing = {0}
  MaxDistance = 2
  NUL = NUL
  BLANK = NUL
  NEWLINE = NEWLINE
INVARIANTS
  
  HardwareCursorTruthful
  BackspaceUndoesKey
PROPERTIES
  ScreensSeparate
