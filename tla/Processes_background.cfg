SPECIFICATION BackgroundSpec
CONSTANTS
  NUM_TERMINALS = 3
  MAX_NUM_PROCESSES = 4
  FILE_DESC_ARR_SIZE = 2
  Programs = {shell, fish}
  Shell = shell
  Launchers = {shell}
  VidmapUsers = {}
  Statuses = {0}
  Exceptions = {}
  NULL = NULL
  BOOT = BOOT
  LOST = LOST
  VIDEO = VIDEO
  shell = shell
  fish = fish
INVARIANTS
  ProcessTerminalTruthful
CHECK_DEADLOCK FALSE
