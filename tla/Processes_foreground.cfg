SPECIFICATION FairForegroundSpec
CONSTANTS
  NUM_TERMINALS = 3
  MAX_NUM_PROCESSES = 5
  FILE_DESC_ARR_SIZE = 2
  Programs = {shell, fish}
  Shell = shell
  Launchers = {shell}
  VidmapUsers = {fish}
  Statuses = {0}
  Exceptions = {}
  NULL = NULL
  BOOT = BOOT
  LOST = LOST
  VIDEO = VIDEO
  shell = shell
  fish = fish
INVARIANTS
  CpuOwnership
  ContextsResumable
  FlagsDescribeCurrent
PROPERTIES
  OthersUntouched
  
  ImplementsTerminalStacks
  EveryTerminalRuns
