SPECIFICATION Spec
CONSTANTS
  NUM_TERMINALS = 2
  MAX_NUM_PROCESSES = 3
  FILE_DESC_ARR_SIZE = 4
  Programs = {shell, fish}
  Shell = shell
  Launchers = {shell}
  VidmapUsers = {fish}
  Statuses = {0}
  Exceptions = {14}
  NULL = NULL
  BOOT = BOOT
  LOST = LOST
  VIDEO = VIDEO
  shell = shell
  fish = fish
INVARIANTS
  TypeOK
  TableConsistency
  FreeSlotsAreClean
  TooManyFlagTruthful
CHECK_DEADLOCK FALSE
