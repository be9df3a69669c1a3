SPECIFICATION FairInterruptsSpec
CONSTANTS
  NUM_TERMINALS = 2
  Devices = {0, 1, 8, 12}
  Numbers = {0, 1, 2, 3, 4, 11}
  Results = {0, 1}
  MaxPrograms = 1
  BOOT = BOOT
INVARIANTS
  AcknowledgedInTime
  ProgramsInterruptible
  ResultIsOwn
  KernelStackBounded

  
