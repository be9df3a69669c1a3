SPECIFICATION UserSpec
CONSTANTS
  NUM_TERMINALS = 2
  FILE_DESC_ARR_SIZE = 4
  FILENAME_LEN = 4
  BLOCK_SIZE = 2
  DIR_ENTRIES = 12
  KEYBOARD_BUFFER_SIZE = 8
  MAX_NUM_PROCESSES = 4
  BUFSIZE = 3
  dir_entries <- Image_dir_entries
  inode_head <- Image_inode_head
  data_blocks <- Image_data_blocks
  Names <- OpenedNames
  Lengths = {0, 3}
  Lines <- TypedLines
  Main <- MainOf
  ELF <- Elf
  WrongNames <- Wrong
  ParserChars <- LineChars
INVARIANTS
  
  LookupExact
  ListingComplete
  CatPrintsFile
  SysErrPasses
PROPERTIES
  
  
  ShellReturns
