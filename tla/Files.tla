-------------------------------- MODULE Files --------------------------------
(***************************************************************************)
(* The read-only file system and the system calls on file descriptors:     *)
(* read_dentry_by_name, read_dentry_by_index and read_data on the image,   *)
(* sys_open, sys_close, sys_read and sys_write for the current process of  *)
(* every terminal.                                                         *)
(*                                                                         *)
(* A system call runs with interrupts disabled, so each is one action.     *)
(* How the blocking reads of the terminal and of the rtc wait, and writes  *)
(* to the rtc, are the subject of LineDiscipline and VirtualRtc.           *)
(***************************************************************************)
EXTENDS Strings

CONSTANTS
  NUM_TERMINALS,        \* 3 in the code
  FILE_DESC_ARR_SIZE,   \* 8 in the code
  BLOCK_SIZE,           \* _4KB_
  DIR_ENTRIES,          \* 63 in the code
  dir_entries,          \* the image: 0 .. entries - 1 -> dentry
  inode_head,           \*            inode -> [length, datablock_nums]
  data_blocks,          \*            offset into the data blocks -> byte
  Names,                \* the names programs open
  Lengths               \* the nbytes they read

Terminals == 0 .. NUM_TERMINALS - 1
FDs == 0 .. FILE_DESC_ARR_SIZE - 1
entries == Len(dir_entries)

\* The kinds of an entry, which decide the operation table of a descriptor.
FileTypes == {"file", "directory", "rtc"}
Dentries == [file_name : Seq(STRING), file_type : FileTypes, inode : Nat]

ASSUME FilesAssumption ==
  /\ NUM_TERMINALS \in Nat \ {0}
  /\ FILE_DESC_ARR_SIZE \in Nat /\ FILE_DESC_ARR_SIZE >= 2
  /\ \A i \in 1 .. entries : Len(dir_entries[i].file_name) = FILENAME_LEN
  /\ BLOCK_SIZE \in Nat \ {0}
  /\ dir_entries \in Seq(Dentries) /\ entries <= DIR_ENTRIES
  /\ Names \subseteq Seq(STRING) /\ Lengths \subseteq Nat

\* Every entry has a name of its own, every file an inode, and every inode a
\* block of the image for each of its bytes and for the one behind them.
ASSUME ImageAssumption ==
  /\ \A i \in 1 .. entries :
       /\ CString(dir_entries[i].file_name) # << >>
       /\ \A j \in 1 .. entries :
            CString(dir_entries[i].file_name) = CString(dir_entries[j].file_name) => i = j
       /\ dir_entries[i].file_type = "file" => dir_entries[i].inode \in DOMAIN inode_head
  /\ \A inode \in DOMAIN inode_head :
       /\ inode_head[inode].length \in Nat
       /\ \A b \in 0 .. inode_head[inode].length \div BLOCK_SIZE :
            /\ inode_head[inode].datablock_nums[b] \in Nat
            /\ \A r \in 0 .. BLOCK_SIZE - 1 :
                 BLOCK_SIZE * inode_head[inode].datablock_nums[b] + r \in DOMAIN data_blocks

VARIABLES
  file_desc_array,   \* terminal -> descriptor -> the PCB's file_desc_t
  read_dir_flag,     \* terminal -> the next directory entry to read
  ret,               \* terminal -> return value of its last call
  buf,               \* terminal -> what its last read put into its buffer
  printed            \* terminal -> what its program has written to the screen

fvars == <<file_desc_array, read_dir_flag, ret, buf, printed>>

Desc(ops, inode) ==
  [file_ops_table |-> ops, inode |-> inode, file_position |-> 0, flags |-> 1]

Closed == [Desc("none", 0) EXCEPT !.flags = 0]

\* The descriptors _execute_create_PCB gives a process.
NewTable ==
  [fd \in FDs |-> CASE fd = 0 -> Desc("stdin", 0)
                    [] fd = 1 -> Desc("stdout", 0)
                    [] OTHER  -> Closed]

FilesInit ==
  /\ file_desc_array = [t \in Terminals |-> NewTable]
  /\ read_dir_flag = [t \in Terminals |-> 0]
  /\ ret = [t \in Terminals |-> 0]
  /\ buf = [t \in Terminals |-> << >>]
  /\ printed = [t \in Terminals |-> << >>]

-----------------------------------------------------------------------------
(* The file system image.                                                   *)

Matches_AnyLength(fname) ==
  {i \in 1 .. entries : strncmp(fname, dir_entries[i].file_name, FILENAME_LEN)}

\* The entries called fname; the loop takes the first.  The unused entries of
\* the image have empty names, which no fname matches.
Matches(fname) ==
  IF Char(fname, 1) = NUL \/ strlen(fname) > FILENAME_LEN THEN {}
  ELSE {i \in 1 .. entries : strncmp(fname, dir_entries[i].file_name, FILENAME_LEN)}

read_dentry_by_name(fname) ==
  dir_entries[CHOOSE i \in Matches(fname) : \A j \in Matches(fname) : i <= j]

Cursor_Contiguous(inode, offset, length) ==
  LET first == BLOCK_SIZE * inode_head[inode].datablock_nums[offset \div BLOCK_SIZE]
                 + (offset % BLOCK_SIZE)
  IN  [k \in 0 .. length |-> [block |-> offset \div BLOCK_SIZE, cur |-> first + k]]

\* data_block_num and data_cur after k bytes.
Cursor(inode, offset, length) ==
  LET nums == inode_head[inode].datablock_nums
      cursor[k \in 0 .. length] ==
        IF k = 0
          THEN [block |-> offset \div BLOCK_SIZE,
                cur   |-> BLOCK_SIZE * nums[offset \div BLOCK_SIZE]
                            + (offset % BLOCK_SIZE)]
          ELSE LET last == cursor[k - 1]
               IN  IF (last.cur + 1) % BLOCK_SIZE = 0 /\ k < length
                     THEN [block |-> last.block + 1,
                           cur   |-> BLOCK_SIZE * nums[last.block + 1]]
                     ELSE [last EXCEPT !.cur = @ + 1]
  IN  cursor

BeyondEnd_OffByOne(inode, position) == position > inode_head[inode].length + 1

BeyondEnd(inode, position) == position > inode_head[inode].length

\* The loop leaves with bytes_read at the first k that is length or beyond.
BytesRead(inode, offset, length) ==
  CHOOSE k \in 0 .. length :
    /\ k = length \/ BeyondEnd(inode, k + offset)
    /\ \A j \in 0 .. k - 1 : ~BeyondEnd(inode, j + offset)

read_data(inode, offset, length) ==
  [i \in 1 .. BytesRead(inode, offset, length) |->
     data_blocks[Cursor(inode, offset, length)[i - 1].cur]]

-----------------------------------------------------------------------------
(* The system calls.                                                        *)

Active(t, fd) == fd \in FDs /\ file_desc_array[t][fd].flags = 1

\* Which of the operation tables an active descriptor dispatches to.
Ops(t, fd) == IF Active(t, fd) THEN file_desc_array[t][fd].file_ops_table ELSE "none"

Returns(t, val) == ret' = [ret EXCEPT ![t] = val]

\* -1 for a descriptor out of range or not active.
BadDescriptor(t) ==
  /\ Returns(t, -1)
  /\ UNCHANGED <<file_desc_array, read_dir_flag, buf, printed>>

_sys_open_file_Short(filename) ==
  LET file == Cut(CString(filename), FILENAME_LEN - 1)
  IN  IF Matches(file) = {} THEN -1 ELSE read_dentry_by_name(file).inode

\* Looks the name up once more, in a copy.  The NUL of a name of FILENAME_LEN
\* characters is behind the copy's array, in a local variable not yet in use.
_sys_open_file(filename) ==
  LET file == Cut(CString(filename), FILENAME_LEN)
  IN  IF Matches(file) = {} THEN -1 ELSE read_dentry_by_name(file).inode

\* Directories and the rtc have no inode of their own.
InodeOf(dentry, filename) ==
  IF dentry.file_type = "file" THEN _sys_open_file(filename) ELSE 0

FreeFDs_OffByOne(t) ==
  {fd \in 2 .. FILE_DESC_ARR_SIZE - 2 : file_desc_array[t][fd].flags # 1}

FreeFDs(t) == {fd \in 2 .. FILE_DESC_ARR_SIZE - 1 : file_desc_array[t][fd].flags # 1}

OpenFails(t, name) ==
  /\ FreeFDs(t) = {} \/ Matches(name) = {}
  /\ Returns(t, -1)
  /\ UNCHANGED <<file_desc_array, read_dir_flag, buf, printed>>

OpenSucceeds(t, name) ==
  /\ FreeFDs(t) # {} /\ Matches(name) # {}
  /\ LET fd     == CHOOSE f \in FreeFDs(t) : \A g \in FreeFDs(t) : f <= g
         dentry == read_dentry_by_name(name)
     IN  /\ file_desc_array' = [file_desc_array EXCEPT
                                  ![t][fd] = Desc(dentry.file_type, InodeOf(dentry, name))]
         /\ Returns(t, fd)
  /\ UNCHANGED <<read_dir_flag, buf, printed>>

sys_open(t, name) == OpenFails(t, name) \/ OpenSucceeds(t, name)

sys_close_All(t, fd) ==
  IF Active(t, fd) /\ fd >= 2
    THEN /\ file_desc_array' = [file_desc_array EXCEPT
                                  ![t] = [g \in FDs |-> [@[g] EXCEPT !.flags = 0]]]
         /\ Returns(t, 0)
         /\ UNCHANGED <<read_dir_flag, buf, printed>>
    ELSE BadDescriptor(t)

\* flags is cleared and the rest of the descriptor stays; the close functions
\* of files, directories and the rtc all return 0.
sys_close(t, fd) ==
  IF Active(t, fd) /\ fd >= 2
    THEN /\ file_desc_array' = [file_desc_array EXCEPT ![t][fd].flags = 0]
         /\ Returns(t, 0)
         /\ UNCHANGED <<read_dir_flag, buf, printed>>
    ELSE BadDescriptor(t)

ReadFile_StopsAtEnd(t, fd, nbytes) ==
  LET desc == file_desc_array[t][fd]
      data == read_data(desc.inode, desc.file_position, nbytes)
      size == inode_head[desc.inode].length
  IN  /\ Ops(t, fd) = "file" /\ nbytes > 0
      /\ file_desc_array' = [file_desc_array EXCEPT
           ![t][fd].file_position = IF @ + Len(data) > size THEN size ELSE @ + Len(data)]
      /\ buf' = [buf EXCEPT ![t] = data]
      /\ Returns(t, Len(data))
      /\ UNCHANGED <<read_dir_flag, printed>>

ReadFile(t, fd, nbytes) ==
  LET desc == file_desc_array[t][fd]
      data == read_data(desc.inode, desc.file_position, nbytes)
  IN  /\ Ops(t, fd) = "file" /\ nbytes > 0
      /\ file_desc_array' = [file_desc_array EXCEPT
                               ![t][fd].file_position = @ + Len(data)]
      /\ buf' = [buf EXCEPT ![t] = data]
      /\ Returns(t, Len(data))
      /\ UNCHANGED <<read_dir_flag, printed>>

ReadDirectory_KeepsEnd(t, fd, nbytes) ==
  /\ Ops(t, fd) = "directory" /\ nbytes > 0
  /\ IF read_dir_flag[t] >= entries
       THEN Returns(t, 0) /\ UNCHANGED <<read_dir_flag, buf>>
       ELSE /\ read_dir_flag' = [read_dir_flag EXCEPT ![t] = @ + 1]
            /\ buf' = [buf EXCEPT ![t] = dir_entries[read_dir_flag[t] + 1].file_name]
            /\ Returns(t, FILENAME_LEN)
  /\ UNCHANGED <<file_desc_array, printed>>

\* The next name, whatever nbytes is; behind the last, 0 and from the start.
ReadDirectory(t, fd, nbytes) ==
  /\ Ops(t, fd) = "directory" /\ nbytes > 0
  /\ IF read_dir_flag[t] >= entries
       THEN /\ read_dir_flag' = [read_dir_flag EXCEPT ![t] = 0]
            /\ Returns(t, 0)
            /\ UNCHANGED buf
       ELSE /\ read_dir_flag' = [read_dir_flag EXCEPT ![t] = @ + 1]
            /\ buf' = [buf EXCEPT ![t] = strncpy(dir_entries[read_dir_flag[t] + 1].file_name,
                                                 FILENAME_LEN)]
            /\ Returns(t, FILENAME_LEN)
  /\ UNCHANGED <<file_desc_array, printed>>

\* Waits for the clock and leaves the buffer alone.
ReadRtc(t, fd, nbytes) ==
  /\ Ops(t, fd) = "rtc" /\ nbytes > 0
  /\ Returns(t, 0)
  /\ UNCHANGED <<file_desc_array, read_dir_flag, buf, printed>>

\* A bad argument, or _sys_dummy_read on stdout.
ReadFails(t, fd, nbytes) ==
  /\ nbytes <= 0 \/ Ops(t, fd) \in {"none", "stdout"}
  /\ BadDescriptor(t)

sys_read(t, fd, nbytes) ==
  \/ ReadFile(t, fd, nbytes) \/ ReadDirectory(t, fd, nbytes)
  \/ ReadRtc(t, fd, nbytes) \/ ReadFails(t, fd, nbytes)

\* What is left of s without the elements of S, as a recursive function, which
\* proofs can unfold.
Without(s, S) ==
  LET left[n \in 0 .. Len(s)] ==
        IF n = 0 THEN << >>
        ELSE IF s[n] \in S THEN left[n - 1] ELSE Append(left[n - 1], s[n])
  IN  left[Len(s)]

Shown(data) == Without(data, {NUL})

\* _sys_write_terminal prints all but NULs and returns how many.
WriteTerminal(t, fd, data) ==
  LET shown == Shown(data)
  IN  /\ Ops(t, fd) = "stdout" /\ data # << >>
      /\ printed' = [printed EXCEPT ![t] = @ \o shown]
      /\ Returns(t, Len(shown))
      /\ UNCHANGED <<file_desc_array, read_dir_flag, buf>>

\* Files, directories and stdin reject every write; nothing is stored.
WriteFails(t, fd, data) ==
  /\ data = << >> \/ Ops(t, fd) \notin {"stdout", "rtc"}
  /\ BadDescriptor(t)

sys_write(t, fd, data) == WriteTerminal(t, fd, data) \/ WriteFails(t, fd, data)

\* sys_halt closes all descriptors; the terminal's next program has a table of
\* its own, with what the flags of a clean slot leave open.
CloseAll(t) == file_desc_array' = [file_desc_array EXCEPT ![t] = NewTable]

-----------------------------------------------------------------------------
\* Any call of a program.
FilesCall(t) ==
  \/ \E name \in Names : sys_open(t, name)
  \/ \E fd \in -1 .. FILE_DESC_ARR_SIZE :
       \/ sys_close(t, fd)
       \/ \E n \in Lengths : sys_read(t, fd, n)
       \/ \E data \in {<< >>, <<NUL>>} : sys_write(t, fd, data)

FilesNext == \E t \in Terminals : FilesCall(t)

FilesSpec == FilesInit /\ [][FilesNext]_fvars

-----------------------------------------------------------------------------
\* The bytes of a file, block after block: the definition the loop of read_data
\* is checked against.
Contents(inode) ==
  [i \in 1 .. inode_head[inode].length |->
     data_blocks[BLOCK_SIZE * inode_head[inode].datablock_nums[(i - 1) \div BLOCK_SIZE]
                   + ((i - 1) % BLOCK_SIZE)]]

\* A read returns the bytes of the file that follow the last read of the same
\* descriptor, all that were asked for if the file has them, across any number
\* of blocks, whatever other descriptors and processes read in between, and at
\* most the one byte behind the end that read_data adds.
ReadsAreConsecutive ==
  [][\A t \in Terminals, fd \in FDs, n \in Lengths :
       ReadFile(t, fd, n) =>
         LET desc == file_desc_array[t][fd]
             left == inode_head[desc.inode].length - desc.file_position
             want == IF left < 0 THEN 0 ELSE IF n <= left THEN n ELSE left
         IN  /\ want <= ret'[t] /\ ret'[t] <= left + 1
             /\ \A i \in 1 .. want :
                  buf'[t][i] = Contents(desc.inode)[desc.file_position + i]]_fvars

\* No call disturbs a descriptor other than the one it names.
DescriptorsIndependent ==
  [][\A t \in Terminals, fd \in FDs :
       file_desc_array'[t][fd] # file_desc_array[t][fd] =>
         \/ CloseAll(t)
         \/ \A u \in Terminals, g \in FDs :
              <<u, g>> # <<t, fd>> => file_desc_array'[u][g] = file_desc_array[u][g]]_fvars
=============================================================================
