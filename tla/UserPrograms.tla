----------------------------- MODULE UserPrograms -----------------------------
(***************************************************************************)
(* The programs of syscalls/ at work on the kernel's files: the shell of   *)
(* every terminal, which reads lines and executes them, and the programs   *)
(* it starts: cat, ls, grep, syserr, and one that makes any calls.         *)
(*                                                                         *)
(* A program is the sequence of its system calls; what it computes between *)
(* two of them decides which is next.  Programs of different terminals     *)
(* interleave between their calls.  A terminal's programs use the state of *)
(* the module Files one after the other: a shell opens nothing, so its own *)
(* descriptors are those of a new process whenever it runs.                *)
(*                                                                         *)
(* Commands are executed on the terminal they are typed on; Processes      *)
(* treats the other case.                                                  *)
(***************************************************************************)
EXTENDS Files, Arguments, SequencesExt

CONSTANTS
  Lines,        \* terminal -> the lines its user types
  Main,         \* name of an executable file -> the program in it
  ELF,          \* the bytes every executable starts with
  BUFSIZE,      \* what cat reads at a time, 1024 in the code
  WrongNames,   \* the names err_open of syserr tries
  MAX_NUM_PROCESSES   \* 6 in the code

Name(i) == CString(dir_entries[i].file_name)

ASSUME UserProgramsAssumption ==
  /\ \A t \in Terminals : Lines[t] # {} /\ Lines[t] \subseteq Seq(STRING)
  /\ \A t \in Terminals : \A line \in Lines[t] :   \* what the keyboard driver delivers
       Len(line) <= KEYBOARD_BUFFER_SIZE /\ \A i \in 1 .. Len(line) : line[i] # NUL
  /\ WrongNames \in Seq(Seq(STRING))
  /\ DOMAIN Main \subseteq {Name(i) : i \in 1 .. entries}
  /\ BUFSIZE \in Nat \ {0} /\ MAX_NUM_PROCESSES \in Nat

\* What the programs take for granted: the image has a directory, ".", no name
\* that does not start with a dot is a directory's, err_open's names are names of
\* no file, and grep can have the directory and a file open.
ASSUME ImageOfProgramsAssumption ==
  /\ \E i \in 1 .. entries :
       Name(i) = <<".">> /\ dir_entries[i].file_type = "directory"
  /\ \A i \in 1 .. entries : dir_entries[i].file_type = "directory" =>
       Name(i)[1] = "." /\ \A name \in Names : CString(name) # Name(i)
  /\ \A i \in 1 .. entries, k \in DOMAIN WrongNames : CString(WrongNames[k]) # Name(i)
  /\ FILE_DESC_ARR_SIZE >= 4

VARIABLES
  proc,             \* terminal -> program, next call and local variables
  shells,           \* terminal -> shells that wait for the one that runs
  argument_array,   \* terminal -> argument of the running program
  arg_flag,         \* terminal -> whether it has one
  too_many_shells_flag

kernelVars == <<shells, argument_array, arg_flag, too_many_shells_flag>>
uvars == <<fvars, proc, kernelVars>>

Process(program, pc) ==
  [program |-> program, pc |-> pc, fd |-> 0, file |-> 0, searched |-> << >>,
   calls |-> 0, cnt |-> 0, fail |-> FALSE]

Start(program) == Process(program, IF program = "shell" THEN "prompt" ELSE "start")

NoArgument == strncpy(<< >>, KEYBOARD_BUFFER_SIZE)

UserInit ==
  /\ FilesInit
  /\ proc = [t \in Terminals |-> Start("shell")]
  /\ shells = [t \in Terminals |-> 0]
  /\ argument_array = [t \in Terminals |-> NoArgument]
  /\ arg_flag = [t \in Terminals |-> 0]
  /\ too_many_shells_flag = 0

At(t, program, pc) == proc[t].program = program /\ proc[t].pc = pc
Goto(t, pc) == proc' = [proc EXCEPT ![t].pc = pc]

-----------------------------------------------------------------------------
(* execute, halt and getargs.                                               *)

Executable(name) ==
  /\ Matches(name) # {}
  /\ LET dentry == read_dentry_by_name(name)
     IN  /\ dentry.file_type = "file"
         /\ strncmp(ELF, read_data(dentry.inode, 0, BLOCK_SIZE), Len(ELF))

\* One process runs on every terminal, the shells below wait.
SlotsUsed == NUM_TERMINALS + MapThenSumSet(LAMBDA t : shells[t], Terminals)

\* The name is followed by no NUL if it has FILENAME_LEN characters, and strlen
\* then counts what the stack holds behind it.
ExecuteFails(t) ==
  LET parsed == _execute_parse_args(buf[t])
      none   == ~Executable(parsed.prog_name) \/ Len(parsed.prog_name) = FILENAME_LEN
      full   == Executable(parsed.prog_name) /\ SlotsUsed >= MAX_NUM_PROCESSES
  IN  /\ \/ (parsed.ret = -1 \/ none) /\ UNCHANGED too_many_shells_flag
         \/ parsed.ret # -1 /\ full /\ too_many_shells_flag' = 1
      /\ Returns(t, -1)
      /\ arg_flag' = [arg_flag EXCEPT ![t] = CASE parsed.ret = -1 -> @
                                               [] parsed.ret = -2 -> 0
                                               [] OTHER -> 1]
      /\ Goto(t, "reply")
      /\ UNCHANGED <<file_desc_array, read_dir_flag, buf, printed, shells, argument_array>>

ExecuteStarts(t) ==
  LET parsed == _execute_parse_args(buf[t])
  IN  /\ parsed.ret # -1 /\ Executable(parsed.prog_name)
      /\ SlotsUsed < MAX_NUM_PROCESSES
      /\ CloseAll(t)
      /\ shells' = [shells EXCEPT ![t] = @ + 1]
      /\ argument_array' = [argument_array EXCEPT
                              ![t] = strncpy(parsed.arg, KEYBOARD_BUFFER_SIZE)]
      /\ arg_flag' = [arg_flag EXCEPT ![t] = IF parsed.ret = -2 THEN 0 ELSE 1]
      /\ proc' = [proc EXCEPT ![t] = Start(Main[parsed.prog_name])]
      /\ buf' = [buf EXCEPT ![t] = << >>]
      /\ printed' = [printed EXCEPT ![t] = << >>]
      /\ Returns(t, 0)
      /\ UNCHANGED <<read_dir_flag, too_many_shells_flag>>

\* The return of main: the parent's execute returns the status, or a new base
\* shell is executed, without argument.  For the parent, a shell that asks for
\* no argument, arg_flag keeps what it says of the program that ended.
sys_halt(t) ==
  /\ proc[t].pc \in {"return 0", "return 3"}
  /\ CloseAll(t)
  /\ IF shells[t] = 0
       THEN /\ proc' = [proc EXCEPT ![t] = Start("shell")]
            /\ Returns(t, 0)
            /\ arg_flag' = [arg_flag EXCEPT ![t] = 0]
            /\ UNCHANGED shells
       ELSE /\ proc' = [proc EXCEPT ![t] = Process("shell", "reply")]
            /\ Returns(t, IF proc[t].pc = "return 0" THEN 0 ELSE 3)
            /\ shells' = [shells EXCEPT ![t] = @ - 1]
            /\ UNCHANGED arg_flag
  /\ buf' = [buf EXCEPT ![t] = << >>]
  /\ printed' = [printed EXCEPT ![t] = << >>]
  /\ argument_array' = [argument_array EXCEPT ![t] = NoArgument]
  /\ too_many_shells_flag' = 0
  /\ UNCHANGED read_dir_flag

\* nbytes is not looked at.
sys_getargs(t) ==
  /\ IF arg_flag[t] = 0
       THEN Returns(t, -1) /\ UNCHANGED buf
       ELSE Returns(t, 0) /\ buf' = [buf EXCEPT ![t] = argument_array[t]]
  /\ UNCHANGED <<file_desc_array, read_dir_flag, printed>>

-----------------------------------------------------------------------------
(* The shell.                                                               *)

Exit == <<"e", "x", "i", "t">>

\* The prompt, the line from the keyboard, its newline replaced by a NUL.
ShellReads(t, line) ==
  /\ At(t, "shell", "prompt")
  /\ buf' = [buf EXCEPT ![t] = line]
  /\ Returns(t, Len(line) + 1)
  /\ Goto(t, CASE line = Exit -> "return 0"
               [] line = << >> -> "prompt"
               [] OTHER -> "execute")
  /\ UNCHANGED <<file_desc_array, read_dir_flag, printed, kernelVars>>

ShellExecutes(t) ==
  /\ At(t, "shell", "execute")
  /\ ExecuteFails(t) \/ ExecuteStarts(t)

\* A message for every result but 0, replaced by the kernel if the flag is up.
ShellReplies(t) ==
  /\ At(t, "shell", "reply")
  /\ printed' = [printed EXCEPT ![t] =
       CASE ret[t] = 0  -> << >>
         [] ret[t] = -1 -> <<IF too_many_shells_flag = 1 THEN "too many processes"
                                                         ELSE "no such command">>
         [] OTHER       -> <<"program terminated abnormally">>]
  /\ Returns(t, 0)
  /\ buf' = [buf EXCEPT ![t] = << >>]
  /\ Goto(t, "prompt")
  /\ UNCHANGED <<file_desc_array, read_dir_flag, kernelVars>>

-----------------------------------------------------------------------------
(* The other programs.                                                      *)

\* The message of a program that gives up.  The statuses 2 and 3 are not told
\* apart: the shell replies to both the same way.
Complain(t) ==
  /\ proc[t].pc = "complain"
  /\ sys_write(t, 1, <<"message">>)
  /\ Goto(t, "return 3")
  /\ UNCHANGED kernelVars

CatArgs(t) ==
  /\ At(t, "cat", "start")
  /\ sys_getargs(t)
  /\ Goto(t, IF ret'[t] = 0 THEN "open" ELSE "complain")
  /\ UNCHANGED kernelVars

CatOpen(t) ==
  /\ At(t, "cat", "open")
  /\ sys_open(t, buf[t])
  /\ proc' = [proc EXCEPT ![t].fd = ret'[t],
                          ![t].pc = IF ret'[t] = -1 THEN "complain" ELSE "read"]
  /\ UNCHANGED kernelVars

CatRead(t) ==
  /\ At(t, "cat", "read")
  /\ sys_read(t, proc[t].fd, BUFSIZE)
  /\ Goto(t, CASE ret'[t] = 0  -> "return 0"
               [] ret'[t] = -1 -> "complain"
               [] OTHER        -> "write")
  /\ UNCHANGED kernelVars

CatWrite(t) ==
  /\ At(t, "cat", "write")
  /\ sys_write(t, 1, buf[t])
  /\ Goto(t, IF ret'[t] = -1 THEN "return 3" ELSE "read")
  /\ UNCHANGED kernelVars

cat(t) == CatArgs(t) \/ CatOpen(t) \/ CatRead(t) \/ CatWrite(t)

OpenDirectory(t, program, pc) ==
  /\ At(t, program, pc)
  /\ sys_open(t, <<".">>)
  /\ proc' = [proc EXCEPT ![t].fd = ret'[t],
                          ![t].pc = IF ret'[t] = -1 THEN "complain" ELSE "next"]
  /\ UNCHANGED kernelVars

NextEntry(t, program, found) ==
  /\ At(t, program, "next")
  /\ sys_read(t, proc[t].fd, FILENAME_LEN)
  /\ Goto(t, CASE ret'[t] = 0  -> "return 0"
               [] ret'[t] = -1 -> "complain"
               [] OTHER        -> found)
  /\ UNCHANGED kernelVars

\* buf[cnt] = '\n' and cnt + 1 bytes.
LsWrite(t) ==
  /\ At(t, "ls", "write")
  /\ sys_write(t, 1, SubSeq(buf[t], 1, ret[t]) \o <<NEWLINE>>)
  /\ Goto(t, IF ret'[t] = -1 THEN "return 3" ELSE "next")
  /\ UNCHANGED kernelVars

ls(t) == OpenDirectory(t, "ls", "start") \/ NextEntry(t, "ls", "write") \/ LsWrite(t)

GrepArgs(t) ==
  /\ At(t, "grep", "start")
  /\ sys_getargs(t)
  /\ Goto(t, IF ret'[t] = 0 THEN "open" ELSE "complain")
  /\ UNCHANGED kernelVars

\* Names that start with a dot are left out; do_one_file searches the others.
GrepOpenFile(t) ==
  /\ At(t, "grep", "file")
  /\ IF buf[t][1] = "."
       THEN Goto(t, "next") /\ UNCHANGED fvars
       ELSE /\ sys_open(t, buf[t] \o <<NUL>>)
            /\ proc' = [proc EXCEPT
                 ![t].file = ret'[t],
                 ![t].searched = Append(@, CString(buf[t])),
                 ![t].pc = IF ret'[t] = -1 THEN "complain" ELSE "search"]
  /\ UNCHANGED kernelVars

\* BUFSIZE - last bytes, last being what is left of a line; which lines match
\* is left out.
GrepReadFile(t) ==
  /\ At(t, "grep", "search")
  /\ sys_read(t, proc[t].file, BUFSIZE)
  /\ Goto(t, CASE ret'[t] = 0  -> "close"
               [] ret'[t] = -1 -> "complain"
               [] OTHER        -> "search")
  /\ UNCHANGED kernelVars

GrepCloseFile(t) ==
  /\ At(t, "grep", "close")
  /\ sys_close(t, proc[t].file)
  /\ Goto(t, IF ret'[t] = -1 THEN "complain" ELSE "next")
  /\ UNCHANGED kernelVars

grep(t) ==
  \/ GrepArgs(t) \/ OpenDirectory(t, "grep", "open") \/ NextEntry(t, "grep", "file")
  \/ GrepOpenFile(t) \/ GrepReadFile(t) \/ GrepCloseFile(t)

\* The calls of syserr's tests 1 to 5 and 7, in order.
Open(name)  == [call |-> "open",  name |-> name, fd |-> 0]
Close(fd)   == [call |-> "close", name |-> << >>, fd |-> fd]
Read(fd)    == [call |-> "read",  name |-> << >>, fd |-> fd]
Write(fd)   == [call |-> "write", name |-> << >>, fd |-> fd]
Each(call(_), from) == [i \in 1 .. FILE_DESC_ARR_SIZE - from |-> call(from + i - 1)]
BadFd(fd) == <<Read(fd), Write(fd), Close(fd)>>

OpenLots == [i \in 1 .. FILE_DESC_ARR_SIZE - 1 |-> Open(<<".">>)]
CloseLots == Each(Close, 2)
FailingCalls ==
  [i \in DOMAIN WrongNames |-> Open(WrongNames[i])]
    \o Each(Close, 0) \o Each(Read, 2) \o Each(Write, 2) \o <<Write(0), Read(1)>>
SysErrCalls ==
  BadFd(-1) \o BadFd(FILE_DESC_ARR_SIZE) \o OpenLots \o CloseLots \o FailingCalls

\* Whether call i is one of err_open_lots, which counts the opens that fail and
\* ignores what close returns; the others have to fail.
InOpenLots(i) == i \in 7 .. 6 + Len(OpenLots) + Len(CloseLots)

SysErrCall(t) ==
  LET i == proc[t].calls + 1
      c == SysErrCalls[i]
  IN  /\ At(t, "syserr", "start") /\ i <= Len(SysErrCalls)
      /\ CASE c.call = "open"  -> sys_open(t, c.name)
           [] c.call = "close" -> sys_close(t, c.fd)
           [] c.call = "read"  -> sys_read(t, c.fd, FILENAME_LEN - 1)
           [] c.call = "write" -> sys_write(t, c.fd, <<NUL>>)
      /\ proc' = [proc EXCEPT
           ![t].calls = i,
           ![t].cnt = IF InOpenLots(i) /\ c.call = "open" /\ ret'[t] = -1 THEN @ + 1 ELSE @,
           ![t].fail = @ \/ (~InOpenLots(i) /\ ret'[t] # -1),
           ![t].pc = IF i = Len(SysErrCalls) THEN "return 0" ELSE @]
      /\ UNCHANGED kernelVars

\* A program of which only the calls matter.  Names has no directory: one that
\* stops reading the directory halfway leaves its position to the next program.
AnyCall(t) ==
  /\ At(t, "any", "start")
  /\ \/ FilesCall(t) /\ UNCHANGED proc
     \/ Goto(t, "return 0") /\ UNCHANGED fvars
  /\ UNCHANGED kernelVars

-----------------------------------------------------------------------------
\* What a program does once its user has typed.
Running(t) ==
  \/ ShellExecutes(t) \/ ShellReplies(t) \/ sys_halt(t) \/ Complain(t)
  \/ cat(t) \/ ls(t) \/ grep(t) \/ SysErrCall(t)

UserNext ==
  \E t \in Terminals :
    Running(t) \/ AnyCall(t) \/ \E line \in Lines[t] : ShellReads(t, line)

WaitsForUser(t) == At(t, "shell", "prompt") \/ proc[t].program = "any"

\* Every terminal's program gets the CPU again and again, and the clock ticks:
\* weak fairness of Running(t), which is enabled unless the program waits.
UserSpec ==
  /\ UserInit /\ [][UserNext]_uvars
  /\ \A t \in Terminals : []<>WaitsForUser(t) \/ []<><<Running(t)>>_uvars

-----------------------------------------------------------------------------
\* Every line that fits the line buffer, and every line a shell executes, is
\* split the way its user reads it, whatever blanks and newlines it has.
ParserSplitsLine ==
  LET executed == {buf[t] : t \in {u \in Terminals : At(u, "shell", "execute")}}
  IN  Misread \cup {line \in executed : ~ReadsRight(line)} = {}

\* Whether name is looked up as if names were compared as a whole.
FoundRight(name) ==
  LET called == {i \in 1 .. entries : CString(dir_entries[i].file_name) = name}
  IN  /\ Matches(name) = IF name = << >> THEN {} ELSE called
      /\ \A i \in called :
           /\ read_dentry_by_name(name) = dir_entries[i]
           /\ dir_entries[i].file_type = "file" =>
                _sys_open_file(name) = dir_entries[i].inode

Misfound == {name \in Over(ParserChars, FILENAME_LEN + 1) : ~FoundRight(name)}

\* open and execute find the file with exactly the name they are given, up to
\* names that fill their directory entry, what cat and grep take from users and
\* from the directory included; the second lookup of open finds the same file.
LookupExact ==
  LET opened == {CString(buf[t]) : t \in {u \in Terminals :
                                           At(u, "cat", "open") \/ At(u, "grep", "file")}}
  IN  Misfound \cup {name \in opened : ~FoundRight(name)} = {}

\* ls prints every file once and in order, and grep searches every file but the
\* directory, although the position in the directory is shared by all programs
\* of a terminal, one after the other.
ListingComplete ==
  \A t \in Terminals :
    /\ At(t, "ls", "return 0") =>
         printed[t] = FlattenSeq([i \in 1 .. entries |-> Name(i) \o <<NEWLINE>>])
    /\ At(t, "grep", "return 0") =>
         proc[t].searched = Without([i \in 1 .. entries |-> Name(i)],
                                    {Name(i) : i \in {j \in 1 .. entries : Name(j)[1] = "."}})

\* cat prints exactly the file its argument names, whichever blocks it is in,
\* but for the one byte behind its end.
CatPrintsFile ==
  \A t \in Terminals :
    LET name == CString(argument_array[t])
    IN  At(t, "cat", "return 0") =>
          /\ Matches(name) # {}
          /\ read_dentry_by_name(name).file_type = "file" =>
               LET text == Shown(Contents(read_dentry_by_name(name).inode))
               IN  printed[t] = text
                   \/ \E c \in {data_blocks[a] : a \in DOMAIN data_blocks} :
                        printed[t] = Append(text, c)

\* Six of syserr's tests pass on every terminal, whatever other programs do at
\* the same time and have done before.
SysErrPasses ==
  \A t \in Terminals :
    At(t, "syserr", "return 0") => ~proc[t].fail /\ proc[t].cnt = 1

\* Whatever is typed, the shell asks for the next line: every program ends, on
\* every file, and its shell goes on.
ShellReturns == \A t \in Terminals : []<>WaitsForUser(t)
=============================================================================
