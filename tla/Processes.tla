------------------------------ MODULE Processes ------------------------------
(***************************************************************************)
(* Process lifecycle and round-robin scheduling of the kernel:             *)
(* sys_execute, sys_halt, exception_handler, scheduling, switch_terminal   *)
(* and the PCB fields they read and write.                                 *)
(*                                                                         *)
(* The kernel runs with interrupts disabled except while a process is in   *)
(* user mode or spins in a blocking read, so every system call and every   *)
(* interrupt handler is one atomic step.                                   *)
(*                                                                         *)
(* A PCB is identified with its process id (its slot): the code derives    *)
(* the PCB address, the kernel stack and the 4 MB page from it.  The       *)
(* fields of the PCBs are functions on slots; flags are the set of slots   *)
(* or terminals for which they are 1.                                      *)
(***************************************************************************)
EXTENDS Integers

CONSTANTS
  NUM_TERMINALS,        \* 3 in the code
  MAX_NUM_PROCESSES,    \* 6 in the code
  FILE_DESC_ARR_SIZE,   \* 8 in the code
  Programs,             \* the executable files
  Shell,                \* the program "shell"
  Launchers,            \* the programs that call execute
  VidmapUsers,          \* the programs that call vidmap
  Statuses,             \* the bytes programs pass to halt
  Exceptions,           \* the exception vectors programs raise
  NULL, BOOT, LOST, VIDEO

Slots     == 0 .. MAX_NUM_PROCESSES - 1
Terminals == 0 .. NUM_TERMINALS - 1
FdIdx     == 2 .. FILE_DESC_ARR_SIZE - 1     \* MIN_FD_IDX .. MAX_FD_IDX

ASSUME SizesAssumption ==
  /\ NUM_TERMINALS \in Nat \ {0}
  /\ MAX_NUM_PROCESSES \in Nat \ {0}
  /\ FILE_DESC_ARR_SIZE \in Nat

\* One slot per terminal's shell: 3 <= 6 in the code.
ASSUME SlotsForShellsAssumption == NUM_TERMINALS <= MAX_NUM_PROCESSES

ASSUME ProgramsAssumption ==
  /\ Shell \in Programs
  /\ Launchers \subseteq Programs
  /\ VidmapUsers \subseteq Programs
  /\ Statuses \subseteq 0 .. 255
  /\ Exceptions \subseteq 0 .. 19

ASSUME SentinelsAssumption ==
  /\ NULL \notin Slots \cup Terminals \cup Programs
  /\ BOOT \notin Slots \cup {NULL}
  /\ LOST \notin Slots \cup {NULL, BOOT}
  /\ VIDEO \notin Terminals \cup {NULL}

VARIABLES
  active_processes,     \* slots in use
  parent_pcb,           \* PCB field: slot of the parent, NULL for a base shell
  context,              \* PCB fields esp/ebp: the kernel frame they point at
  open_fds,             \* PCB field: descriptors >= 2 whose flags are 1
  vidmapped,            \* slots whose PCB has vidmap_terminal = 1
  has_argument,         \* slots whose argument_array is not empty
  cur_pcb_ptr,          \* the current process of each terminal
  process_terminal,     \* the terminal whose process is scheduled
  visible_terminal,     \* the terminal on the screen
  program_page,         \* slot mapped at 128 MB
  vidmap_page,          \* what 132 MB maps to: VIDEO, a terminal's buffer, NULL
  tss_esp0,             \* slot whose kernel stack the next trap uses
  image,                \* the program loaded in each slot's 4 MB page
  shell_flag,           \* terminals with shell_flag = 1
  arg_flag,             \* terminals with arg_flag = 1
  too_many_shells_flag,
  eax,                  \* what the last return from sys_execute delivered
  running               \* whose code the CPU executes: a slot, BOOT, or LOST

pcbVars    == <<parent_pcb, context, open_fds, vidmapped, has_argument>>
memoryVars == <<program_page, tss_esp0, image>>
flagVars   == <<shell_flag, arg_flag, too_many_shells_flag>>
vars == <<active_processes, cur_pcb_ptr, process_terminal, visible_terminal,
          vidmap_page, eax, running, pcbVars, memoryVars, flagVars>>

(***************************************************************************)
(* A saved esp/ebp denotes a stack frame: the kind of function that saved  *)
(* it and the slot whose kernel stack holds it.  Once that function has    *)
(* returned the frame is Dead: the pointer is still there, the frame not.  *)
(***************************************************************************)
Frame(kind, slot) == <<kind, slot>>
Dead              == Frame("dead", NULL)
Frames == {Dead} \cup ({"execute", "scheduling"} \X (Slots \cup {BOOT}))

\* What execute returned and why.
Outcomes == [value : -128 .. 127,
             cause : {"none", "failed", "halt", "exception"}]

Init ==
  /\ active_processes = {}
  /\ parent_pcb = [p \in Slots |-> NULL]
  /\ context = [p \in Slots |-> Dead]
  /\ open_fds = [p \in Slots |-> {}]
  /\ vidmapped = {}
  /\ has_argument = {}
  /\ cur_pcb_ptr = [t \in Terminals |-> NULL]
  /\ process_terminal = 0
  /\ visible_terminal = 0
  /\ program_page = NULL
  /\ vidmap_page = NULL
  /\ tss_esp0 = BOOT
  /\ image = [p \in Slots |-> NULL]
  /\ shell_flag = {}
  /\ arg_flag = Terminals
  /\ too_many_shells_flag = 0
  /\ eax = [value |-> 0, cause |-> "none"]
  /\ running = BOOT

-----------------------------------------------------------------------------
(* Helpers                                                                  *)

SetFlag_OnlySets(S, x, on) == S \cup {x}

\* Set or clear the member x of a flag array represented as a set.
SetFlag(S, x, on) == IF on THEN S \cup {x} ELSE S \ {x}

\* What an upward loop that stops at the first member of S finds.
Least(S) == CHOOSE n \in S : \A m \in S : n <= m

FirstFree_IgnoresActive(act) == Least(Slots)

\* The first inactive slot, as the loop over active_processes finds it.
FirstFree(act) == Least(Slots \ act)

\* (uint32_t)status for an int8_t status: the low byte, sign-extended.
SignExtend(byte) == IF byte >= 128 THEN byte - 256 ELSE byte

Current_Visible == cur_pcb_ptr[visible_terminal]

\* The process on whose PCB the kernel operates.
Current == cur_pcb_ptr[process_terminal]

VideoTarget_OffByOne(t, visible) == IF t = visible THEN VIDEO ELSE t + 1
VideoTarget_AlwaysScreen(t, visible) == VIDEO

\* The physical page 132 MB must map to for a process of terminal t.
VideoTarget(t, visible) == IF t = visible THEN VIDEO ELSE t

SaveContext_Never(ctx, ptr, frame) == ctx

\* save esp and ebp of the frame in the PCB ptr points at, if there is one
SaveContext(ctx, ptr, frame) ==
  IF ptr = NULL THEN ctx ELSE [ctx EXCEPT ![ptr] = frame]

\* A new process in slot n starts with an empty kernel stack: no frame on it
\* survives.
KillFrames(ctx, n) == [p \in Slots |-> IF ctx[p][2] = n THEN Dead ELSE ctx[p]]

Launch_Orphan(prog, arg, term, act, cur, ctx, vm) ==
  LET n == FirstFree(act) IN
  /\ active_processes' = act \cup {n}
  /\ program_page' = n
  /\ image' = [image EXCEPT ![n] = prog]
  /\ shell_flag' = SetFlag(shell_flag, term, prog = Shell)
  /\ parent_pcb' = [parent_pcb EXCEPT ![n] = NULL]
  /\ has_argument' = SetFlag(has_argument, n, arg)
  /\ vidmapped' = vm \ {n}
  /\ context' = KillFrames(ctx, n)
  /\ cur_pcb_ptr' = [cur EXCEPT ![term] = n]
  /\ tss_esp0' = n
  /\ running' = n

\* The tail of a successful sys_execute: slot, paging, loading, PCB and the
\* switch to user mode.  act, cur, ctx and vm are the process table, saved
\* contexts and vidmap flags at that point; the new PCB keeps whatever
\* descriptors >= 2 the slot's previous owner left.
Launch(prog, arg, term, act, cur, ctx, vm) ==
  LET n == FirstFree(act) IN
  /\ active_processes' = act \cup {n}
  /\ program_page' = n
  /\ image' = [image EXCEPT ![n] = prog]
  /\ shell_flag' = SetFlag(shell_flag, term, prog = Shell)
  /\ parent_pcb' = [parent_pcb EXCEPT ![n] = cur[term]]
  /\ has_argument' = SetFlag(has_argument, n, arg)
  /\ vidmapped' = vm \ {n}
  /\ context' = KillFrames(ctx, n)
  /\ cur_pcb_ptr' = [cur EXCEPT ![term] = n]
  /\ tss_esp0' = n
  /\ running' = n

-----------------------------------------------------------------------------
(* sys_execute, called by a user program.  Which terminal it acts on does   *)
(* not depend on the caller but on the terminal the user is looking at.     *)

ExecuteTerm == IF Current = NULL THEN process_terminal ELSE visible_terminal

CanExecute == running \in Slots /\ image[running] \in Launchers

\* The command holds no program name: -1, before anything is written.
ExecuteUnparsable ==
  /\ CanExecute
  /\ eax' = [value |-> -1, cause |-> "failed"]
  /\ UNCHANGED <<active_processes, cur_pcb_ptr, process_terminal,
                 visible_terminal, vidmap_page, running, pcbVars, memoryVars,
                 flagVars>>

\* No such executable: -1.
ExecuteNotFound(arg) ==
  /\ CanExecute
  /\ arg_flag' = SetFlag(arg_flag, ExecuteTerm, arg)
  /\ context' = SaveContext(context, cur_pcb_ptr[ExecuteTerm], Dead)
  /\ eax' = [value |-> -1, cause |-> "failed"]
  /\ UNCHANGED <<active_processes, parent_pcb, open_fds, vidmapped,
                 has_argument, cur_pcb_ptr, process_terminal,
                 visible_terminal, vidmap_page, memoryVars, shell_flag,
                 too_many_shells_flag, running>>

ExecuteNoSlot_AnySlot(arg) ==
  /\ CanExecute
  /\ arg_flag' = SetFlag(arg_flag, ExecuteTerm, arg)
  /\ context' = SaveContext(context, cur_pcb_ptr[ExecuteTerm], Dead)
  /\ too_many_shells_flag' = 1
  /\ eax' = [value |-> -1, cause |-> "failed"]
  /\ UNCHANGED <<active_processes, parent_pcb, open_fds, vidmapped,
                 has_argument, cur_pcb_ptr, process_terminal,
                 visible_terminal, vidmap_page, memoryVars, shell_flag,
                 running>>

\* An executable, but every slot is taken: -1 and too_many_shells_flag.
ExecuteNoSlot(arg) ==
  /\ CanExecute
  /\ active_processes = Slots
  /\ arg_flag' = SetFlag(arg_flag, ExecuteTerm, arg)
  /\ context' = SaveContext(context, cur_pcb_ptr[ExecuteTerm], Dead)
  /\ too_many_shells_flag' = 1
  /\ eax' = [value |-> -1, cause |-> "failed"]
  /\ UNCHANGED <<active_processes, parent_pcb, open_fds, vidmapped,
                 has_argument, cur_pcb_ptr, process_terminal,
                 visible_terminal, vidmap_page, memoryVars, shell_flag,
                 running>>

ExecuteProgram(prog, arg) ==
  /\ CanExecute
  /\ active_processes # Slots
  /\ arg_flag' = SetFlag(arg_flag, ExecuteTerm, arg)
  /\ Launch(prog, arg, ExecuteTerm, active_processes, cur_pcb_ptr,
            SaveContext(context, cur_pcb_ptr[ExecuteTerm],
                        Frame("execute", running)),
            vidmapped)
  /\ UNCHANGED <<open_fds, process_terminal, visible_terminal, vidmap_page,
                 too_many_shells_flag, eax>>

Execute ==
  \/ ExecuteUnparsable
  \/ \E arg \in BOOLEAN :
       \/ ExecuteNotFound(arg)
       \/ ExecuteNoSlot(arg)
       \/ \E prog \in Programs : ExecuteProgram(prog, arg)

-----------------------------------------------------------------------------
(* sys_halt, called by a user program or by exception_handler.              *)

HaltBaseShell_LeavesOpen ==
  /\ running \in Slots
  /\ Current # NULL
  /\ parent_pcb[Current] = NULL
  /\ too_many_shells_flag' = 0
  /\ Launch(Shell, FALSE, process_terminal, active_processes \ {Current},
            [cur_pcb_ptr EXCEPT ![process_terminal] = NULL],
            context, vidmapped \ {Current})
  /\ vidmap_page' = VIDEO
  /\ arg_flag' = arg_flag \ {process_terminal}
  /\ UNCHANGED <<open_fds, process_terminal, visible_terminal, eax>>

\* The last process of the terminal: halt restarts the shell and never
\* returns from that call.  A slot is free: the one given up.
HaltBaseShell ==
  /\ running \in Slots
  /\ Current # NULL
  /\ parent_pcb[Current] = NULL
  /\ too_many_shells_flag' = 0
  /\ open_fds' = [open_fds EXCEPT ![Current] = {}]
  /\ Launch(Shell, FALSE, process_terminal, active_processes \ {Current},
            [cur_pcb_ptr EXCEPT ![process_terminal] = NULL],
            context, vidmapped \ {Current})
  /\ vidmap_page' = VIDEO
  /\ arg_flag' = arg_flag \ {process_terminal}
  /\ UNCHANGED <<process_terminal, visible_terminal, eax>>

\* Return to the parent: jump to the frame its PCB points at, with status in
\* eax.  Only a frame of sys_execute on the parent's own stack, under the
\* parent's page, is the right one; with any other the CPU is LOST.
HaltToParent(status, cause) ==
  LET c == Current
      p == parent_pcb[c]
  IN
  /\ running \in Slots
  /\ Current # NULL
  /\ p # NULL
  /\ too_many_shells_flag' = 0
  /\ open_fds' = [open_fds EXCEPT ![c] = {}]
  /\ vidmapped' = vidmapped \ {c}
  /\ active_processes' = active_processes \ {c}
  /\ cur_pcb_ptr' = [cur_pcb_ptr EXCEPT ![process_terminal] = p]
  /\ vidmap_page' = VIDEO
  /\ program_page' = p
  /\ shell_flag' = shell_flag \cup {process_terminal}
  /\ tss_esp0' = p
  /\ eax' = [value |-> SignExtend(status), cause |-> cause]
  /\ running' = IF context[p] = Frame("execute", p) THEN p ELSE LOST
  /\ context' = [context EXCEPT ![p] = Dead]
  /\ UNCHANGED <<parent_pcb, has_argument, process_terminal,
                 visible_terminal, image, arg_flag>>

Halt ==
  \/ HaltBaseShell
  \/ \E status \in Statuses : HaltToParent(status, "halt")
  \/ \E index \in Exceptions : HaltToParent(index, "exception")

-----------------------------------------------------------------------------
(* The other system calls that touch the PCB, through cur_pcb_ptr.          *)

\* sys_open takes the lowest free descriptor; with none free nothing changes.
Open ==
  /\ running \in Slots
  /\ Current # NULL
  /\ open_fds[Current] # FdIdx
  /\ open_fds' = [open_fds EXCEPT ![Current] = @ \cup {Least(FdIdx \ @)}]
  /\ UNCHANGED <<active_processes, cur_pcb_ptr, process_terminal,
                 visible_terminal, vidmap_page, eax, running, parent_pcb,
                 context, vidmapped, has_argument, memoryVars, flagVars>>

Close(fd) ==
  /\ running \in Slots
  /\ Current # NULL
  /\ fd \in open_fds[Current]
  /\ open_fds' = [open_fds EXCEPT ![Current] = @ \ {fd}]
  /\ UNCHANGED <<active_processes, cur_pcb_ptr, process_terminal,
                 visible_terminal, vidmap_page, eax, running, parent_pcb,
                 context, vidmapped, has_argument, memoryVars, flagVars>>

Vidmap ==
  /\ running \in Slots
  /\ image[running] \in VidmapUsers
  /\ Current # NULL
  /\ vidmap_page' = VideoTarget(process_terminal, visible_terminal)
  /\ vidmapped' = vidmapped \cup {Current}
  /\ UNCHANGED <<active_processes, cur_pcb_ptr, process_terminal,
                 visible_terminal, eax, running, parent_pcb, context,
                 open_fds, has_argument, memoryVars, flagVars>>

\* A system call that dereferences cur_pcb_ptr[process_terminal] = NULL.
KernelFault ==
  /\ running \in Slots
  /\ Current = NULL
  /\ running' = LOST
  /\ UNCHANGED <<active_processes, cur_pcb_ptr, process_terminal,
                 visible_terminal, vidmap_page, eax, pcbVars, memoryVars,
                 flagVars>>

-----------------------------------------------------------------------------
(* scheduling, on each PIT interrupt, and switch_terminal, from the         *)
(* keyboard interrupt.                                                      *)

NextTerminal_NoWrap ==
  IF process_terminal + 1 < NUM_TERMINALS THEN process_terminal + 1 ELSE process_terminal

NextTerminal == (process_terminal + 1) % NUM_TERMINALS

\* The next terminal has no process: start its shell.
ScheduleLaunch ==
  /\ running # LOST
  /\ cur_pcb_ptr[NextTerminal] = NULL
  /\ active_processes # Slots
  /\ process_terminal' = NextTerminal
  /\ arg_flag' = arg_flag \ {NextTerminal}
  /\ Launch(Shell, FALSE, NextTerminal, active_processes, cur_pcb_ptr,
            SaveContext(context, Current, Frame("scheduling", running)),
            vidmapped)
  /\ UNCHANGED <<open_fds, visible_terminal, vidmap_page,
                 too_many_shells_flag, eax>>

\* ... but every slot is taken: sys_execute returns -1, scheduling returns,
\* and the interrupted process goes on, now under a terminal without process.
ScheduleLaunchFails ==
  /\ running # LOST
  /\ cur_pcb_ptr[NextTerminal] = NULL
  /\ active_processes = Slots
  /\ process_terminal' = NextTerminal
  /\ context' = SaveContext(context, Current, Dead)
  /\ arg_flag' = arg_flag \ {NextTerminal}
  /\ too_many_shells_flag' = 1
  /\ UNCHANGED <<active_processes, cur_pcb_ptr, visible_terminal,
                 vidmap_page, eax, running, parent_pcb, open_fds, vidmapped,
                 has_argument, memoryVars, shell_flag>>

\* Dispatch the process of the next terminal: page, kernel stack, video page,
\* then esp and ebp.  Only a frame of scheduling on its own stack is right.
ScheduleResume ==
  LET p     == cur_pcb_ptr[NextTerminal]
      saved == SaveContext(context, Current, Frame("scheduling", running))
  IN
  /\ running # LOST
  /\ p # NULL
  /\ process_terminal' = NextTerminal
  /\ program_page' = p
  /\ tss_esp0' = p
  /\ vidmap_page' = IF p \in vidmapped
                      THEN VideoTarget(NextTerminal, visible_terminal)
                      ELSE vidmap_page
  /\ running' = IF saved[p] = Frame("scheduling", p) THEN p ELSE LOST
  /\ context' = [saved EXCEPT ![p] = Dead]
  /\ UNCHANGED <<active_processes, cur_pcb_ptr, visible_terminal, eax,
                 parent_pcb, open_fds, vidmapped, has_argument, image,
                 flagVars>>

Schedule == ScheduleLaunch \/ ScheduleLaunchFails \/ ScheduleResume

SwitchTerminal(t) ==
  /\ running # LOST
  /\ t # visible_terminal
  /\ visible_terminal' = t
  /\ UNCHANGED <<active_processes, cur_pcb_ptr, process_terminal,
                 vidmap_page, eax, running, pcbVars, memoryVars, flagVars>>

-----------------------------------------------------------------------------
OtherSteps ==
  \/ Halt
  \/ Open
  \/ \E fd \in FdIdx : Close(fd)
  \/ Vidmap
  \/ KernelFault
  \/ Schedule
  \/ \E t \in Terminals : SwitchTerminal(t)

Next == Execute \/ OtherSteps

Spec == Init /\ [][Next]_vars

(***************************************************************************)
(* The use the kernel is written for: once the shells of all terminals     *)
(* are up, commands come from the shell of the terminal on the screen      *)
(* while that shell runs.  Nothing in the kernel enforces it.              *)
(***************************************************************************)
Started == \A t \in Terminals : cur_pcb_ptr[t] # NULL

ForegroundExecute == Started /\ visible_terminal = process_terminal /\ Execute

ForegroundNext == ForegroundExecute \/ OtherSteps

ForegroundSpec == Init /\ [][ForegroundNext]_vars

\* All shells are up, but a command may be executed on a hidden terminal.
BackgroundSpec == Init /\ [][(Started /\ Execute) \/ OtherSteps]_vars

\* The PIT fires at 100 Hz and interrupts are enabled whenever a program or
\* a blocking read is running.
FairForegroundSpec == ForegroundSpec /\ WF_vars(Schedule)

-----------------------------------------------------------------------------
(* Properties of every execution                                            *)

\* Every variable has the type of the C object it models, and CPU, TSS and
\* page directory never name a slot the table does not have.
TypeOK ==
  /\ active_processes \subseteq Slots
  /\ parent_pcb \in [Slots -> Slots \cup {NULL}]
  /\ context \in [Slots -> Frames]
  /\ open_fds \in [Slots -> SUBSET FdIdx]
  /\ vidmapped \subseteq Slots
  /\ has_argument \subseteq Slots
  /\ cur_pcb_ptr \in [Terminals -> Slots \cup {NULL}]
  /\ process_terminal \in Terminals
  /\ visible_terminal \in Terminals
  /\ program_page \in Slots \cup {NULL}
  /\ vidmap_page \in Terminals \cup {VIDEO, NULL}
  /\ tss_esp0 \in Slots \cup {BOOT}
  /\ image \in [Slots -> Programs \cup {NULL}]
  /\ shell_flag \subseteq Terminals
  /\ arg_flag \subseteq Terminals
  /\ too_many_shells_flag \in {0, 1}
  /\ eax \in Outcomes
  /\ running \in Slots \cup {BOOT, LOST}

\* The PCBs reachable from the terminals are live ones: cur_pcb_ptr and
\* parent_pcb never point at a slot that sys_halt has given back.
PointersLive ==
  /\ \A t \in Terminals : cur_pcb_ptr[t] # NULL => cur_pcb_ptr[t] \in active_processes
  /\ \A p \in active_processes :
       parent_pcb[p] # NULL => parent_pcb[p] \in active_processes \ {p}

\* Nothing is shared: no process is current on two terminals, is the parent
\* of two processes, or is current while one of its children is.
PointersUnshared ==
  /\ \A t, u \in Terminals :
       cur_pcb_ptr[t] = cur_pcb_ptr[u] /\ cur_pcb_ptr[t] # NULL => t = u
  /\ \A p, q \in active_processes :
       parent_pcb[p] = parent_pcb[q] /\ parent_pcb[p] # NULL => p = q
  /\ \A p \in active_processes, t \in Terminals :
       parent_pcb[p] # NULL => parent_pcb[p] # cur_pcb_ptr[t]

\* No slot leaks: whatever order execute, halt and the scheduler ran in, an
\* active slot belongs to a terminal's current process or to an ancestor.
NoLeakedSlot ==
  \A p \in active_processes :
    \/ \E t \in Terminals : cur_pcb_ptr[t] = p
    \/ \E q \in active_processes : parent_pcb[q] = p

\* The table of processes is the set of stacks it stands for: pointers are live
\* and unshared and no slot leaks, whatever ran, failed and halted when.
TableConsistency == PointersLive /\ PointersUnshared /\ NoLeakedSlot

\* A slot is given back with its descriptors closed and vidmap flag cleared,
\* which _execute_create_PCB relies on: it does not clear descriptors >= 2.
FreeSlotsAreClean ==
  \A p \in Slots \ active_processes : open_fds[p] = {} /\ p \notin vidmapped

\* too_many_shells_flag makes write print "Too many processes" in place of
\* "no such command": it is up only while every slot is in use.
TooManyFlagTruthful == too_many_shells_flag = 1 => active_processes = Slots

-----------------------------------------------------------------------------
(* Properties of the foreground use                                         *)

\* The CPU always runs the current process of process_terminal, in its own
\* 4 MB page and with its own kernel stack in the TSS: no interleaving of
\* execute, halt and timer interrupts separates the four.
CpuOwnership ==
  /\ running # LOST
  /\ running \in Slots =>
       running = Current /\ program_page = running /\ tss_esp0 = running
  /\ running = BOOT => Current = NULL

\* Every process that is not running can be taken up again by the one
\* mechanism that will reach it: a terminal's current process by scheduling,
\* a waiting parent by the halt of its child.
ContextsResumable ==
  \A p \in active_processes \ {running} :
    context[p] = IF \E t \in Terminals : cur_pcb_ptr[t] = p
                   THEN Frame("scheduling", p)
                   ELSE Frame("execute", p)

\* Until every terminal has its shell no process has a child, so the slots
\* cannot run out before the scheduler has started all shells.
ShellsComeFirst ==
  Started \/ \A p \in active_processes : parent_pcb[p] = NULL

\* shell_flag and arg_flag are kept per terminal: when only the shell calls
\* execute they still describe the terminal's current process.
FlagsDescribeCurrent ==
  \A t \in Terminals :
    cur_pcb_ptr[t] # NULL =>
      /\ (t \in shell_flag) <=> (image[cur_pcb_ptr[t]] = Shell)
      /\ image[cur_pcb_ptr[t]] # Shell =>
           ((t \in arg_flag) <=> (cur_pcb_ptr[t] \in has_argument))

\* The processes that are not running keep their slot, parent, image,
\* argument, descriptors and vidmap flag.
LeavesOthersAlone ==
  \A p \in active_processes \ {running} :
    /\ p \in active_processes'
    /\ parent_pcb'[p] = parent_pcb[p]
    /\ image'[p] = image[p]
    /\ open_fds'[p] = open_fds[p]
    /\ (p \in vidmapped') <=> (p \in vidmapped)
    /\ (p \in has_argument') <=> (p \in has_argument)

\* A process ends only by its own halt or exception, and nobody else loads
\* another image over it or changes its parent, argument, descriptors or
\* vidmap flag.
OthersUntouched == [][LeavesOthersAlone]_vars

\* When the scheduler dispatches a process that uses vidmap, 132 MB maps to
\* the screen exactly if its terminal is the visible one.
VidmapOnDispatch ==
  [][process_terminal' # process_terminal /\ running' \in vidmapped'
       => vidmap_page' = IF process_terminal' = visible_terminal'
                           THEN VIDEO ELSE process_terminal']_vars

\* process_terminal names the terminal of the process that is running.
ProcessTerminalTruthful == Started /\ running \in Slots => running = Current

\* The process of every terminal gets the CPU again and again.
EveryTerminalRuns ==
  \A t \in Terminals : []<>(running \in Slots /\ running = cur_pcb_ptr[t])
=============================================================================
