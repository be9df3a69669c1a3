------------------------------ MODULE Interrupts ------------------------------
(***************************************************************************)
(* How the CPU enters and leaves the kernel: the two 8259 controllers, the *)
(* interrupt flag, the gates of the IDT, the assembly wrappers of the      *)
(* three devices and of int 0x80, and the C functions that do not return   *)
(* the way they were called: scheduling goes on in another process,        *)
(* execute starts a program, halt returns from the parent's execute.       *)
(*                                                                         *)
(* A context is what the kernel stacks of a terminal's processes hold, as  *)
(* a sequence of frames: "user" for a program in user mode, above it the   *)
(* system call, exception or interrupt that interrupted it.  A program     *)
(* started by execute is above the frame of that call.  Devices may        *)
(* request an interrupt between any two steps; the CPU takes it only with  *)
(* its interrupt flag set.  What the handlers do to the rest of the kernel *)
(* is the subject of the other modules.                                    *)
(***************************************************************************)
EXTENDS Integers, Sequences, FiniteSets

CONSTANTS
  NUM_TERMINALS,   \* 3 in the code
  Devices,         \* the lines on which devices request interrupts
  Numbers,         \* what programs put into eax before int 0x80
  Results,         \* what system calls return
  MaxPrograms,     \* bound on the programs of a terminal that wait for another
  BOOT             \* the context in which kernel.c runs

IRQ_PIT == 0
IRQ_KEYBOARD == 1
IRQ_SLAVE == 2
IRQ_RTC == 8
MASTER_PORT_MAX == 8
SLAVE_PORT_MAX == 16

Terminals == 0 .. NUM_TERMINALS - 1
Contexts == Terminals \cup {BOOT}
IrqLines == 0 .. SLAVE_PORT_MAX - 1

ASSUME InterruptsAssumption ==
  /\ NUM_TERMINALS \in Nat \ {0}
  /\ Devices \subseteq IrqLines /\ {IRQ_PIT, IRQ_KEYBOARD, IRQ_RTC} \subseteq Devices
  /\ Numbers \subseteq Int /\ Results \subseteq Int
  /\ MaxPrograms \in Nat \ {0}
  /\ BOOT \notin Terminals

VARIABLES
  imr,                \* lines masked in the controllers
  irr,                \* lines on which an interrupt is requested
  isr,                \* lines in service: accepted, no EOI yet
  ready,              \* devices whose data register has been read
  IF_flag,            \* the CPU's interrupt flag
  context,            \* Contexts -> sequence of frames, the innermost last
  running,            \* whose context the CPU executes
  process_terminal,
  booted,             \* how far kernel.c is
  sys_call_eax        \* the one variable for the results of system calls

ivars == <<imr, irr, isr, ready, IF_flag, context, running, process_terminal,
           booted, sys_call_eax>>
pic == <<imr, irr, isr, ready>>
cpu == <<IF_flag, context, running, process_terminal>>

\* A frame: who is interrupted by what, the EFLAGS the iret will restore, the
\* next step of the wrapper and the value it has in eax.
Frame(kind, id, step) ==
  [kind |-> kind, id |-> id, step |-> step, flag |-> IF_flag, val |-> 0]
User == [kind |-> "user", id |-> 0, step |-> "run", flag |-> TRUE, val |-> 0]
Kernel == [User EXCEPT !.kind = "kernel"]

InterruptsInit ==
  /\ imr = {} /\ irr = {} /\ isr = {}
  /\ ready = Devices
  /\ IF_flag = FALSE
  /\ context = [c \in Contexts |-> IF c = BOOT THEN <<Kernel>> ELSE << >>]
  /\ running = BOOT
  /\ process_terminal = 0
  /\ booted = "pic"
  /\ sys_call_eax = 0

Top == context[running][Len(context[running])]
At(kind, step) == Top.kind = kind /\ Top.step = step

\* The innermost frame moves on, or is left.
Step(step) ==
  context' = [context EXCEPT ![running][Len(context[running])].step = step]
Returned(val) ==
  context' = [context EXCEPT ![running][Len(context[running])] =
                               [@ EXCEPT !.step = "store", !.val = val]]
Push(frame) == context' = [context EXCEPT ![running] = Append(@, frame)]
Pop ==
  /\ context' = [context EXCEPT ![running] = SubSeq(@, 1, Len(@) - 1)]
  /\ IF_flag' = Top.flag

-----------------------------------------------------------------------------
(* The controllers.                                                         *)

enable_irq(irq) == imr' = imr \ {irq}

MasterLine(irq) == IF irq >= MASTER_PORT_MAX THEN IRQ_SLAVE ELSE irq

send_eoi_SlaveOnly(irq) == isr' = isr \ {irq}

\* A line of the slave is acknowledged at both controllers.
send_eoi(irq) == isr' = isr \ {irq, MasterLine(irq)}

\* What is in service keeps lines of the same or a lower priority waiting.
Blocked(irq) ==
  \E served \in isr :
    \/ served < MASTER_PORT_MAX /\ served <= MasterLine(irq)
    \/ served >= MASTER_PORT_MAX /\ irq >= MASTER_PORT_MAX /\ served <= irq

Deliverable(irq) ==
  /\ irq \in irr
  /\ {irq, MasterLine(irq)} \cap imr = {}
  /\ ~Blocked(irq)

\* The keyboard and the rtc request nothing more until the handler has read
\* their data register; the timer does not wait.
Request(irq) ==
  /\ irq \in ready /\ irq \notin irr
  /\ irr' = irr \cup {irq}
  /\ ready' = IF irq = IRQ_PIT THEN ready ELSE ready \ {irq}
  /\ UNCHANGED <<imr, isr, cpu, booted, sys_call_eax>>

-----------------------------------------------------------------------------
(* kernel.c.                                                                *)

AtBoot(step) == running = BOOT /\ Len(context[BOOT]) = 1 /\ booted = step

i8259_init ==
  /\ AtBoot("pic")
  /\ imr' = IrqLines \ {IRQ_SLAVE, IRQ_RTC, IRQ_KEYBOARD}
  /\ booted' = "sti"
  /\ UNCHANGED <<irr, isr, ready, cpu, sys_call_eax>>

EnableInterrupts ==
  /\ AtBoot("sti")
  /\ IF_flag' = TRUE
  /\ booted' = "pit"
  /\ UNCHANGED <<pic, context, running, process_terminal, sys_call_eax>>

pit_init ==
  /\ AtBoot("pit")
  /\ enable_irq(IRQ_PIT)
  /\ booted' = "flag"
  /\ UNCHANGED <<irr, isr, ready, cpu, sys_call_eax>>

\* pit_flag = 1; from here on kernel.c only halts the CPU.
AllowScheduling ==
  /\ AtBoot("flag")
  /\ booted' = "done"
  /\ UNCHANGED <<pic, cpu, sys_call_eax>>

-----------------------------------------------------------------------------
(* Device interrupts.                                                       *)

GateFlag_Trap(vector) == IF_flag

\* Vectors 0x20 to 0x2F and 0x80 have interrupt gates, which clear the flag;
\* the exceptions have trap gates, which leave it.
GateFlag(vector) ==
  IF vector \in 32 .. 47 \/ vector = 128 THEN FALSE ELSE IF_flag

Accept(irq) ==
  /\ IF_flag
  /\ Deliverable(irq)
  /\ irr' = irr \ {irq}
  /\ isr' = isr \cup {irq, MasterLine(irq)}
  /\ Push(Frame("irq", irq, "eoi"))
  /\ IF_flag' = GateFlag(32 + irq)
  /\ UNCHANGED <<imr, ready, running, process_terminal, booted, sys_call_eax>>

\* The three wrappers acknowledge the interrupt before they call the handler.
\* The other lines have no wrapper: the gates lead to a C function that ends
\* in a plain ret, and nothing goes on.
WrapperEoi ==
  /\ At("irq", "eoi") /\ Top.id \in {IRQ_PIT, IRQ_KEYBOARD, IRQ_RTC}
  /\ send_eoi(Top.id)
  /\ Step("handler")
  /\ UNCHANGED <<imr, irr, ready, IF_flag, running, process_terminal, booted,
                 sys_call_eax>>

keyboard_interrupt ==
  /\ At("irq", "handler") /\ Top.id = IRQ_KEYBOARD
  /\ ready' = ready \cup {IRQ_KEYBOARD}
  /\ Step("iret")
  /\ UNCHANGED <<imr, irr, isr, IF_flag, running, process_terminal, booted,
                 sys_call_eax>>

rtc_interrupt_KeepsC ==
  /\ At("irq", "handler") /\ Top.id = IRQ_RTC
  /\ Step("iret")
  /\ UNCHANGED <<pic, IF_flag, running, process_terminal, booted, sys_call_eax>>

\* Register C is read, so the rtc goes on.
rtc_interrupt ==
  /\ At("irq", "handler") /\ Top.id = IRQ_RTC
  /\ ready' = ready \cup {IRQ_RTC}
  /\ Step("iret")
  /\ UNCHANGED <<imr, irr, isr, IF_flag, running, process_terminal, booted,
                 sys_call_eax>>

Scheduling == At("irq", "handler") /\ Top.id = IRQ_PIT

NextTerminal == (process_terminal + 1) % NUM_TERMINALS

ScheduleTooEarly ==
  /\ Scheduling /\ booted # "done"
  /\ Step("iret")
  /\ UNCHANGED <<pic, IF_flag, running, process_terminal, booted, sys_call_eax>>

\* sys_execute("shell"): the new shell starts with interrupts enabled; nothing
\* returns to the wrapper of this interrupt until its process is resumed.
ScheduleLaunch ==
  /\ Scheduling /\ booted = "done"
  /\ context[NextTerminal] = << >>
  /\ context' = [context EXCEPT ![NextTerminal] = <<User>>]
  /\ IF_flag' = TRUE
  /\ process_terminal' = NextTerminal
  /\ running' = NextTerminal
  /\ UNCHANGED <<pic, booted, sys_call_eax>>

\* The stack pointer of the next process: scheduling returns to its wrapper.
ScheduleResume ==
  /\ Scheduling /\ booted = "done"
  /\ context[NextTerminal] # << >>
  /\ context' = [context EXCEPT ![NextTerminal][Len(context[NextTerminal])].step = "iret"]
  /\ process_terminal' = NextTerminal
  /\ running' = NextTerminal
  /\ UNCHANGED <<pic, IF_flag, booted, sys_call_eax>>

Iret ==
  /\ At("irq", "iret")
  /\ Pop
  /\ UNCHANGED <<pic, running, process_terminal, booted, sys_call_eax>>

-----------------------------------------------------------------------------
(* System calls.                                                            *)

sys_call_table ==
  <<"halt", "execute", "read", "write", "open", "close", "getargs", "vidmap",
    "set_handler", "sigreturn">>

system_call(number) ==
  /\ At("user", "run")
  /\ Push(Frame("call", number, "dispatch"))
  /\ IF_flag' = GateFlag(128)
  /\ UNCHANGED <<pic, running, process_terminal, booted, sys_call_eax>>

ValidNumber(number) == number > 0 /\ number <= Len(sys_call_table)

DispatchBad ==
  /\ At("call", "dispatch") /\ ~ValidNumber(Top.id)
  /\ sys_call_eax' = -1
  /\ context' = [context EXCEPT ![running][Len(context[running])] =
                               [@ EXCEPT !.step = "load", !.val = -1]]
  /\ UNCHANGED <<pic, IF_flag, running, process_terminal, booted>>

Dispatch ==
  /\ At("call", "dispatch") /\ ValidNumber(Top.id)
  /\ Step(sys_call_table[Top.id])
  /\ UNCHANGED <<pic, IF_flag, running, process_terminal, booted, sys_call_eax>>

\* The calls that do not wait, and a read that does not.
Called(val) ==
  /\ Top.kind = "call"
  /\ Top.step \in {"read", "write", "open", "close", "getargs", "vidmap"}
  /\ Returned(val)
  /\ UNCHANGED <<pic, IF_flag, running, process_terminal, booted, sys_call_eax>>

\* An execute that starts nothing, and the two calls that are not implemented.
CallFails ==
  /\ Top.kind = "call" /\ Top.step \in {"execute", "set_handler", "sigreturn"}
  /\ Returned(-1)
  /\ UNCHANGED <<pic, IF_flag, running, process_terminal, booted, sys_call_eax>>

\* sti() and the loops of _sys_read_terminal and _sys_read_rtc.
ReadWaits ==
  /\ At("call", "read")
  /\ Step("spin")
  /\ IF_flag' = TRUE
  /\ UNCHANGED <<pic, running, process_terminal, booted, sys_call_eax>>

ReadWakes_Enabled(val) ==
  /\ At("call", "spin")
  /\ Returned(val)
  /\ UNCHANGED <<pic, IF_flag, running, process_terminal, booted, sys_call_eax>>

\* cli() behind the loop.
ReadWakes(val) ==
  /\ At("call", "spin")
  /\ Returned(val)
  /\ IF_flag' = FALSE
  /\ UNCHANGED <<pic, running, process_terminal, booted, sys_call_eax>>

ExecuteStarts_Disabled ==
  /\ At("call", "execute")
  /\ Cardinality({i \in DOMAIN context[running] :
                    context[running][i].kind = "user"}) <= MaxPrograms
  /\ context' = [context EXCEPT
       ![running] = Append([@ EXCEPT ![Len(@)].step = "waiting"], User)]
  /\ UNCHANGED <<pic, IF_flag, running, process_terminal, booted, sys_call_eax>>

\* _execute_context_switch: user mode, with the interrupt flag set in EFLAGS.
ExecuteStarts ==
  /\ At("call", "execute")
  /\ Cardinality({i \in DOMAIN context[running] :
                    context[running][i].kind = "user"}) <= MaxPrograms
  /\ context' = [context EXCEPT
       ![running] = Append([@ EXCEPT ![Len(@)].step = "waiting"], User)]
  /\ IF_flag' = TRUE
  /\ UNCHANGED <<pic, running, process_terminal, booted, sys_call_eax>>

Waiting(c) == {i \in DOMAIN context[c] : context[c][i].step = "waiting"}
Last(S) == CHOOSE i \in S : \A j \in S : j <= i

\* sys_halt: the parent's execute returns val, or a base shell starts anew.
\* The frames of the program are gone with its stack.
sys_halt(val) ==
  LET waiting == Waiting(running)
  IN  IF waiting # {}
        THEN /\ context' = [context EXCEPT
                  ![running] = Append(SubSeq(@, 1, Last(waiting) - 1),
                                      [@[Last(waiting)] EXCEPT !.step = "store",
                                                               !.val = val])]
             /\ UNCHANGED IF_flag
        ELSE /\ context' = [context EXCEPT ![running] = <<User>>]
             /\ IF_flag' = TRUE

CallHalt(val) ==
  /\ At("call", "halt")
  /\ sys_halt(val)
  /\ UNCHANGED <<pic, running, process_terminal, booted, sys_call_eax>>

StoreResult ==
  /\ At("call", "store")
  /\ sys_call_eax' = Top.val
  /\ Step("load")
  /\ UNCHANGED <<pic, IF_flag, running, process_terminal, booted>>

\* popal, eax from the variable, iret.
LoadResult ==
  /\ At("call", "load")
  /\ Pop
  /\ UNCHANGED <<pic, running, process_terminal, booted, sys_call_eax>>

-----------------------------------------------------------------------------
(* Exceptions of programs.                                                  *)

Exception(vector) ==
  /\ At("user", "run")
  /\ Push(Frame("exception", vector, "cli"))
  /\ IF_flag' = GateFlag(vector)
  /\ UNCHANGED <<pic, running, process_terminal, booted, sys_call_eax>>

\* The wrapper, and cli() in exception_handler.
exception_handler ==
  /\ At("exception", "cli")
  /\ IF_flag' = FALSE
  /\ Step("halt")
  /\ UNCHANGED <<pic, running, process_terminal, booted, sys_call_eax>>

ExceptionHalts ==
  /\ At("exception", "halt")
  /\ sys_halt(Top.id)
  /\ UNCHANGED <<pic, running, process_terminal, booted, sys_call_eax>>

-----------------------------------------------------------------------------
PAGE_FAULT == 14

Boot == i8259_init \/ EnableInterrupts \/ pit_init \/ AllowScheduling

Wrapper ==
  \/ WrapperEoi \/ keyboard_interrupt \/ rtc_interrupt
  \/ ScheduleTooEarly \/ ScheduleLaunch \/ ScheduleResume \/ Iret

\* What the CPU does inside a system call or an exception.
Kernel_step ==
  \/ Dispatch \/ DispatchBad \/ CallFails \/ ReadWaits \/ ExecuteStarts
  \/ \E val \in Results : Called(val) \/ ReadWakes(val) \/ CallHalt(val)
  \/ StoreResult \/ LoadResult
  \/ exception_handler \/ ExceptionHalts

Program == (\E number \in Numbers : system_call(number)) \/ Exception(PAGE_FAULT)

InterruptsNext ==
  \/ \E irq \in Devices : Request(irq) \/ Accept(irq)
  \/ Boot \/ Wrapper \/ Kernel_step \/ Program

InterruptsSpec == InterruptsInit /\ [][InterruptsNext]_ivars

(***************************************************************************)
(* The CPU does not stop inside the kernel, the two timers tick, and       *)
(* neither starves the other: handlers are much shorter than the periods   *)
(* of the timers, so between two interrupts the interrupted code goes on,  *)
(* and a request that can be delivered again and again is.  Nothing is     *)
(* assumed of programs and of what they wait for.                          *)
(***************************************************************************)
InterruptsFairness ==
  /\ WF_ivars(Wrapper)
  /\ WF_ivars(IF_flag = FALSE /\ Kernel_step)
  /\ SF_ivars(Boot) /\ SF_ivars(exception_handler)
  /\ \A irq \in {IRQ_PIT, IRQ_RTC} : WF_ivars(Request(irq))
  /\ \A irq \in Devices : SF_ivars(Accept(irq))

FairInterruptsSpec == InterruptsSpec /\ InterruptsFairness

-----------------------------------------------------------------------------
\* No line stays in service once its wrapper has acknowledged it: scheduling and
\* execute may leave the wrapper for good without blocking any interrupt, for
\* lines of the slave too.
AcknowledgedInTime ==
  isr = IF At("irq", "eoi") THEN {Top.id, MasterLine(Top.id)} ELSE {}

\* A program always runs with interrupts enabled, however it got the CPU:
\* started, resumed, or back from a call that itself enabled or disabled them.
ProgramsInterruptible == At("user", "run") => IF_flag

\* sys_call_eax belongs to one call from the store to the load: no other call
\* or process can get in between, although every call uses the same variable.
ResultIsOwn ==
  \A c \in Contexts : \A i \in DOMAIN context[c] :
    context[c][i].step = "load" => sys_call_eax = context[c][i].val

\* Above a program its kernel stack holds one system call or exception and one
\* interrupt at most: handlers are never interrupted themselves.
KernelStackBounded ==
  \A c \in Contexts : \A i \in DOMAIN context[c] :
    /\ context[c][i].kind = "irq" => i = Len(context[c])
    /\ i > 1 /\ context[c][i].kind \in {"call", "exception"} =>
         context[c][i - 1].kind = "user"

Handling(irq) == At("irq", "handler") /\ Top.id = irq

\* Both timers keep ticking, whatever programs do and whenever the handler is
\* left for another process, and no request of a device that is not masked is
\* forgotten.
EveryLineServed ==
  /\ []<>Handling(IRQ_PIT) /\ []<>Handling(IRQ_RTC)
  /\ (IRQ_KEYBOARD \in irr) ~> Handling(IRQ_KEYBOARD)
=============================================================================
