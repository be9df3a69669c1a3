------------------------- MODULE ProcessesRefinement -------------------------
(***************************************************************************)
(* Processes, used in the foreground, implements TerminalStacks: the stack *)
(* of a terminal is read off the PCBs by following parent_pcb from         *)
(* cur_pcb_ptr, and the program on the CPU off the page mapped at 128 MB.  *)
(***************************************************************************)
EXTENDS Processes, Sequences, FiniteSets

\* The processes of terminal t from the current one upwards, then NULL: entry n
\* is n steps up the chain of parents.
Chain(t) ==
  LET up[n \in 0 .. MAX_NUM_PROCESSES] ==
        IF n = 0 THEN cur_pcb_ptr[t]
        ELSE IF up[n - 1] = NULL THEN NULL ELSE parent_pcb[up[n - 1]]
  IN  up

StackOf(t) ==
  LET chain == Chain(t)
      depth == Cardinality({n \in DOMAIN chain : chain[n] # NULL})
  IN  [i \in 1 .. depth |-> image[chain[depth - i]]]

Stacks == INSTANCE TerminalStacks
  WITH NoProgram <- NULL,
       stack <- [t \in Terminals |-> StackOf(t)],
       turn  <- process_terminal,
       cpu   <- IF program_page = NULL THEN NULL ELSE image[program_page]

\* Whatever the timer, the keyboard and the programs do, the terminals show
\* the behaviour of stacks of programs taking turns.
ImplementsTerminalStacks == Stacks!SSpec
=============================================================================
