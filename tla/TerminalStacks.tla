---------------------------- MODULE TerminalStacks ----------------------------
(***************************************************************************)
(* What the process management promises its users: every terminal has a    *)
(* stack of programs, the terminals take turns, the program on top of the  *)
(* stack whose turn it is has the CPU, a program that ends gives way to    *)
(* the one that started it, and a terminal is never left without a shell.  *)
(***************************************************************************)
EXTENDS Integers, Sequences

CONSTANTS
  Terminals,      \* 0 .. n-1
  Programs,       \* the executable files
  Shell,          \* the program every terminal starts with
  NoProgram       \* what the CPU runs before the first shell

VARIABLES
  stack,          \* the programs of each terminal, the running one last
  turn,           \* the terminal that has the CPU
  cpu             \* the program that has the CPU

svars == <<stack, turn, cpu>>

Top(s) == s[Len(s)]

SInit ==
  /\ stack = [t \in Terminals |-> <<>>]
  /\ turn = 0
  /\ cpu = NoProgram

\* The next terminal gets the CPU, and its first shell if it has none.
TakeTurn ==
  /\ turn' = IF turn + 1 \in Terminals THEN turn + 1 ELSE 0
  /\ stack' = IF stack[turn'] = <<>>
                THEN [stack EXCEPT ![turn'] = <<Shell>>] ELSE stack
  /\ cpu' = Top(stack'[turn'])

Start(prog) ==
  /\ stack[turn] # <<>>
  /\ stack' = [stack EXCEPT ![turn] = Append(@, prog)]
  /\ cpu' = prog
  /\ UNCHANGED turn

End ==
  /\ stack[turn] # <<>>
  /\ stack' = [stack EXCEPT ![turn] =
                 IF Len(@) = 1 THEN <<Shell>> ELSE SubSeq(@, 1, Len(@) - 1)]
  /\ cpu' = Top(stack'[turn])
  /\ UNCHANGED turn

SNext == TakeTurn \/ End \/ \E prog \in Programs : Start(prog)

SSpec == SInit /\ [][SNext]_svars /\ WF_svars(TakeTurn)
===============================================================================
