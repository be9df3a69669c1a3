--------------------------- MODULE ProcessesProofs ---------------------------
(***************************************************************************)
(* Proofs about Processes, for any number of terminals, slots, descriptors *)
(* and programs.                                                           *)
(***************************************************************************)
EXTENDS Processes, FiniteSets, FiniteSetTheorems, FunctionTheorems,
        WellFoundedInduction, TLAPS

-----------------------------------------------------------------------------
(* Facts about the helpers                                                  *)

\* An upward loop over a set of naturals finds a member if there is one.
LEMMA LeastIsMember ==
  ASSUME NEW S, S \subseteq Nat, S # {}
  PROVE  Least(S) \in S
<1>1. PICK n \in S : \A m \in S : <<m, n>> \notin OpToRel(<, Nat)
  BY NatLessThanWellFounded, WFMin
<1>2. ASSUME NEW m \in S PROVE n <= m
  <2>1. m \in Nat /\ n \in Nat
    OBVIOUS
  <2>2. ~(m < n)
    BY <1>1, <2>1 DEF OpToRel
  <2> QED  BY <2>1, <2>2
<1> QED  BY <1>2 DEF Least

\* The loop over active_processes finds a free slot whenever there is one.
LEMMA FirstFreeIsFree ==
  ASSUME NEW act, act \subseteq Slots, act # Slots
  PROVE  FirstFree(act) \in Slots /\ FirstFree(act) \notin act
<1>1. Slots \subseteq Nat
  BY SizesAssumption DEF Slots
<1>2. Slots \ act \subseteq Nat /\ Slots \ act # {}
  BY <1>1
<1>3. Least(Slots \ act) \in Slots \ act
  BY <1>2, LeastIsMember
<1> QED  BY <1>3 DEF FirstFree

\* The terminal scheduling turns to is one of the terminals.
LEMMA NextTerminalType ==
  ASSUME process_terminal \in Terminals
  PROVE  NextTerminal \in Terminals
BY SizesAssumption DEF NextTerminal, Terminals

\* Saving or killing frames yields frames.
LEMMA SaveContextType ==
  ASSUME NEW ctx \in [Slots -> Frames], NEW ptr \in Slots \cup {NULL},
         NEW frame \in Frames
  PROVE  SaveContext(ctx, ptr, frame) \in [Slots -> Frames]
BY DEF SaveContext

\* A kernel stack started anew leaves only frames behind.
LEMMA KillFramesType ==
  ASSUME NEW ctx \in [Slots -> Frames], NEW n
  PROVE  KillFrames(ctx, n) \in [Slots -> Frames]
<1>1. Dead \in Frames
  BY DEF Frames
<1> QED  BY <1>1 DEF KillFrames

\* The frames the code saves, and the dead one, are frames.
LEMMA FrameType ==
  ASSUME NEW s \in Slots \cup {BOOT}
  PROVE  /\ Frame("execute", s) \in Frames
         /\ Frame("scheduling", s) \in Frames
         /\ Dead \in Frames
BY DEF Frame, Frames

\* Setting or clearing a flag stays within the flag array.
LEMMA SetFlagType ==
  ASSUME NEW U, NEW S \in SUBSET U, NEW x \in U, NEW on
  PROVE  SetFlag(S, x, on) \in SUBSET U
BY DEF SetFlag

\* What execute returns fits its type: -1, or a sign-extended byte.
LEMMA OutcomeType ==
  ASSUME NEW byte \in 0 .. 255, NEW cause \in {"halt", "exception"}
  PROVE  [value |-> SignExtend(byte), cause |-> cause] \in Outcomes
BY DEF SignExtend, Outcomes

-----------------------------------------------------------------------------
(* Type correctness                                                         *)

\* What starting a process writes, correctly typed.
LaunchTypeOK ==
  /\ active_processes \subseteq Slots
  /\ parent_pcb \in [Slots -> Slots \cup {NULL}]
  /\ context \in [Slots -> Frames]
  /\ vidmapped \subseteq Slots
  /\ has_argument \subseteq Slots
  /\ cur_pcb_ptr \in [Terminals -> Slots \cup {NULL}]
  /\ program_page \in Slots
  /\ tss_esp0 \in Slots
  /\ image \in [Slots -> Programs \cup {NULL}]
  /\ shell_flag \subseteq Terminals
  /\ running \in Slots

\* The tail of a successful sys_execute keeps the types.
LEMMA LaunchType ==
  ASSUME TypeOK,
         NEW prog \in Programs, NEW arg, NEW term \in Terminals,
         NEW act, act \subseteq Slots, act # Slots,
         NEW cur \in [Terminals -> Slots \cup {NULL}],
         NEW ctx \in [Slots -> Frames], NEW vm, vm \subseteq Slots,
         Launch(prog, arg, term, act, cur, ctx, vm)
  PROVE  LaunchTypeOK'
<1>1. FirstFree(act) \in Slots
  BY FirstFreeIsFree
<1>2. context' \in [Slots -> Frames]
  BY KillFramesType DEF Launch
<1>3. has_argument' \subseteq Slots /\ shell_flag' \subseteq Terminals
  BY <1>1, SetFlagType DEF Launch, TypeOK
<1> QED  BY <1>1, <1>2, <1>3 DEF Launch, LaunchTypeOK, TypeOK

\* Type correctness is inductive.
LEMMA TypeOKStep ==
  ASSUME TypeOK, [Next]_vars
  PROVE  TypeOK'
<1> USE DEF TypeOK, LaunchTypeOK
<1>0. /\ Current \in Slots \cup {NULL}
      /\ ExecuteTerm \in Terminals
      /\ NextTerminal \in Terminals
  BY NextTerminalType DEF Current, ExecuteTerm
<1>f. [value |-> -1, cause |-> "failed"] \in Outcomes
  BY DEF Outcomes
<1>1. ASSUME ExecuteUnparsable PROVE TypeOK'
  BY <1>1, <1>f DEF ExecuteUnparsable, pcbVars, memoryVars, flagVars
<1>2. ASSUME NEW arg \in BOOLEAN, ExecuteNotFound(arg) PROVE TypeOK'
  <2>1. context' \in [Slots -> Frames]
    BY <1>0, <1>2, SaveContextType, FrameType DEF ExecuteNotFound, CanExecute
  <2>2. arg_flag' \subseteq Terminals
    BY <1>0, <1>2, SetFlagType DEF ExecuteNotFound
  <2> QED  BY <1>2, <1>f, <2>1, <2>2 DEF ExecuteNotFound, memoryVars
<1>3. ASSUME NEW arg \in BOOLEAN, ExecuteNoSlot(arg) PROVE TypeOK'
  <2>1. context' \in [Slots -> Frames]
    BY <1>0, <1>3, SaveContextType, FrameType DEF ExecuteNoSlot, CanExecute
  <2>2. arg_flag' \subseteq Terminals
    BY <1>0, <1>3, SetFlagType DEF ExecuteNoSlot
  <2> QED  BY <1>3, <1>f, <2>1, <2>2 DEF ExecuteNoSlot, memoryVars
<1>4. ASSUME NEW prog \in Programs, NEW arg \in BOOLEAN,
             ExecuteProgram(prog, arg)
      PROVE  TypeOK'
  <2>1. SaveContext(context, cur_pcb_ptr[ExecuteTerm],
                    Frame("execute", running)) \in [Slots -> Frames]
    BY <1>0, <1>4, SaveContextType, FrameType DEF ExecuteProgram, CanExecute
  <2>2. arg_flag' \subseteq Terminals
    BY <1>0, <1>4, SetFlagType DEF ExecuteProgram
  <2> QED  BY <1>0, <1>4, <2>1, <2>2, LaunchType DEF ExecuteProgram
<1>5. ASSUME HaltBaseShell PROVE TypeOK'
  <2>1. active_processes \ {Current} # Slots
    BY <1>0, <1>5 DEF HaltBaseShell
  <2>2. /\ [cur_pcb_ptr EXCEPT ![process_terminal] = NULL]
             \in [Terminals -> Slots \cup {NULL}]
        /\ active_processes \ {Current} \subseteq Slots
        /\ vidmapped \ {Current} \subseteq Slots
        /\ Shell \in Programs
    BY ProgramsAssumption
  <2>3. Launch(Shell, FALSE, process_terminal, active_processes \ {Current},
               [cur_pcb_ptr EXCEPT ![process_terminal] = NULL],
               context, vidmapped \ {Current})
    BY <1>5 DEF HaltBaseShell
  <2>4. LaunchTypeOK'
    BY <2>1, <2>2, <2>3, LaunchType
  <2>5. open_fds' \in [Slots -> SUBSET FdIdx]
    BY <1>0, <1>5 DEF HaltBaseShell
  <2> QED  BY <1>5, <2>4, <2>5 DEF HaltBaseShell
<1>6. ASSUME NEW status \in 0 .. 255, NEW cause \in {"halt", "exception"},
             HaltToParent(status, cause)
      PROVE  TypeOK'
  <2>1. /\ Current \in Slots
        /\ parent_pcb[Current] \in Slots
    BY <1>0, <1>6 DEF HaltToParent
  <2>2. context' \in [Slots -> Frames]
    BY <1>6, <2>1, FrameType DEF HaltToParent
  <2>3. eax' \in Outcomes
    BY <1>6, OutcomeType DEF HaltToParent
  <2> QED  BY <1>6, <2>1, <2>2, <2>3 DEF HaltToParent
<1>7. ASSUME Open PROVE TypeOK'
  <2>1. FdIdx \subseteq Nat
    BY SizesAssumption DEF FdIdx
  <2>2. Current \in Slots /\ open_fds[Current] # FdIdx
    BY <1>0, <1>7 DEF Open
  <2>3. open_fds[Current] \subseteq FdIdx
    BY <2>2
  <2>4. Least(FdIdx \ open_fds[Current]) \in FdIdx
    BY <2>1, <2>2, <2>3, LeastIsMember
  <2>5. open_fds' \in [Slots -> SUBSET FdIdx]
    BY <1>7, <2>2, <2>4 DEF Open
  <2> QED  BY <1>7, <2>5 DEF Open, memoryVars, flagVars
<1>8. ASSUME NEW fd \in FdIdx, Close(fd) PROVE TypeOK'
  BY <1>0, <1>8 DEF Close, memoryVars, flagVars
<1>9. ASSUME Vidmap PROVE TypeOK'
  BY <1>0, <1>9 DEF Vidmap, VideoTarget, memoryVars, flagVars
<1>10. ASSUME KernelFault PROVE TypeOK'
  BY <1>10 DEF KernelFault, pcbVars, memoryVars, flagVars
<1>11. ASSUME ScheduleLaunch PROVE TypeOK'
  <2>1. SaveContext(context, Current, Frame("scheduling", running))
          \in [Slots -> Frames]
    BY <1>0, <1>11, SaveContextType, FrameType DEF ScheduleLaunch
  <2> QED  BY <1>0, <1>11, <2>1, LaunchType, ProgramsAssumption, ZenonT(40)
           DEF ScheduleLaunch
<1>12. ASSUME ScheduleLaunchFails PROVE TypeOK'
  <2>1. context' \in [Slots -> Frames]
    BY <1>0, <1>12, SaveContextType, FrameType DEF ScheduleLaunchFails
  <2> QED  BY <1>0, <1>12, <2>1 DEF ScheduleLaunchFails, memoryVars
<1>13. ASSUME ScheduleResume PROVE TypeOK'
  <2>1. cur_pcb_ptr[NextTerminal] \in Slots
    BY <1>0, <1>13 DEF ScheduleResume
  <2>2. SaveContext(context, Current, Frame("scheduling", running))
          \in [Slots -> Frames]
    BY <1>0, <1>13, SaveContextType, FrameType DEF ScheduleResume
  <2>3. context' \in [Slots -> Frames]
    BY <1>13, <2>1, <2>2, FrameType DEF ScheduleResume
  <2> QED  BY <1>0, <1>13, <2>1, <2>3
           DEF ScheduleResume, VideoTarget, flagVars
<1>14. ASSUME NEW t \in Terminals, SwitchTerminal(t) PROVE TypeOK'
  BY <1>14 DEF SwitchTerminal, pcbVars, memoryVars, flagVars
<1>15. ASSUME UNCHANGED vars PROVE TypeOK'
  BY <1>15 DEF vars, pcbVars, memoryVars, flagVars
<1>16. Statuses \subseteq 0 .. 255 /\ Exceptions \subseteq 0 .. 255
  BY ProgramsAssumption
<1> HIDE DEF TypeOK
<1> QED
  BY <1>1, <1>2, <1>3, <1>4, <1>5, <1>6, <1>7, <1>8, <1>9, <1>10, <1>11,
     <1>12, <1>13, <1>14, <1>15, <1>16
  DEF Next, Execute, OtherSteps, Halt, Schedule

\* Every variable keeps its type through every system call, interrupt and
\* exception, for all sizes of the process table.
THEOREM TypeCorrect == Spec => []TypeOK
<1>1. Init => TypeOK
  BY SizesAssumption, FrameType DEF Init, TypeOK, Terminals, Outcomes
<1>2. TypeOK /\ [Next]_vars => TypeOK'
  BY TypeOKStep
<1> QED  BY <1>1, <1>2, PTL DEF Spec

-----------------------------------------------------------------------------
(* The process table                                                        *)

\* The three invariants on the pointers between terminals and PCBs, for a
\* given set of active slots and given cur_pcb_ptr and parent_pcb.
Table(act, cur, par) ==
  /\ \A t \in Terminals : cur[t] # NULL => cur[t] \in act
  /\ \A p \in act : par[p] # NULL => par[p] \in act \ {p}
  /\ \A t, u \in Terminals : cur[t] = cur[u] /\ cur[t] # NULL => t = u
  /\ \A p, q \in act : par[p] = par[q] /\ par[p] # NULL => p = q
  /\ \A p \in act, t \in Terminals : par[p] # NULL => par[p] # cur[t]
  /\ \A p \in act : \/ \E t \in Terminals : cur[t] = p
                    \/ \E q \in act : par[q] = p

\* The table invariant, on the variables, is the three properties the runs
\* check: live pointers, unshared pointers, no leaked slot.
LEMMA TableDef ==
  Table(active_processes, cur_pcb_ptr, parent_pcb)
    <=> PointersLive /\ PointersUnshared /\ NoLeakedSlot
BY DEF Table, PointersLive, PointersUnshared, NoLeakedSlot

\* A terminal's current process becomes the parent of a new one.
LEMMA TablePush ==
  ASSUME NEW act, act \subseteq Slots,
         NEW cur \in [Terminals -> Slots \cup {NULL}],
         NEW par \in [Slots -> Slots \cup {NULL}],
         Table(act, cur, par),
         NEW n \in Slots, n \notin act, NEW t \in Terminals
  PROVE  Table(act \cup {n}, [cur EXCEPT ![t] = n], [par EXCEPT ![n] = cur[t]])
<1> DEFINE act2 == act \cup {n}
           cur2 == [cur EXCEPT ![t] = n]
           par2 == [par EXCEPT ![n] = cur[t]]
<1>0. /\ n # NULL
      /\ \A u \in Terminals : cur2[u] = IF u = t THEN n ELSE cur[u]
      /\ \A p \in Slots : par2[p] = IF p = n THEN cur[t] ELSE par[p]
  BY SentinelsAssumption
<1>1. \A u \in Terminals : cur2[u] # NULL => cur2[u] \in act2
  BY <1>0 DEF Table
<1>2. \A p \in act2 : par2[p] # NULL => par2[p] \in act2 \ {p}
  BY <1>0 DEF Table
<1>3. \A u, v \in Terminals : cur2[u] = cur2[v] /\ cur2[u] # NULL => u = v
  BY <1>0 DEF Table
<1>4. \A p, q \in act2 : par2[p] = par2[q] /\ par2[p] # NULL => p = q
  BY <1>0 DEF Table
<1>5. \A p \in act2, u \in Terminals : par2[p] # NULL => par2[p] # cur2[u]
  BY <1>0 DEF Table
<1>6. ASSUME NEW p \in act2
      PROVE  \/ \E u \in Terminals : cur2[u] = p
             \/ \E q \in act2 : par2[q] = p
  <2>1. CASE p = n
    BY <1>0, <2>1
  <2>2. CASE p # n /\ cur[t] = p
    BY <1>0, <2>2
  <2>3. CASE p # n /\ cur[t] # p /\ \E u \in Terminals : cur[u] = p
    BY <1>0, <2>3
  <2>4. CASE p # n /\ \E q \in act : par[q] = p
    BY <1>0, <2>4
  <2> QED  BY <2>1, <2>2, <2>3, <2>4 DEF Table
<1> HIDE DEF act2, cur2, par2
<1>7. Table(act2, cur2, par2)
  BY <1>1, <1>2, <1>3, <1>4, <1>5, <1>6 DEF Table
<1> QED  BY <1>7 DEF act2, cur2, par2

\* A terminal's current process goes and leaves the terminal to its parent.
LEMMA TablePop ==
  ASSUME NEW act, act \subseteq Slots,
         NEW cur \in [Terminals -> Slots \cup {NULL}],
         NEW par \in [Slots -> Slots \cup {NULL}],
         Table(act, cur, par),
         NEW t \in Terminals, cur[t] # NULL
  PROVE  Table(act \ {cur[t]}, [cur EXCEPT ![t] = par[cur[t]]], par)
<1> DEFINE c    == cur[t]
           act2 == act \ {c}
           cur2 == [cur EXCEPT ![t] = par[c]]
<1>0. /\ c \in act /\ c \in Slots
      /\ \A u \in Terminals : cur2[u] = IF u = t THEN par[c] ELSE cur[u]
      /\ \A p \in act : par[p] # c
  BY DEF Table
<1>1. \A u \in Terminals : cur2[u] # NULL => cur2[u] \in act2
  BY <1>0 DEF Table
<1>2. \A p \in act2 : par[p] # NULL => par[p] \in act2 \ {p}
  BY <1>0 DEF Table
<1>3. \A u, v \in Terminals : cur2[u] = cur2[v] /\ cur2[u] # NULL => u = v
  BY <1>0 DEF Table
<1>4. \A p, q \in act2 : par[p] = par[q] /\ par[p] # NULL => p = q
  BY DEF Table
<1>5. \A p \in act2, u \in Terminals : par[p] # NULL => par[p] # cur2[u]
  BY <1>0 DEF Table
<1>6. ASSUME NEW p \in act2
      PROVE  \/ \E u \in Terminals : cur2[u] = p
             \/ \E q \in act2 : par[q] = p
  <2>1. CASE par[c] = p
    BY <1>0, <2>1
  <2>2. CASE \E u \in Terminals : cur[u] = p
    BY <1>0, <2>2
  <2>3. CASE par[c] # p /\ \E q \in act : par[q] = p
    BY <2>3
  <2> QED  BY <2>1, <2>2, <2>3 DEF Table
<1> HIDE DEF c, act2, cur2
<1>7. Table(act2, cur2, par)
  BY <1>1, <1>2, <1>3, <1>4, <1>5, <1>6 DEF Table
<1> QED  BY <1>7 DEF c, act2, cur2

\* The inductive invariant behind the properties of every execution.
TableInv ==
  /\ TypeOK
  /\ Table(active_processes, cur_pcb_ptr, parent_pcb)
  /\ FreeSlotsAreClean
  /\ TooManyFlagTruthful

\* Steps that start a process in slot n.
LEMMA TableLaunch ==
  ASSUME TypeOK,
         NEW term \in Terminals,
         NEW act, act \subseteq Slots, act # Slots,
         NEW cur \in [Terminals -> Slots \cup {NULL}],
         Table(act, cur, parent_pcb),
         active_processes' = act \cup {FirstFree(act)},
         cur_pcb_ptr' = [cur EXCEPT ![term] = FirstFree(act)],
         parent_pcb' = [parent_pcb EXCEPT ![FirstFree(act)] = cur[term]]
  PROVE  Table(active_processes, cur_pcb_ptr, parent_pcb)'
<1>1. FirstFree(act) \in Slots /\ FirstFree(act) \notin act
  BY FirstFreeIsFree
<1>2. parent_pcb \in [Slots -> Slots \cup {NULL}]
  BY DEF TypeOK
<1>4. Table(active_processes', cur_pcb_ptr', parent_pcb')
  BY <1>1, <1>2, TablePush
<1> QED  BY <1>4 DEF Table

\* Steps that leave the table alone.
LEMMA TableSame ==
  ASSUME Table(active_processes, cur_pcb_ptr, parent_pcb),
         UNCHANGED <<active_processes, cur_pcb_ptr, parent_pcb>>
  PROVE  Table(active_processes, cur_pcb_ptr, parent_pcb)'
BY DEF Table

\* Every step, of Next as a whole, keeps the process table consistent: execute
\* pushes a process, halt pops one, the rest leave the table alone.
LEMMA TableInvStep ==
  ASSUME TableInv, [Next]_vars
  PROVE  TableInv'
<1> USE DEF TableInv
<1>t. TypeOK'
  BY TypeOKStep
<1>0. /\ Current \in Slots \cup {NULL}
      /\ Current # NULL => Current \in active_processes
      /\ ExecuteTerm \in Terminals
      /\ NextTerminal \in Terminals
      /\ process_terminal \in Terminals
      /\ active_processes \subseteq Slots
      /\ cur_pcb_ptr \in [Terminals -> Slots \cup {NULL}]
      /\ parent_pcb \in [Slots -> Slots \cup {NULL}]
      /\ open_fds \in [Slots -> SUBSET FdIdx]
  BY NextTerminalType DEF Current, ExecuteTerm, TypeOK, Table
<1> DEFINE Rest == /\ Table(active_processes, cur_pcb_ptr, parent_pcb)
                   /\ FreeSlotsAreClean
                   /\ TooManyFlagTruthful
<1>1. ASSUME \/ ExecuteUnparsable
             \/ \E arg \in BOOLEAN : ExecuteNotFound(arg) \/ ExecuteNoSlot(arg)
      PROVE  Rest'
  <2>1. UNCHANGED <<active_processes, cur_pcb_ptr, parent_pcb, open_fds, vidmapped>>
    BY <1>1 DEF ExecuteUnparsable, ExecuteNotFound, ExecuteNoSlot, pcbVars
  <2>2. TooManyFlagTruthful'
    BY <1>1 DEF ExecuteUnparsable, ExecuteNotFound, ExecuteNoSlot, flagVars,
                TooManyFlagTruthful
  <2> QED  BY <2>1, <2>2, TableSame DEF FreeSlotsAreClean
<1>4. ASSUME NEW prog \in Programs, NEW arg \in BOOLEAN,
             ExecuteProgram(prog, arg)
      PROVE  Rest'
  <2> DEFINE n == FirstFree(active_processes)
  <2>1. /\ active_processes # Slots
        /\ active_processes' = active_processes \cup {n}
        /\ cur_pcb_ptr' = [cur_pcb_ptr EXCEPT ![ExecuteTerm] = n]
        /\ parent_pcb' = [parent_pcb EXCEPT ![n] = cur_pcb_ptr[ExecuteTerm]]
        /\ vidmapped' = vidmapped \ {n}
        /\ UNCHANGED <<open_fds, too_many_shells_flag>>
    BY <1>4 DEF ExecuteProgram, Launch
  <2>2. Table(active_processes, cur_pcb_ptr, parent_pcb)'
    BY <1>0, <2>1, TableLaunch
  <2>3. FreeSlotsAreClean'
    BY <2>1, <2>2 DEF FreeSlotsAreClean
  <2> QED  BY <2>1, <2>2, <2>3 DEF TooManyFlagTruthful
<1>5. ASSUME HaltBaseShell PROVE Rest'
  <2> DEFINE act == active_processes \ {Current}
             cur == [cur_pcb_ptr EXCEPT ![process_terminal] = NULL]
             n   == FirstFree(act)
  <2>1. /\ Current # NULL
        /\ parent_pcb[Current] = NULL
        /\ active_processes' = act \cup {n}
        /\ cur_pcb_ptr' = [cur EXCEPT ![process_terminal] = n]
        /\ parent_pcb' = [parent_pcb EXCEPT ![n] = cur[process_terminal]]
        /\ vidmapped' = (vidmapped \ {Current}) \ {n}
        /\ too_many_shells_flag' = 0
        /\ open_fds' = [open_fds EXCEPT ![Current] = {}]
    BY <1>5 DEF HaltBaseShell, Launch
  <2>2. Table(act, cur, parent_pcb)
    BY <1>0, <2>1, TablePop DEF Current
  <2>3. act \subseteq Slots /\ act # Slots
    BY <1>0, <2>1
  <2>4. cur \in [Terminals -> Slots \cup {NULL}]
    BY <1>0
  <2>5. Table(active_processes, cur_pcb_ptr, parent_pcb)'
    <3> HIDE DEF act, cur
    <3> QED  BY <1>0, <2>1, <2>2, <2>3, <2>4, TableLaunch
  <2>6. FreeSlotsAreClean'
    BY <1>0, <2>1 DEF FreeSlotsAreClean
  <2> QED  BY <2>1, <2>5, <2>6 DEF TooManyFlagTruthful
<1>6. ASSUME NEW status, NEW cause, HaltToParent(status, cause)
      PROVE  Rest'
  <2>1. /\ Current # NULL
        /\ active_processes' = active_processes \ {Current}
        /\ cur_pcb_ptr' = [cur_pcb_ptr EXCEPT ![process_terminal] =
                             parent_pcb[Current]]
        /\ parent_pcb' = parent_pcb
        /\ open_fds' = [open_fds EXCEPT ![Current] = {}]
        /\ vidmapped' = vidmapped \ {Current}
        /\ too_many_shells_flag' = 0
    BY <1>6 DEF HaltToParent
  <2>2. Table(active_processes', cur_pcb_ptr', parent_pcb')
    BY <1>0, <2>1, TablePop DEF Current
  <2>3. FreeSlotsAreClean'
    BY <1>0, <2>1 DEF FreeSlotsAreClean
  <2> QED  BY <2>1, <2>2, <2>3 DEF TooManyFlagTruthful, Table
<1>7. ASSUME Open \/ Vidmap \/ \E fd \in FdIdx : Close(fd)
      PROVE  Rest'
  <2>1. UNCHANGED <<active_processes, cur_pcb_ptr, parent_pcb, too_many_shells_flag>>
    BY <1>7 DEF Open, Vidmap, Close, flagVars
  <2>2. \A p \in Slots \ active_processes : open_fds'[p] = open_fds[p]
    BY <1>0, <1>7 DEF Open, Vidmap, Close
  <2>3. \A p \in Slots \ active_processes : p \in vidmapped' => p \in vidmapped
    BY <1>0, <1>7 DEF Open, Vidmap, Close
  <2> QED  BY <2>1, <2>2, <2>3, TableSame DEF FreeSlotsAreClean, TooManyFlagTruthful
<1>11. ASSUME ScheduleLaunch PROVE Rest'
  <2> DEFINE n == FirstFree(active_processes)
  <2>1. /\ active_processes # Slots
        /\ active_processes' = active_processes \cup {n}
        /\ cur_pcb_ptr' = [cur_pcb_ptr EXCEPT ![NextTerminal] = n]
        /\ parent_pcb' = [parent_pcb EXCEPT ![n] = cur_pcb_ptr[NextTerminal]]
        /\ vidmapped' = vidmapped \ {n}
        /\ UNCHANGED <<open_fds, too_many_shells_flag>>
    BY <1>11 DEF ScheduleLaunch, Launch
  <2>2. Table(active_processes, cur_pcb_ptr, parent_pcb)'
    BY <1>0, <2>1, TableLaunch
  <2>3. FreeSlotsAreClean'
    BY <2>1, <2>2 DEF FreeSlotsAreClean
  <2> QED  BY <2>1, <2>2, <2>3 DEF TooManyFlagTruthful
<1>12. ASSUME \/ KernelFault \/ ScheduleLaunchFails \/ ScheduleResume
              \/ \E t \in Terminals : SwitchTerminal(t)
              \/ UNCHANGED vars
       PROVE  Rest'
  <2>1. UNCHANGED <<active_processes, cur_pcb_ptr, parent_pcb, open_fds, vidmapped>>
    BY <1>12 DEF KernelFault, ScheduleLaunchFails, ScheduleResume, SwitchTerminal,
                 vars, pcbVars
  <2>2. TooManyFlagTruthful'
    BY <1>12 DEF KernelFault, ScheduleLaunchFails, ScheduleResume, SwitchTerminal,
                 vars, flagVars, TooManyFlagTruthful
  <2> QED  BY <2>1, <2>2, TableSame DEF FreeSlotsAreClean
<1>13. Rest'
  BY <1>1, <1>4, <1>5, <1>6, <1>7, <1>11, <1>12
  DEF Next, Execute, OtherSteps, Halt, Schedule
<1> QED  BY <1>t, <1>13

\* The empty table is consistent.
LEMMA TableInvInit == Init => TableInv
<1>1. Init => TypeOK
  BY SizesAssumption, FrameType DEF Init, TypeOK, Terminals, Outcomes
<1> QED  BY <1>1 DEF Init, TableInv, Table, FreeSlotsAreClean, TooManyFlagTruthful

\* No sequence of execute, halt, exceptions, timer interrupts and terminal
\* switches leaks a slot, leaves a pointer to a freed PCB, or lets two
\* pointers share one, even when commands run on hidden terminals.
THEOREM TableConsistent == Spec => []TableConsistency
<1>1. Init => TableInv
  BY TableInvInit
<1>2. TableInv /\ [Next]_vars => TableInv'
  BY TableInvStep
<1>3. TableInv => TableConsistency
  BY TableDef DEF TableInv, TableConsistency
<1> QED  BY <1>1, <1>2, <1>3, PTL DEF Spec

\* A slot handed to a new process has no descriptor open and no vidmap flag
\* set.
THEOREM SlotsClean == Spec => []FreeSlotsAreClean
<1>1. TableInv /\ [Next]_vars => TableInv'
  BY TableInvStep
<1>2. TableInv => FreeSlotsAreClean
  BY DEF TableInv
<1> QED  BY TableInvInit, <1>1, <1>2, PTL DEF Spec

\* "Too many processes" is only reported when it is true.
THEOREM TooManyTruthful == Spec => []TooManyFlagTruthful
<1>1. TableInv /\ [Next]_vars => TableInv'
  BY TableInvStep
<1>2. TableInv => TooManyFlagTruthful
  BY DEF TableInv
<1> QED  BY TableInvInit, <1>1, <1>2, PTL DEF Spec

-----------------------------------------------------------------------------
(* CPU, stacks and saved contexts in foreground use                         *)

\* The inductive invariant of foreground use.
ForegroundInv ==
  /\ TableInv
  /\ CpuOwnership
  /\ ContextsResumable
  /\ ShellsComeFirst

\* The scheduler always finds a slot for a terminal that has no shell yet:
\* until then the active processes are the shells of the other terminals.
LEMMA SlotForFirstShell ==
  ASSUME ForegroundInv, NEW t \in Terminals, cur_pcb_ptr[t] = NULL
  PROVE  active_processes # Slots
<1> SUFFICES ASSUME active_processes = Slots PROVE FALSE
  OBVIOUS
<1> DEFINE home == [p \in Slots |-> CHOOSE u \in Terminals : cur_pcb_ptr[u] = p]
<1>1. ASSUME NEW p \in Slots
      PROVE  \E u \in Terminals \ {t} : cur_pcb_ptr[u] = p
  <2>1. ~Started
    BY DEF Started
  <2>2. \A q \in Slots : parent_pcb[q] # p
    BY <2>1, SentinelsAssumption DEF ForegroundInv, ShellsComeFirst
  <2>3. p # NULL
    BY SentinelsAssumption
  <2> QED  BY <2>2, <2>3 DEF ForegroundInv, TableInv, Table
<1>2. ASSUME NEW p \in Slots
      PROVE  home[p] \in Terminals \ {t} /\ cur_pcb_ptr[home[p]] = p
  <2>1. home[p] \in Terminals /\ cur_pcb_ptr[home[p]] = p
    BY <1>1
  <2> QED  BY <2>1, SentinelsAssumption
<1> HIDE DEF home
<1>3. home \in [Slots -> Terminals \ {t}]
  <2>1. home = [p \in Slots |-> home[p]]
    BY DEF home
  <2> QED  BY <1>2, <2>1
<1>4. home \in Injection(Slots, Terminals \ {t})
  BY <1>2, <1>3, Fun_IsInj
<1>5. /\ IsFiniteSet(Terminals) /\ Cardinality(Terminals) = NUM_TERMINALS
      /\ IsFiniteSet(Slots) /\ Cardinality(Slots) = MAX_NUM_PROCESSES
  <2>1. ASSUME NEW n \in Nat \ {0}
        PROVE  IsFiniteSet(0 .. n - 1) /\ Cardinality(0 .. n - 1) = n
    <3>1. n - 1 \in Int /\ ~(0 > n - 1) /\ (n - 1) - 0 + 1 = n
      OBVIOUS
    <3> QED  BY <3>1, FS_Interval
  <2> QED  BY <2>1, SizesAssumption DEF Terminals, Slots
<1>6. /\ IsFiniteSet(Terminals \ {t})
      /\ Cardinality(Terminals \ {t}) = NUM_TERMINALS - 1
  BY <1>5, FS_RemoveElement
<1>7. Cardinality(Slots) <= Cardinality(Terminals \ {t})
  BY <1>4, <1>6, FS_Injection
<1> QED  BY <1>5, <1>6, <1>7, SizesAssumption, SlotsForShellsAssumption

\* What the invariant says about the process on the CPU.
LEMMA RunningFacts ==
  ASSUME ForegroundInv
  PROVE  /\ process_terminal \in Terminals
         /\ Current = cur_pcb_ptr[process_terminal]
         /\ Current \in Slots \cup {NULL}
         /\ running \in Slots <=> Current # NULL
         /\ running \in Slots => running = Current /\ running \in active_processes
         /\ running \in Slots \/ running = BOOT
BY SentinelsAssumption
DEF ForegroundInv, TableInv, TypeOK, Table, CpuOwnership, Current

\* The slot of a frame is the one whose kernel stack holds it.
LEMMA FrameSlot ==
  ASSUME NEW k, NEW s
  PROVE  Frame(k, s)[2] = s
BY DEF Frame

\* The frames of waiting processes survive the start of a process in slot n.
LEMMA LaunchKeepsFrames ==
  ASSUME ForegroundInv, NEW n \in Slots, NEW ctx \in [Slots -> Frames],
         NEW p \in Slots, p # n,
         \/ ctx[p] = Frame("scheduling", p)
         \/ ctx[p] = Frame("execute", p)
  PROVE  KillFrames(ctx, n)[p] = ctx[p]
BY FrameSlot DEF KillFrames

\* Every step of foreground use keeps the CPU with its owner and every other
\* process resumable.
LEMMA ForegroundInvStep ==
  ASSUME ForegroundInv, [ForegroundNext]_vars
  PROVE  ForegroundInv'
<1> DEFINE Goal == CpuOwnership /\ ContextsResumable /\ ShellsComeFirst
<1>n. [Next]_vars
  BY DEF ForegroundNext, ForegroundExecute, Next
<1>t. TableInv /\ TypeOK
  BY DEF ForegroundInv, TableInv
<1>T. TableInv' /\ TypeOK'
  BY <1>t, <1>n, TableInvStep DEF TableInv
<1>0. /\ process_terminal \in Terminals
      /\ Current = cur_pcb_ptr[process_terminal]
      /\ Current \in Slots \cup {NULL}
      /\ running \in Slots <=> Current # NULL
      /\ running \in Slots => running = Current /\ running \in active_processes
      /\ running \in Slots \/ running = BOOT
  BY RunningFacts
<1>1. /\ NULL \notin Slots
      /\ BOOT \notin Slots /\ LOST \notin Slots /\ BOOT # LOST
  BY SentinelsAssumption
<1>2. /\ active_processes \subseteq Slots
      /\ cur_pcb_ptr \in [Terminals -> Slots \cup {NULL}]
      /\ parent_pcb \in [Slots -> Slots \cup {NULL}]
      /\ context \in [Slots -> Frames]
      /\ NextTerminal \in Terminals
  BY <1>t, NextTerminalType DEF TypeOK
<1>3. Table(active_processes, cur_pcb_ptr, parent_pcb)
  BY <1>t DEF TableInv
<1>4. /\ CpuOwnership
      /\ ContextsResumable
      /\ ShellsComeFirst
  BY DEF ForegroundInv
<1>5. ASSUME \/ ExecuteUnparsable
             \/ Open \/ Vidmap \/ \E fd \in FdIdx : Close(fd)
             \/ \E t \in Terminals : SwitchTerminal(t)
             \/ UNCHANGED vars
      PROVE  Goal'
  <2>1. UNCHANGED <<active_processes, cur_pcb_ptr, process_terminal, running,
                    parent_pcb, context, program_page, tss_esp0>>
    BY <1>5 DEF ExecuteUnparsable, Open, Vidmap, Close, SwitchTerminal, vars,
                pcbVars, memoryVars
  <2> QED  BY <1>4, <2>1
           DEF CpuOwnership, ContextsResumable, ShellsComeFirst, Current, Started
<1>6. ASSUME NEW arg \in BOOLEAN, visible_terminal = process_terminal,
             ExecuteNotFound(arg) \/ ExecuteNoSlot(arg)
      PROVE  Goal'
  <2>1. /\ running \in Slots
        /\ context' = SaveContext(context, cur_pcb_ptr[ExecuteTerm], Dead)
        /\ UNCHANGED <<active_processes, cur_pcb_ptr, process_terminal, running,
                       parent_pcb, program_page, tss_esp0>>
    BY <1>6 DEF ExecuteNotFound, ExecuteNoSlot, CanExecute, memoryVars
  <2>2. context' = [context EXCEPT ![running] = Dead]
    BY <1>0, <1>1, <1>6, <2>1 DEF SaveContext, ExecuteTerm
  <2>3. \A p \in active_processes \ {running} : context'[p] = context[p]
    BY <1>2, <2>2
  <2>4. CpuOwnership' /\ ShellsComeFirst'
    BY <1>4, <2>1 DEF CpuOwnership, ShellsComeFirst, Current, Started
  <2> QED  BY <1>4, <2>1, <2>3, <2>4 DEF ContextsResumable
<1>7. ASSUME NEW prog \in Programs, NEW arg \in BOOLEAN,
             Started, visible_terminal = process_terminal,
             ExecuteProgram(prog, arg)
      PROVE  Goal'
  <2> DEFINE n     == FirstFree(active_processes)
             saved == [context EXCEPT ![running] = Frame("execute", running)]
  <2>1. running \in Slots /\ running = Current /\ running \in active_processes
    BY <1>0, <1>7 DEF ExecuteProgram, CanExecute
  <2>2. ExecuteTerm = process_terminal
    BY <1>0, <1>7 DEF ExecuteTerm
  <2>3. SaveContext(context, cur_pcb_ptr[ExecuteTerm], Frame("execute", running)) = saved
    BY <1>0, <1>1, <2>1, <2>2 DEF SaveContext
  <2>4. n \in Slots /\ n \notin active_processes
    BY <1>2, <1>7, FirstFreeIsFree DEF ExecuteProgram
  <2>5. /\ active_processes' = active_processes \cup {n}
        /\ cur_pcb_ptr' = [cur_pcb_ptr EXCEPT ![process_terminal] = n]
        /\ context' = KillFrames(saved, n)
        /\ running' = n /\ program_page' = n /\ tss_esp0' = n
        /\ process_terminal' = process_terminal
    BY <1>7, <2>2, <2>3 DEF ExecuteProgram, Launch
  <2>6. CpuOwnership'
    BY <1>0, <1>1, <1>2, <2>4, <2>5 DEF CpuOwnership, Current
  <2>7. ASSUME NEW p \in active_processes
        PROVE  context'[p] = IF \E t \in Terminals : cur_pcb_ptr'[t] = p
                               THEN Frame("scheduling", p)
                               ELSE Frame("execute", p)
    <3>1. saved \in [Slots -> Frames]
      BY <1>2, <2>1, FrameType
    <3>2. CASE p = running
      <4>1. \A t \in Terminals : cur_pcb_ptr'[t] # p
        BY <1>0, <1>1, <1>2, <1>3, <2>1, <2>4, <2>5, <3>2 DEF Table
      <4>2. saved[p] = Frame("execute", p)
        BY <1>2, <2>1, <3>2
      <4>3. context'[p] = Frame("execute", p)
        BY <1>2, <2>4, <2>5, <3>1, <4>2, LaunchKeepsFrames
      <4> QED  BY <4>1, <4>3
    <3>3. CASE p # running
      <4>1. (\E t \in Terminals : cur_pcb_ptr'[t] = p)
              <=> (\E t \in Terminals : cur_pcb_ptr[t] = p)
        BY <1>0, <1>2, <2>1, <2>4, <2>5, <3>3
      <4>2. saved[p] = context[p]
        BY <1>2, <2>1, <3>3
      <4>3. context[p] = IF \E t \in Terminals : cur_pcb_ptr[t] = p
                           THEN Frame("scheduling", p)
                           ELSE Frame("execute", p)
        BY <1>4, <3>3 DEF ContextsResumable
      <4>4. context'[p] = context[p]
        <5>1. saved[p] \in {Frame("scheduling", p), Frame("execute", p)}
          BY <4>2, <4>3
        <5>2. p # n /\ p \in Slots
          BY <1>2, <2>4
        <5>3. KillFrames(saved, n)[p] = saved[p]
          BY <2>4, <3>1, <5>1, <5>2, LaunchKeepsFrames
        <5> QED  BY <2>5, <4>2, <5>3
      <4> QED  BY <4>1, <4>3, <4>4
    <3> QED  BY <3>2, <3>3
  <2>8. ContextsResumable'
    BY <2>5, <2>7 DEF ContextsResumable
  <2>9. ShellsComeFirst'
    BY <1>0, <1>1, <1>2, <1>7, <2>4, <2>5 DEF ShellsComeFirst, Started
  <2> QED  BY <2>6, <2>8, <2>9
<1>8. ASSUME HaltBaseShell PROVE Goal'
  <2> DEFINE act == active_processes \ {Current}
             n   == FirstFree(act)
  <2>1. running \in Slots /\ running = Current /\ running \in active_processes
    BY <1>0, <1>8 DEF HaltBaseShell
  <2>2. n \in Slots /\ n \notin act
    <3>1. act \subseteq Slots /\ act # Slots
      BY <1>2, <2>1
    <3> QED  BY <3>1, FirstFreeIsFree
  <2>3. /\ active_processes' = act \cup {n}
        /\ cur_pcb_ptr' = [cur_pcb_ptr EXCEPT ![process_terminal] = n]
        /\ parent_pcb' = [parent_pcb EXCEPT ![n] = NULL]
        /\ context' = KillFrames(context, n)
        /\ running' = n /\ program_page' = n /\ tss_esp0' = n
        /\ process_terminal' = process_terminal
    BY <1>0, <1>2, <1>8 DEF HaltBaseShell, Launch
  <2>4. CpuOwnership'
    BY <1>0, <1>1, <1>2, <2>2, <2>3 DEF CpuOwnership, Current
  <2>5. ASSUME NEW p \in act, p # n
        PROVE  context'[p] = IF \E t \in Terminals : cur_pcb_ptr'[t] = p
                               THEN Frame("scheduling", p)
                               ELSE Frame("execute", p)
    <3>1. (\E t \in Terminals : cur_pcb_ptr'[t] = p)
            <=> (\E t \in Terminals : cur_pcb_ptr[t] = p)
      BY <1>0, <1>2, <2>1, <2>2, <2>3, <2>5
    <3>2. context[p] = IF \E t \in Terminals : cur_pcb_ptr[t] = p
                         THEN Frame("scheduling", p)
                         ELSE Frame("execute", p)
      BY <1>4, <2>1 DEF ContextsResumable
    <3>3. context'[p] = context[p]
      BY <1>2, <2>2, <2>3, <2>5, <3>2, LaunchKeepsFrames
    <3> QED  BY <3>1, <3>2, <3>3
  <2>6. ContextsResumable'
    BY <2>3, <2>5 DEF ContextsResumable
  <2>7. ShellsComeFirst'
    BY <1>0, <1>1, <1>2, <1>4, <2>2, <2>3 DEF ShellsComeFirst, Started
  <2> QED  BY <2>4, <2>6, <2>7
<1>9. ASSUME NEW status, NEW cause, HaltToParent(status, cause) PROVE Goal'
  <2> DEFINE p == parent_pcb[Current]
  <2>1. running \in Slots /\ running = Current /\ running \in active_processes
    BY <1>0, <1>9 DEF HaltToParent
  <2>2. p \in active_processes /\ p # running /\ p \in Slots /\ p # NULL
    BY <1>2, <1>3, <1>9, <2>1 DEF HaltToParent, Table
  <2>3. \A t \in Terminals : cur_pcb_ptr[t] # p
    BY <1>3, <2>1, <2>2 DEF Table
  <2>4. context[p] = Frame("execute", p)
    BY <1>4, <2>2, <2>3 DEF ContextsResumable
  <2>5. /\ active_processes' = active_processes \ {running}
        /\ cur_pcb_ptr' = [cur_pcb_ptr EXCEPT ![process_terminal] = p]
        /\ parent_pcb' = parent_pcb
        /\ context' = [context EXCEPT ![p] = Dead]
        /\ running' = p /\ program_page' = p /\ tss_esp0' = p
        /\ process_terminal' = process_terminal
    BY <1>9, <2>1, <2>4 DEF HaltToParent
  <2>6. CpuOwnership'
    BY <1>0, <1>1, <1>2, <2>2, <2>5 DEF CpuOwnership, Current
  <2>7. ASSUME NEW q \in active_processes, q # running, q # p
        PROVE  context'[q] = IF \E t \in Terminals : cur_pcb_ptr'[t] = q
                               THEN Frame("scheduling", q)
                               ELSE Frame("execute", q)
    <3>1. (\E t \in Terminals : cur_pcb_ptr'[t] = q)
            <=> (\E t \in Terminals : cur_pcb_ptr[t] = q)
      BY <1>0, <1>2, <2>1, <2>5, <2>7
    <3>2. context[q] = IF \E t \in Terminals : cur_pcb_ptr[t] = q
                         THEN Frame("scheduling", q)
                         ELSE Frame("execute", q)
      BY <1>4, <2>7 DEF ContextsResumable
    <3>3. context'[q] = context[q]
      BY <1>2, <2>5, <2>7
    <3> QED  BY <3>1, <3>2, <3>3
  <2>8. ContextsResumable'
    BY <2>5, <2>7 DEF ContextsResumable
  <2>9. ShellsComeFirst'
    BY <1>0, <1>2, <1>4, <2>1, <2>2, <2>5 DEF ShellsComeFirst, Started
  <2> QED  BY <2>6, <2>8, <2>9
<1>10. ASSUME KernelFault PROVE Goal'
  BY <1>0, <1>10 DEF KernelFault
<1>11. ASSUME ScheduleLaunchFails PROVE Goal'
  BY <1>2, <1>11, SlotForFirstShell DEF ScheduleLaunchFails
<1> DEFINE saved == SaveContext(context, Current, Frame("scheduling", running))
<1>12. ASSUME NEW p \in active_processes,
              \/ p # running
              \/ running \in Slots
       PROVE  /\ saved \in [Slots -> Frames]
              /\ saved[p] = IF \E t \in Terminals : cur_pcb_ptr[t] = p
                              THEN Frame("scheduling", p)
                              ELSE Frame("execute", p)
  <2>1. saved \in [Slots -> Frames]
    BY <1>0, <1>2, SaveContextType, FrameType
  <2>2. CASE p = running
    <3>1. saved[p] = Frame("scheduling", p)
      BY <1>0, <1>1, <1>2, <1>12, <2>2 DEF SaveContext
    <3>2. cur_pcb_ptr[process_terminal] = p
      BY <1>0, <1>12, <2>2
    <3> QED  BY <1>0, <2>1, <3>1, <3>2
  <2>3. CASE p # running
    <3>1. saved[p] = context[p]
      BY <1>0, <1>1, <1>2, <2>3 DEF SaveContext
    <3> QED  BY <1>4, <2>1, <2>3, <3>1 DEF ContextsResumable
  <2> QED  BY <2>2, <2>3
<1>13. running \notin active_processes \/ running \in Slots
  BY <1>2
<1>14. ASSUME ScheduleLaunch PROVE Goal'
  <2> DEFINE n == FirstFree(active_processes)
  <2>1. n \in Slots /\ n \notin active_processes
    BY <1>2, <1>14, FirstFreeIsFree DEF ScheduleLaunch
  <2>2. /\ active_processes' = active_processes \cup {n}
        /\ cur_pcb_ptr' = [cur_pcb_ptr EXCEPT ![NextTerminal] = n]
        /\ parent_pcb' = [parent_pcb EXCEPT ![n] = NULL]
        /\ context' = KillFrames(saved, n)
        /\ running' = n /\ program_page' = n /\ tss_esp0' = n
        /\ process_terminal' = NextTerminal
        /\ cur_pcb_ptr[NextTerminal] = NULL
    BY <1>14 DEF ScheduleLaunch, Launch
  <2>3. CpuOwnership'
    BY <1>1, <1>2, <2>1, <2>2 DEF CpuOwnership, Current
  <2>4. ASSUME NEW p \in active_processes
        PROVE  context'[p] = IF \E t \in Terminals : cur_pcb_ptr'[t] = p
                               THEN Frame("scheduling", p)
                               ELSE Frame("execute", p)
    <3> HIDE DEF saved
    <3>1. (\E t \in Terminals : cur_pcb_ptr'[t] = p)
            <=> (\E t \in Terminals : cur_pcb_ptr[t] = p)
      BY <1>1, <1>2, <2>1, <2>2
    <3>2. context'[p] = saved[p]
      BY <1>2, <1>12, <1>13, <2>1, <2>2, LaunchKeepsFrames
    <3> QED  BY <1>12, <1>13, <3>1, <3>2
  <2>5. ContextsResumable'
    BY <2>2, <2>4 DEF ContextsResumable
  <2>6. ShellsComeFirst'
    BY <1>2, <1>4, <2>1, <2>2 DEF ShellsComeFirst, Started
  <2> QED  BY <2>3, <2>5, <2>6
<1>15. ASSUME ScheduleResume PROVE Goal'
  <2> DEFINE p == cur_pcb_ptr[NextTerminal]
  <2>1. p \in Slots /\ p \in active_processes
    BY <1>2, <1>3, <1>15 DEF ScheduleResume, Table
  <2>2. saved[p] = Frame("scheduling", p)
    BY <1>2, <1>12, <1>13, <2>1
  <2>3. /\ UNCHANGED <<active_processes, cur_pcb_ptr, parent_pcb>>
        /\ context' = [saved EXCEPT ![p] = Dead]
        /\ running' = p /\ program_page' = p /\ tss_esp0' = p
        /\ process_terminal' = NextTerminal
    BY <1>15, <2>2 DEF ScheduleResume
  <2>4. CpuOwnership'
    BY <1>1, <1>2, <2>1, <2>3 DEF CpuOwnership, Current
  <2>5. ContextsResumable'
    <3> HIDE DEF saved
    <3> QED  BY <1>2, <1>12, <1>13, <2>3 DEF ContextsResumable
  <2>6. ShellsComeFirst'
    BY <1>4, <2>3 DEF ShellsComeFirst, Started
  <2> QED  BY <2>4, <2>5, <2>6
<1>16. Goal'
  BY <1>5, <1>6, <1>7, <1>8, <1>9, <1>10, <1>11, <1>14, <1>15
  DEF ForegroundNext, ForegroundExecute, Execute, OtherSteps, Halt, Schedule
<1> QED  BY <1>T, <1>16 DEF ForegroundInv

\* Boot: no process yet, and nothing to resume.
LEMMA ForegroundInvInit == Init => ForegroundInv
<1>1. 0 \in Terminals
  BY SizesAssumption DEF Terminals
<1> QED  BY <1>1, TableInvInit, SentinelsAssumption
         DEF Init, ForegroundInv, CpuOwnership, ContextsResumable,
             ShellsComeFirst, Current

\* The invariant holds in every state of foreground use.
LEMMA ForegroundInvariant == ForegroundSpec => []ForegroundInv
<1>1. ForegroundInv /\ [ForegroundNext]_vars => ForegroundInv'
  BY ForegroundInvStep
<1> QED  BY ForegroundInvInit, <1>1, PTL DEF ForegroundSpec

\* In foreground use the CPU, the page at 128 MB and the TSS always belong to
\* the current process of process_terminal, whatever the sizes.
THEOREM CpuOwned == ForegroundSpec => []CpuOwnership
<1>1. ForegroundInv => CpuOwnership
  BY DEF ForegroundInv
<1> QED  BY <1>1, ForegroundInvariant, PTL

\* In foreground use every other process can be taken up where it left off: the
\* round-robin scheduler and the nesting of execute and halt never mix up
\* kernel stacks.
THEOREM AllResumable == ForegroundSpec => []ContextsResumable
<1>1. ForegroundInv => ContextsResumable
  BY DEF ForegroundInv
<1> QED  BY <1>1, ForegroundInvariant, PTL

\* One step of foreground use touches no process but the running one.
LEMMA OthersUntouchedStep ==
  ASSUME ForegroundInv, [ForegroundNext]_vars
  PROVE  [LeavesOthersAlone]_vars
<1>0. /\ Current \in Slots \cup {NULL}
      /\ running \in Slots => running = Current /\ running \in active_processes
  BY RunningFacts
<1>1. /\ active_processes \subseteq Slots
      /\ parent_pcb \in [Slots -> Slots \cup {NULL}]
      /\ image \in [Slots -> Programs \cup {NULL}]
      /\ open_fds \in [Slots -> SUBSET FdIdx]
      /\ NextTerminal \in Terminals
      /\ NULL \notin Slots
  BY NextTerminalType, SentinelsAssumption DEF ForegroundInv, TableInv, TypeOK
<1>3. ASSUME NEW prog \in Programs, NEW arg \in BOOLEAN, ExecuteProgram(prog, arg)
      PROVE  LeavesOthersAlone
  <2> DEFINE n == FirstFree(active_processes)
  <2>1. n \in Slots /\ n \notin active_processes
    BY <1>1, <1>3, FirstFreeIsFree DEF ExecuteProgram
  <2> HIDE DEF n
  <2>2. /\ active_processes' = active_processes \cup {n}
        /\ image' = [image EXCEPT ![n] = prog]
        /\ parent_pcb' = [parent_pcb EXCEPT ![n] = cur_pcb_ptr[ExecuteTerm]]
        /\ has_argument' = SetFlag(has_argument, n, arg)
        /\ vidmapped' = vidmapped \ {n}
        /\ UNCHANGED open_fds
    BY <1>3 DEF ExecuteProgram, Launch, n
  <2> QED  BY <1>1, <2>1, <2>2 DEF LeavesOthersAlone, SetFlag
<1>4. ASSUME ScheduleLaunch PROVE LeavesOthersAlone
  <2> DEFINE n == FirstFree(active_processes)
  <2>1. n \in Slots /\ n \notin active_processes
    BY <1>1, <1>4, FirstFreeIsFree DEF ScheduleLaunch
  <2> HIDE DEF n
  <2>2. /\ active_processes' = active_processes \cup {n}
        /\ image' = [image EXCEPT ![n] = Shell]
        /\ parent_pcb' = [parent_pcb EXCEPT ![n] = cur_pcb_ptr[NextTerminal]]
        /\ has_argument' = SetFlag(has_argument, n, FALSE)
        /\ vidmapped' = vidmapped \ {n}
        /\ UNCHANGED open_fds
    BY <1>4 DEF ScheduleLaunch, Launch, n
  <2> QED  BY <1>1, <2>1, <2>2 DEF LeavesOthersAlone, SetFlag
<1>5. ASSUME HaltBaseShell PROVE LeavesOthersAlone
  <2> DEFINE act == active_processes \ {running}
             n   == FirstFree(act)
  <2>1. running \in Slots /\ running = Current /\ running \in active_processes
    BY <1>0, <1>5 DEF HaltBaseShell
  <2>2. act \subseteq Slots /\ act # Slots
    BY <1>1, <2>1
  <2>3. n \in Slots /\ n \notin act
    BY <2>2, FirstFreeIsFree
  <2>4. /\ active_processes' = act \cup {n}
        /\ image' = [image EXCEPT ![n] = Shell]
        /\ \E r : parent_pcb' = [parent_pcb EXCEPT ![n] = r]
        /\ has_argument' = SetFlag(has_argument, n, FALSE)
        /\ vidmapped' = (vidmapped \ {running}) \ {n}
        /\ open_fds' = [open_fds EXCEPT ![running] = {}]
    BY <1>5, <2>1 DEF HaltBaseShell, Launch
  <2> HIDE DEF n
  <2> QED  BY <1>1, <2>3, <2>4 DEF LeavesOthersAlone, SetFlag
<1>6. ASSUME NEW status, NEW cause, HaltToParent(status, cause)
      PROVE  LeavesOthersAlone
  <2>1. running = Current
    BY <1>0, <1>6 DEF HaltToParent
  <2> QED  BY <1>1, <1>6, <2>1 DEF HaltToParent, LeavesOthersAlone
<1>7. ASSUME Open \/ Vidmap \/ \E fd \in FdIdx : Close(fd)
      PROVE  LeavesOthersAlone
  <2>1. running = Current
    BY <1>0, <1>7 DEF Open, Vidmap, Close
  <2> QED  BY <1>1, <1>7, <2>1 DEF Open, Vidmap, Close, LeavesOthersAlone, memoryVars
<1>8. ASSUME \/ ExecuteUnparsable
             \/ \E arg \in BOOLEAN : ExecuteNotFound(arg) \/ ExecuteNoSlot(arg)
             \/ KernelFault \/ ScheduleLaunchFails \/ ScheduleResume
             \/ \E t \in Terminals : SwitchTerminal(t)
      PROVE  LeavesOthersAlone
  BY <1>8 DEF ExecuteUnparsable, ExecuteNotFound, ExecuteNoSlot, KernelFault,
              ScheduleLaunchFails, ScheduleResume, SwitchTerminal,
              LeavesOthersAlone, pcbVars, memoryVars
<1> QED
  BY <1>3, <1>4, <1>5, <1>6, <1>7, <1>8
  DEF ForegroundNext, ForegroundExecute, Execute, OtherSteps, Halt, Schedule

\* In foreground use no process is ended, overwritten or stripped of its
\* descriptors, argument or video memory by another one.
THEOREM ForegroundIsolation == ForegroundSpec => OthersUntouched
<1>1. ForegroundInv /\ [ForegroundNext]_vars => [LeavesOthersAlone]_vars
  BY OthersUntouchedStep
<1> QED  BY <1>1, ForegroundInvariant, PTL DEF ForegroundSpec, OthersUntouched

-----------------------------------------------------------------------------
(* shell_flag and arg_flag                                                  *)

\* FlagsDescribeCurrent is inductive with one more fact: a process that waits
\* for a child is a shell, because no other program calls execute.
FlagsInv ==
  /\ FlagsDescribeCurrent
  /\ \A p \in active_processes :
       parent_pcb[p] # NULL => image[parent_pcb[p]] = Shell

\* Starting prog in the free slot n of terminal t keeps the flags truthful.
LEMMA FlagsLaunch ==
  ASSUME ForegroundInv, FlagsInv, NEW t \in Terminals, NEW n \in Slots,
         NEW act, act \subseteq active_processes, n \notin act,
         \A u \in Terminals \ {t} : cur_pcb_ptr[u] # n,
         \A p \in act : parent_pcb[p] # n,
         NEW prog, NEW arg \in BOOLEAN, NEW par \in Slots \cup {NULL},
         par # NULL => par # n /\ image[par] = Shell,
         active_processes' = act \cup {n},
         image' = [image EXCEPT ![n] = prog],
         shell_flag' = SetFlag(shell_flag, t, prog = Shell),
         parent_pcb' = [parent_pcb EXCEPT ![n] = par],
         has_argument' = SetFlag(has_argument, n, arg),
         cur_pcb_ptr' = [cur_pcb_ptr EXCEPT ![t] = n],
         \A u \in Terminals \ {t} : u \in arg_flag' <=> u \in arg_flag,
         prog # Shell => (t \in arg_flag' <=> arg)
  PROVE  FlagsInv'
<1>1. /\ image \in [Slots -> Programs \cup {NULL}]
      /\ parent_pcb \in [Slots -> Slots \cup {NULL}]
      /\ cur_pcb_ptr \in [Terminals -> Slots \cup {NULL}]
      /\ active_processes \subseteq Slots
  BY DEF ForegroundInv, TableInv, TypeOK
<1>2. ASSUME NEW u \in Terminals, cur_pcb_ptr'[u] # NULL
      PROVE  /\ (u \in shell_flag') <=> (image'[cur_pcb_ptr'[u]] = Shell)
             /\ image'[cur_pcb_ptr'[u]] # Shell =>
                  ((u \in arg_flag') <=> (cur_pcb_ptr'[u] \in has_argument'))
  <2>1. CASE u = t
    <3>1. cur_pcb_ptr'[u] = n /\ image'[n] = prog
      BY <1>1, <2>1
    <3>2. n \in has_argument' <=> arg
      BY DEF SetFlag
    <3>3. t \in shell_flag' <=> prog = Shell
      BY DEF SetFlag
    <3> QED  BY <2>1, <3>1, <3>2, <3>3
  <2>2. CASE u # t
    <3> DEFINE c == cur_pcb_ptr[u]
    <3>1. cur_pcb_ptr'[u] = c /\ c \in Slots /\ c # n
      BY <1>1, <1>2, <2>2
    <3>2. image'[c] = image[c] /\ (c \in has_argument' <=> c \in has_argument)
      BY <1>1, <3>1 DEF SetFlag
    <3>3. (u \in shell_flag' <=> u \in shell_flag) /\ (u \in arg_flag' <=> u \in arg_flag)
      BY <2>2 DEF SetFlag
    <3>4. c # NULL
      BY <3>1, SentinelsAssumption
    <3> QED  BY <3>1, <3>2, <3>3, <3>4 DEF FlagsInv, FlagsDescribeCurrent
  <2> QED  BY <2>1, <2>2
<1>3. ASSUME NEW p \in act \cup {n}, parent_pcb'[p] # NULL
      PROVE  image'[parent_pcb'[p]] = Shell
  <2>1. CASE p = n
    BY <1>1, <1>3, <2>1
  <2>2. CASE p \in act /\ p # n
    <3>1. /\ parent_pcb'[p] = parent_pcb[p] /\ parent_pcb[p] \in Slots
          /\ p \in active_processes
      BY <1>1, <1>3, <2>2
    <3> QED  BY <1>1, <1>3, <2>2, <3>1 DEF FlagsInv
  <2> QED  BY <1>3, <2>1, <2>2
<1> QED  BY <1>2, <1>3 DEF FlagsInv, FlagsDescribeCurrent

\* Every step keeps the flags truthful when only the shell calls execute.
LEMMA FlagsInvStep ==
  ASSUME Launchers = {Shell}, ForegroundInv, FlagsInv, [ForegroundNext]_vars
  PROVE  FlagsInv'
<1>0. /\ process_terminal \in Terminals
      /\ Current = cur_pcb_ptr[process_terminal]
      /\ Current \in Slots \cup {NULL}
      /\ running \in Slots => running = Current /\ running \in active_processes
  BY RunningFacts
<1>1. /\ NULL \notin Slots
      /\ active_processes \subseteq Slots
      /\ cur_pcb_ptr \in [Terminals -> Slots \cup {NULL}]
      /\ parent_pcb \in [Slots -> Slots \cup {NULL}]
      /\ image \in [Slots -> Programs \cup {NULL}]
      /\ NextTerminal \in Terminals
      /\ Table(active_processes, cur_pcb_ptr, parent_pcb)
  BY NextTerminalType, SentinelsAssumption DEF ForegroundInv, TableInv, TypeOK
<1>2. ASSUME NEW n \in Slots, n \notin active_processes
      PROVE  /\ \A u \in Terminals : cur_pcb_ptr[u] # n
             /\ \A p \in active_processes : parent_pcb[p] # n
  BY <1>1, <1>2 DEF Table
<1>3. ASSUME NEW prog \in Programs, NEW arg \in BOOLEAN,
             visible_terminal = process_terminal, ExecuteProgram(prog, arg)
      PROVE  FlagsInv'
  <2> DEFINE n == FirstFree(active_processes)
  <2>1. n \in Slots /\ n \notin active_processes
    BY <1>1, <1>3, FirstFreeIsFree DEF ExecuteProgram
  <2> HIDE DEF n
  <2>2. /\ ExecuteTerm = process_terminal
        /\ running \in active_processes /\ image[running] = Shell
        /\ cur_pcb_ptr[process_terminal] = running
    BY <1>0, <1>1, <1>3 DEF ExecuteProgram, CanExecute, ExecuteTerm
  <2>3. /\ active_processes' = active_processes \cup {n}
        /\ image' = [image EXCEPT ![n] = prog]
        /\ shell_flag' = SetFlag(shell_flag, process_terminal, prog = Shell)
        /\ parent_pcb' = [parent_pcb EXCEPT ![n] = running]
        /\ has_argument' = SetFlag(has_argument, n, arg)
        /\ cur_pcb_ptr' = [cur_pcb_ptr EXCEPT ![process_terminal] = n]
        /\ arg_flag' = SetFlag(arg_flag, process_terminal, arg)
    BY <1>3, <2>2 DEF ExecuteProgram, Launch, n
  <2>4. /\ \A u \in Terminals \ {process_terminal} : u \in arg_flag' <=> u \in arg_flag
        /\ process_terminal \in arg_flag' <=> arg
    BY <2>3 DEF SetFlag
  <2>5. running \in Slots /\ running # n
    BY <1>1, <2>1, <2>2
  <2>6. /\ \A u \in Terminals \ {process_terminal} : cur_pcb_ptr[u] # n
        /\ \A p \in active_processes : parent_pcb[p] # n
    BY <1>2, <2>1
  <2>7. \E par \in Slots \cup {NULL} :
          /\ par # NULL => par # n /\ image[par] = Shell
          /\ parent_pcb' = [parent_pcb EXCEPT ![n] = par]
    BY <2>2, <2>3, <2>5
  <2> QED  BY <1>0, <2>1, <2>3, <2>4, <2>6, <2>7, FlagsLaunch
<1>4. ASSUME ScheduleLaunch PROVE FlagsInv'
  <2> DEFINE n == FirstFree(active_processes)
             t == NextTerminal
  <2>1. n \in Slots /\ n \notin active_processes
    BY <1>1, <1>4, FirstFreeIsFree DEF ScheduleLaunch
  <2>2. t \in Terminals
    BY <1>1
  <2>3. /\ active_processes' = active_processes \cup {n}
        /\ image' = [image EXCEPT ![n] = Shell]
        /\ shell_flag' = SetFlag(shell_flag, t, Shell = Shell)
        /\ parent_pcb' = [parent_pcb EXCEPT ![n] = NULL]
        /\ has_argument' = SetFlag(has_argument, n, FALSE)
        /\ cur_pcb_ptr' = [cur_pcb_ptr EXCEPT ![t] = n]
        /\ arg_flag' = arg_flag \ {t}
    BY <1>4 DEF ScheduleLaunch, Launch
  <2> HIDE DEF n, t
  <2> QED  BY <1>2, <2>1, <2>2, <2>3, FlagsLaunch
<1>5. ASSUME HaltBaseShell PROVE FlagsInv'
  <2> DEFINE act == active_processes \ {Current}
             n == FirstFree(act)
             t == process_terminal
  <2>1. Current \in active_processes /\ Current \in Slots
    BY <1>0, <1>1, <1>5 DEF HaltBaseShell
  <2>2. act \subseteq Slots /\ act # Slots /\ act \subseteq active_processes
    BY <1>1, <2>1
  <2>3. n \in Slots /\ n \notin act
    BY <2>2, FirstFreeIsFree
  <2>4. /\ active_processes' = act \cup {n}
        /\ image' = [image EXCEPT ![n] = Shell]
        /\ shell_flag' = SetFlag(shell_flag, t, Shell = Shell)
        /\ has_argument' = SetFlag(has_argument, n, FALSE)
        /\ arg_flag' = arg_flag \ {t}
    BY <1>5 DEF HaltBaseShell, Launch
  <2>5. /\ parent_pcb' = [parent_pcb EXCEPT ![n] = NULL]
        /\ cur_pcb_ptr' = [cur_pcb_ptr EXCEPT ![t] = n]
    BY <1>0, <1>1, <1>5 DEF HaltBaseShell, Launch
  <2> HIDE DEF n
  <2>6. \A u \in Terminals \ {t} : cur_pcb_ptr[u] # n
    BY <1>0, <1>1, <2>1, <2>3 DEF Table
  <2>7. \A p \in act : parent_pcb[p] # n
    BY <1>0, <1>1, <2>1, <2>3 DEF Table
  <2> HIDE DEF act, t
  <2>8. t \in Terminals
    BY <1>0 DEF t
  <2> QED  BY <2>2, <2>3, <2>4, <2>5, <2>6, <2>7, <2>8, FlagsLaunch
<1>6. ASSUME NEW status, NEW cause, HaltToParent(status, cause) PROVE FlagsInv'
  <2> DEFINE p == parent_pcb[Current]
  <2>1. Current \in active_processes /\ Current \in Slots /\ p # NULL
    BY <1>0, <1>1, <1>6 DEF HaltToParent
  <2>2. p \in Slots /\ image[p] = Shell
    BY <1>1, <2>1 DEF FlagsInv
  <2>3. /\ active_processes' = active_processes \ {Current}
        /\ cur_pcb_ptr' = [cur_pcb_ptr EXCEPT ![process_terminal] = p]
        /\ shell_flag' = shell_flag \cup {process_terminal}
        /\ UNCHANGED <<parent_pcb, has_argument, image, arg_flag>>
    BY <1>6 DEF HaltToParent
  <2> HIDE DEF p
  <2> QED  BY <1>0, <1>1, <2>2, <2>3 DEF FlagsInv, FlagsDescribeCurrent
<1>7. ASSUME NEW arg \in BOOLEAN, visible_terminal = process_terminal,
             ExecuteNotFound(arg) \/ ExecuteNoSlot(arg)
      PROVE  FlagsInv'
  <2>1. /\ ExecuteTerm = process_terminal
        /\ image[Current] = Shell
    BY <1>0, <1>7 DEF ExecuteNotFound, ExecuteNoSlot, CanExecute, ExecuteTerm
  <2>2. /\ arg_flag' = SetFlag(arg_flag, process_terminal, arg)
        /\ UNCHANGED <<active_processes, cur_pcb_ptr, parent_pcb, has_argument,
                       image, shell_flag>>
    BY <1>7, <2>1 DEF ExecuteNotFound, ExecuteNoSlot, memoryVars
  <2> QED  BY <1>0, <2>1, <2>2 DEF FlagsInv, FlagsDescribeCurrent, SetFlag
<1>8. ASSUME ScheduleLaunchFails PROVE FALSE
  BY <1>1, <1>8, SlotForFirstShell DEF ScheduleLaunchFails
<1>9. ASSUME UNCHANGED <<active_processes, cur_pcb_ptr, parent_pcb, has_argument,
                         image, shell_flag, arg_flag>>
      PROVE  FlagsInv'
  BY <1>9 DEF FlagsInv, FlagsDescribeCurrent
<1>10. ASSUME \/ ExecuteUnparsable \/ Open \/ Vidmap \/ KernelFault
              \/ \E fd \in FdIdx : Close(fd)
              \/ ScheduleResume
              \/ \E t \in Terminals : SwitchTerminal(t)
              \/ UNCHANGED vars
       PROVE  FlagsInv'
  BY <1>9, <1>10
  DEF ExecuteUnparsable, Open, Vidmap, KernelFault, Close, ScheduleResume,
      SwitchTerminal, vars, pcbVars, memoryVars, flagVars
<1> QED
  BY <1>3, <1>4, <1>5, <1>6, <1>7, <1>8, <1>10
  DEF ForegroundNext, ForegroundExecute, Execute, OtherSteps, Halt, Schedule

\* shell_flag and arg_flag, kept per terminal, describe its current process as
\* long as no program but the shell calls execute: halt sets shell_flag without
\* looking at what the parent is.
THEOREM FlagsTruthful ==
  ASSUME Launchers = {Shell}
  PROVE  ForegroundSpec => []FlagsDescribeCurrent
<1>1. Init => FlagsInv
  BY DEF Init, FlagsInv, FlagsDescribeCurrent
<1>2. ForegroundInv /\ FlagsInv /\ [ForegroundNext]_vars => FlagsInv'
  BY FlagsInvStep
<1>3. FlagsInv => FlagsDescribeCurrent
  BY DEF FlagsInv
<1> QED  BY <1>1, <1>2, <1>3, ForegroundInvariant, PTL DEF ForegroundSpec

-----------------------------------------------------------------------------
(* Video memory                                                             *)

\* Whenever the scheduler gives the CPU to a process that uses vidmap, 132 MB
\* maps to the screen exactly if its terminal is the visible one.
THEOREM VideoMapped == ForegroundSpec => VidmapOnDispatch
<1> DEFINE Dispatched ==
      process_terminal' # process_terminal /\ running' \in vidmapped' =>
        vidmap_page' = IF process_terminal' = visible_terminal'
                         THEN VIDEO ELSE process_terminal'
<1>1. ASSUME ForegroundInv, ForegroundNext PROVE Dispatched
  <2>1. ASSUME ScheduleResume PROVE Dispatched
    <3> DEFINE p == cur_pcb_ptr[NextTerminal]
    <3>1. /\ running' \in {p, LOST} /\ vidmapped' = vidmapped
          /\ process_terminal' = NextTerminal
          /\ visible_terminal' = visible_terminal
          /\ vidmap_page' = IF p \in vidmapped
                              THEN VideoTarget(NextTerminal, visible_terminal)
                              ELSE vidmap_page
      BY <2>1 DEF ScheduleResume
    <3>2. LOST \notin vidmapped
      BY <1>1, SentinelsAssumption DEF ForegroundInv, TableInv, TypeOK
    <3> QED  BY <3>1, <3>2 DEF VideoTarget
  <2>2. ASSUME ScheduleLaunch PROVE Dispatched
    BY <2>2 DEF ScheduleLaunch, Launch
  <2>3. ASSUME ScheduleLaunchFails PROVE FALSE
    BY <1>1, <2>3, SlotForFirstShell, NextTerminalType
    DEF ScheduleLaunchFails, ForegroundInv, TableInv, TypeOK
  <2>4. CASE process_terminal' = process_terminal
    BY <2>4
  <2> QED
    BY <1>1, <2>1, <2>2, <2>3, <2>4
    DEF ForegroundNext, ForegroundExecute, Execute, ExecuteUnparsable,
        ExecuteNotFound, ExecuteNoSlot, ExecuteProgram, OtherSteps, Halt,
        HaltBaseShell, HaltToParent, Open, Close, Vidmap, KernelFault, Schedule,
        SwitchTerminal
<1>2. ForegroundInv /\ [ForegroundNext]_vars => [Dispatched]_vars
  BY <1>1
<1> QED  BY <1>2, ForegroundInvariant, PTL DEF ForegroundSpec, VidmapOnDispatch
=============================================================================
