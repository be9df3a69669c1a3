--------------------------- MODULE InterruptsProofs ---------------------------
(***************************************************************************)
(* Proofs about Interrupts, for any number of terminals, any devices,      *)
(* system call numbers and results, and any nesting of programs.           *)
(***************************************************************************)
EXTENDS Interrupts, SequenceTheorems, WellFoundedInduction, TLAPS

Steps ==
  {"run", "eoi", "handler", "iret", "dispatch", "spin", "waiting", "store",
   "load", "cli", "halt", "execute", "read", "write", "open", "close",
   "getargs", "vidmap", "set_handler", "sigreturn"}
CallSteps == Steps \ {"run", "eoi", "handler", "iret", "cli"}

Frames ==
  [kind : {"user", "kernel", "call", "exception", "irq"}, id : Int,
   step : Steps, flag : BOOLEAN, val : Int]

InterruptsTypeOK ==
  /\ context \in [Contexts -> Seq(Frames)]
  /\ IF_flag \in BOOLEAN
  /\ running \in Contexts
  /\ process_terminal \in Terminals
  /\ booted \in {"pic", "sti", "pit", "flag", "done"}

\* Where a frame can be on a kernel stack, given what is below and above it.
FrameFits(s, i) ==
  /\ s[i].kind \in {"user", "kernel"} => s[i].step = "run"
  /\ s[i].kind = "kernel" => i = 1
  /\ s[i].kind = "user" /\ i > 1 => s[i - 1].step = "waiting"
  /\ s[i].kind = "irq" =>
       /\ i > 1 /\ i = Len(s) /\ s[i].flag
       /\ s[i].step \in {"eoi", "handler", "iret"}
  /\ s[i].kind = "exception" => s[i].step \in {"cli", "halt"}
  /\ s[i].kind = "call" => s[i].step \in CallSteps
  /\ s[i].kind \in {"call", "exception"} =>
       i > 1 /\ s[i - 1].kind = "user" /\ s[i].flag
  /\ i < Len(s) => s[i].step \in {"run", "spin", "cli", "waiting"}
  /\ s[i].step = "waiting" => i < Len(s) /\ s[i + 1].kind = "user"

Shape(s) == \A i \in 1 .. Len(s) : FrameFits(s, i)

\* The steps during which the interrupt flag is set.
Open(step) == step \in {"run", "spin", "cli"}
Enabled == booted \notin {"pic", "sti"}

\* The inductive invariant: what the stacks look like, that a context without
\* the CPU is inside scheduling, and what the flag, the controllers and
\* sys_call_eax are at each step of the innermost frame.
StacksInv ==
  /\ \A c \in Contexts : Shape(context[c])
  /\ Len(context[running]) > 0
  /\ Len(context[BOOT]) > 0 /\ context[BOOT][1].kind = "kernel"
  /\ Len(context[BOOT]) > 1 => Enabled
  /\ \A c \in Contexts \ {running} : Len(context[c]) > 0 =>
       context[c][Len(context[c])].step = "handler"
  /\ running # BOOT => booted = "done"
InterruptsInv ==
  /\ InterruptsTypeOK
  /\ StacksInv
  /\ IF_flag = (Open(Top.step) /\ Enabled)
  /\ AcknowledgedInTime
  /\ Top.step = "load" => sys_call_eax = Top.val

-----------------------------------------------------------------------------
(* Kernel stacks                                                            *)

\* The frame the CPU is in is a frame of the running context.
LEMMA TopIsFrame ==
  ASSUME InterruptsTypeOK, Len(context[running]) > 0
  PROVE  /\ context[running] \in Seq(Frames)
         /\ Len(context[running]) \in Nat \ {0}
         /\ Top \in Frames
BY DEF InterruptsTypeOK, Top

\* A stack cut off at one of its frames, with a new step and value in that
\* frame, is a stack: what the wrappers do to their frame, what iret leaves and
\* what halt leaves of the parent's kernel stack.
LEMMA ShapeCut ==
  ASSUME NEW s \in Seq(Frames), Shape(s), NEW t \in Seq(Frames),
         Len(t) > 0, Len(t) <= Len(s),
         \A i \in 1 .. Len(t) - 1 : t[i] = s[i],
         t[Len(t)].kind = s[Len(t)].kind, t[Len(t)].flag = s[Len(t)].flag,
         t[Len(t)].step # "waiting",
         t[Len(t)].kind \in {"user", "kernel"} => t[Len(t)].step = "run",
         t[Len(t)].kind = "irq" => t[Len(t)].step \in {"eoi", "handler", "iret"},
         t[Len(t)].kind = "exception" => t[Len(t)].step \in {"cli", "halt"},
         t[Len(t)].kind = "call" => t[Len(t)].step \in CallSteps
  PROVE  Shape(t)
<1>1. Len(t) \in Nat /\ Len(s) \in Nat
  OBVIOUS
<1> SUFFICES ASSUME NEW i \in 1 .. Len(t) PROVE FrameFits(t, i)
  BY DEF Shape
<1>2. FrameFits(s, i)
  BY <1>1 DEF Shape
<1>3. CASE i = Len(t)
  <2>1. i > 1 => t[i - 1] = s[i - 1]
    BY <1>1, <1>3
  <2> QED  BY <1>1, <1>2, <1>3, <2>1 DEF FrameFits
<1>4. CASE i < Len(t)
  <2>1. t[i] = s[i] /\ (i > 1 => t[i - 1] = s[i - 1])
    BY <1>1, <1>4
  <2>2. t[i + 1].kind = s[i + 1].kind
    BY <1>1, <1>4
  <2>3. s[i].kind # "irq"
    BY <1>1, <1>2, <1>4 DEF FrameFits
  <2> QED  BY <1>1, <1>2, <1>4, <2>1, <2>2, <2>3 DEF FrameFits
<1> QED  BY <1>1, <1>3, <1>4

\* A stack stays one when an interrupt, a call or an exception is put above a
\* frame that can be interrupted by it.
LEMMA ShapePush ==
  ASSUME NEW s \in Seq(Frames), Shape(s), Len(s) > 0, NEW f \in Frames,
         Open(s[Len(s)].step), f.flag,
         \/ f.kind = "irq" /\ f.step = "eoi"
         \/ /\ s[Len(s)].kind = "user"
            /\ \/ f.kind = "call" /\ f.step = "dispatch"
               \/ f.kind = "exception" /\ f.step = "cli"
  PROVE  /\ Append(s, f) \in Seq(Frames)
         /\ Len(Append(s, f)) = Len(s) + 1
         /\ Append(s, f)[Len(s) + 1] = f
         /\ Append(s, f)[1] = s[1]
         /\ Shape(Append(s, f))
<1> DEFINE t == Append(s, f)
<1>1. /\ t \in Seq(Frames) /\ Len(t) = Len(s) + 1 /\ Len(s) \in Nat
      /\ t[Len(s) + 1] = f /\ \A i \in 1 .. Len(s) : t[i] = s[i]
  BY AppendProperties
<1> HIDE DEF t
<1>2. ASSUME NEW i \in 1 .. Len(t) PROVE FrameFits(t, i)
  <2>1. CASE i = Len(t)
    <3>1. i > 1 /\ t[i] = f /\ t[i - 1] = s[Len(s)]
      BY <1>1, <2>1
    <3> QED  BY <1>1, <2>1, <3>1 DEF FrameFits, CallSteps, Steps
  <2>2. CASE i = Len(s)
    <3>1. FrameFits(s, i) /\ t[i] = s[i] /\ (i > 1 => t[i - 1] = s[i - 1])
      BY <1>1, <2>2 DEF Shape
    <3>2. s[i].kind # "irq" /\ s[i].step # "waiting"
      BY <2>2, <3>1 DEF FrameFits, Open
    <3> QED  BY <1>1, <2>2, <3>1, <3>2 DEF FrameFits, Open
  <2>3. CASE i < Len(s)
    <3>1. /\ FrameFits(s, i) /\ t[i] = s[i] /\ t[i + 1] = s[i + 1]
          /\ i > 1 => t[i - 1] = s[i - 1]
      BY <1>1, <2>3 DEF Shape
    <3> QED  BY <1>1, <2>3, <3>1 DEF FrameFits
  <2> QED  BY <1>1, <1>2, <2>1, <2>2, <2>3
<1>3. Shape(t)
  BY <1>2 DEF Shape
<1> QED  BY <1>1, <1>3 DEF t

\* A new stack holds the frame of a program.
LEMMA ShapeUser ==
  /\ User \in Frames /\ <<User>> \in Seq(Frames) /\ Shape(<<User>>)
  /\ Len(<<User>>) = 1 /\ <<User>>[1] = User
<1>1. User \in Frames
  BY DEF User, Frames, Steps
<1>2. <<User>> \in Seq(Frames) /\ Len(<<User>>) = 1 /\ <<User>>[1] = User
  BY <1>1
<1>3. FrameFits(<<User>>, 1)
  BY <1>2 DEF FrameFits, User
<1> QED  BY <1>1, <1>2, <1>3 DEF Shape

\* kernel.c is interrupted by devices only: its context never holds a program.
LEMMA BootStack ==
  ASSUME InterruptsTypeOK, StacksInv
  PROVE  /\ context[BOOT][Len(context[BOOT])].kind \in {"kernel", "irq"}
         /\ Len(context[BOOT]) <= 2
<1>1. BOOT \in Contexts
  BY DEF Contexts
<1>2. /\ context[BOOT] \in Seq(Frames) /\ Len(context[BOOT]) \in Nat \ {0}
      /\ Shape(context[BOOT]) /\ context[BOOT][1].kind = "kernel"
  BY <1>1 DEF InterruptsTypeOK, StacksInv
<1> DEFINE s == context[BOOT]
           n == Len(s)
<1>3. CASE n = 1
  <2>1. s[n].kind = "kernel"
    BY <1>2, <1>3, Zenon
  <2>2. n <= 2
    BY <1>3
  <2> QED  BY <2>1, <2>2, Zenon
<1>4. CASE n > 1
  <2>1. FrameFits(s, 1) /\ FrameFits(s, 2)
    BY <1>2, <1>4 DEF Shape
  <2>2. s[1].step = "run"
    BY <1>2, <2>1 DEF FrameFits
  <2>3. s[2] \in Frames
    BY <1>2, <1>4
  <2>4. s[2].kind = "irq"
    <3>1. s[1].kind = "kernel"
      BY <1>2
    <3> HIDE DEF s
    <3>2. s[2].kind \in {"user", "kernel", "call", "irq", "exception"}
      BY <2>3 DEF Frames
    <3>3. /\ s[2].kind # "kernel"
          /\ s[2].kind = "user" => s[1].step = "waiting"
          /\ s[2].kind \in {"call", "exception"} => s[1].kind = "user"
      BY <2>1 DEF FrameFits
    <3> QED  BY <2>2, <3>1, <3>2, <3>3
  <2>5. n = 2
    <3> HIDE DEF s
    <3> QED  BY <2>1, <2>4 DEF FrameFits
  <2>6. s[n].kind = "irq"
    BY <2>4, <2>5, Zenon
  <2>7. n <= 2
    BY <2>5
  <2> QED  BY <2>6, <2>7, Zenon
<1>5. n = 1 \/ n > 1
  <2>1. n \in Nat \ {0}
    BY <1>2
  <2> HIDE DEF n
  <2> QED  BY <2>1
<1> QED  BY <1>3, <1>4, <1>5, Zenon

\* The innermost of the programs that wait exists when any does.
LEMMA LastIsMember ==
  ASSUME NEW n \in Nat, NEW S, S \subseteq 1 .. n, S # {}
  PROVE  Last(S) \in S
<1> DEFINE D == {n - i : i \in S}
<1>0. \A i \in S : n - i \in Nat
  OBVIOUS
<1>1. D \subseteq Nat /\ D # {}
  BY <1>0
<1>2. PICK d \in D : \A e \in D : <<e, d>> \notin OpToRel(<, Nat)
  BY <1>1, NatLessThanWellFounded, WFMin
<1>3. PICK m \in S : d = n - m
  OBVIOUS
<1>4. ASSUME NEW j \in S PROVE j <= m
  <2>1. n - j \in D /\ n - j \in Nat /\ d \in Nat
    BY <1>1
  <2>2. ~(n - j < d)
    BY <1>2, <2>1 DEF OpToRel
  <2> QED  BY <1>3, <2>2
<1> QED  BY <1>4 DEF Last

-----------------------------------------------------------------------------
(* The actions                                                              *)

\* The invariant survives a step that leaves the CPU in its context, with a
\* well-formed stack and the flag, the controllers and the result variable as
\* the innermost frame requires.
LEMMA SameContext ==
  ASSUME InterruptsInv, NEW t \in Seq(Frames), Shape(t), Len(t) > 0,
         running = BOOT => t[1].kind = "kernel" /\ (Len(t) > 1 => Enabled),
         context' = [context EXCEPT ![running] = t],
         UNCHANGED <<running, process_terminal, booted>>,
         IF_flag' = (Open(t[Len(t)].step) /\ Enabled),
         isr' = IF t[Len(t)].kind = "irq" /\ t[Len(t)].step = "eoi"
                THEN {t[Len(t)].id, MasterLine(t[Len(t)].id)} ELSE {},
         t[Len(t)].step = "load" => sys_call_eax' = t[Len(t)].val
  PROVE  InterruptsInv'
<1>1. /\ context \in [Contexts -> Seq(Frames)] /\ running \in Contexts
      /\ BOOT \in Contexts
  BY DEF InterruptsInv, InterruptsTypeOK, Contexts
<1>2. /\ context'[running'] = t /\ running' = running
      /\ \A c \in Contexts \ {running} : context'[c] = context[c]
  BY <1>1
<1>3. InterruptsTypeOK'
  BY <1>1 DEF InterruptsInv, InterruptsTypeOK
<1>4. StacksInv'
  BY <1>1, <1>2 DEF InterruptsInv, StacksInv, Enabled
<1>5. Top' = t[Len(t)]
  BY <1>2 DEF Top
<1>6. (Top.step = "load" => sys_call_eax = Top.val)' /\ AcknowledgedInTime'
  BY <1>5 DEF AcknowledgedInTime, At
<1>7. (IF_flag = (Open(Top.step) /\ Enabled))'
  BY <1>5 DEF Enabled
<1> QED  BY <1>3, <1>4, <1>6, <1>7 DEF InterruptsInv

\* The same for a step that only changes the innermost frame.
LEMMA TopMoves ==
  ASSUME InterruptsInv, NEW g \in Frames,
         g.kind = Top.kind, g.flag = Top.flag, g.step # "waiting",
         g.kind \in {"user", "kernel"} => g.step = "run",
         g.kind = "irq" => g.step \in {"eoi", "handler", "iret"},
         g.kind = "exception" => g.step \in {"cli", "halt"},
         g.kind = "call" => g.step \in CallSteps,
         context' = [context EXCEPT ![running][Len(context[running])] = g],
         UNCHANGED <<running, process_terminal, booted>>,
         IF_flag' = (Open(g.step) /\ Enabled),
         isr' = IF g.kind = "irq" /\ g.step = "eoi"
                THEN {g.id, MasterLine(g.id)} ELSE {},
         g.step = "load" => sys_call_eax' = g.val
  PROVE  InterruptsInv'
<1> DEFINE s == context[running]
           t == [s EXCEPT ![Len(s)] = g]
<1>1. /\ s \in Seq(Frames) /\ Len(s) \in Nat \ {0} /\ Shape(s)
      /\ Top = s[Len(s)]
  BY TopIsFrame DEF InterruptsInv, InterruptsTypeOK, StacksInv, Top
<1>2. /\ t \in Seq(Frames) /\ Len(t) = Len(s) /\ t[Len(s)] = g
      /\ \A i \in 1 .. Len(s) - 1 : t[i] = s[i]
  BY <1>1, ExceptSeq
<1>3. context' = [context EXCEPT ![running] = t]
  OBVIOUS
<1>4. running = BOOT => t[1].kind = "kernel" /\ (Len(t) > 1 => Enabled)
  BY <1>1, <1>2 DEF InterruptsInv, StacksInv
<1> HIDE DEF s, t
<1>5. Shape(t)
  BY <1>1, <1>2, ShapeCut, SMTT(20)
<1>6. t[Len(t)] = g /\ Len(t) > 0
  BY <1>1, <1>2
<1> QED  BY <1>2, <1>3, <1>4, <1>5, <1>6, SameContext

\* A step that only the devices, the controllers and kernel.c take part in.
LEMMA StacksSame ==
  ASSUME InterruptsInv, UNCHANGED <<context, running, process_terminal>>,
         booted' \in {"pic", "sti", "pit", "flag", "done"},
         running # BOOT => booted' = booted, Enabled => Enabled',
         UNCHANGED <<isr, sys_call_eax>>,
         IF_flag' = (Open(Top.step) /\ Enabled')
  PROVE  InterruptsInv'
<1>1. Top' = Top
  BY DEF Top
<1>2. InterruptsTypeOK'
  BY DEF InterruptsInv, InterruptsTypeOK
<1>3. StacksInv'
  BY DEF InterruptsInv, StacksInv
<1>4. (Top.step = "load" => sys_call_eax = Top.val)' /\ AcknowledgedInTime'
  BY <1>1 DEF InterruptsInv, AcknowledgedInTime, At
<1> QED  BY <1>1, <1>2, <1>3, <1>4 DEF InterruptsInv

\* An interrupt, a call or an exception enters the kernel.
LEMMA PushStep ==
  ASSUME InterruptsInv, IF_flag, NEW f \in Frames, f.flag,
         \/ f.kind = "irq" /\ f.step = "eoi"
         \/ /\ Top.kind = "user"
            /\ \/ f.kind = "call" /\ f.step = "dispatch"
               \/ f.kind = "exception" /\ f.step = "cli",
         Push(f), UNCHANGED <<running, process_terminal, booted>>,
         IF_flag' = Open(f.step),
         isr' = IF f.kind = "irq" THEN {f.id, MasterLine(f.id)} ELSE {}
  PROVE  InterruptsInv'
<1> DEFINE s == context[running]
           t == Append(s, f)
<1>1. /\ s \in Seq(Frames) /\ Len(s) \in Nat \ {0} /\ Shape(s)
      /\ Top = s[Len(s)] /\ Open(Top.step) /\ Enabled
  BY TopIsFrame DEF InterruptsInv, InterruptsTypeOK, StacksInv, Top
<1>2. /\ t \in Seq(Frames) /\ Len(t) = Len(s) + 1 /\ t[Len(t)] = f
      /\ t[1] = s[1] /\ Shape(t)
  BY <1>1, ShapePush
<1>3. running = BOOT => t[1].kind = "kernel" /\ (Len(t) > 1 => Enabled)
  BY <1>1, <1>2 DEF InterruptsInv, StacksInv
<1>4. context' = [context EXCEPT ![running] = t]
  BY DEF Push
<1>5. IF_flag' = (Open(f.step) /\ Enabled) /\ f.step # "load"
  BY <1>1 DEF Open
<1>6. isr' = IF f.kind = "irq" /\ f.step = "eoi"
             THEN {f.id, MasterLine(f.id)} ELSE {}
  OBVIOUS
<1> HIDE DEF s, t
<1>7. Len(t) > 0
  BY <1>1, <1>2
<1> QED  BY <1>2, <1>3, <1>4, <1>5, <1>6, <1>7, SameContext

\* The innermost frame is left: it was interrupting something the CPU goes on
\* with, with interrupts enabled.
LEMMA PopStep ==
  ASSUME InterruptsInv, Pop, UNCHANGED <<isr, running, process_terminal, booted>>,
         At("irq", "iret") \/ At("call", "load")
  PROVE  InterruptsInv'
<1> DEFINE s == context[running]
           n == Len(s)
           t == SubSeq(s, 1, n - 1)
<1>1. /\ s \in Seq(Frames) /\ n \in Nat \ {0} /\ Shape(s) /\ Top = s[n]
  BY TopIsFrame DEF InterruptsInv, InterruptsTypeOK, StacksInv, Top
<1>2. FrameFits(s, n) /\ ~Open(Top.step)
  BY <1>1 DEF Shape, At, Open
<1>3. n > 1 /\ Top.flag = TRUE
  BY <1>1, <1>2 DEF At, FrameFits
<1>4. FrameFits(s, n - 1) /\ s[n - 1].step \in {"run", "spin", "cli", "waiting"}
  <2>1. n - 1 \in 1 .. Len(s) /\ n - 1 < Len(s)
    BY <1>1, <1>3
  <2>2. FrameFits(s, n - 1)
    BY <1>1, <2>1 DEF Shape
  <2> QED  BY <2>1, <2>2 DEF FrameFits
<1>5. s[n - 1].step # "waiting"
  BY <1>1, <1>3, <1>4 DEF At, FrameFits
<1>6. /\ t \in Seq(Frames) /\ Len(t) = n - 1
      /\ \A i \in 1 .. n - 1 : t[i] = s[i]
  BY <1>1, <1>3
<1>7. Enabled
  BY <1>1, <1>3 DEF InterruptsInv, StacksInv, Enabled
<1>8. running = BOOT => t[1].kind = "kernel" /\ (Len(t) > 1 => Enabled)
  BY <1>1, <1>3, <1>6, <1>7 DEF InterruptsInv, StacksInv
<1>9. isr' = {} /\ IF_flag' = TRUE /\ context' = [context EXCEPT ![running] = t]
  BY <1>3 DEF InterruptsInv, AcknowledgedInTime, At, Pop
<1> HIDE DEF s, n, t
<1>10. /\ t[Len(t)] = s[n - 1] /\ Len(t) > 0 /\ Len(t) <= Len(s)
       /\ \A i \in 1 .. Len(t) - 1 : t[i] = s[i]
       /\ Open(t[Len(t)].step)
  BY <1>1, <1>3, <1>4, <1>5, <1>6 DEF Open, n
<1>11. FrameFits(s, Len(t)) /\ t[Len(t)] = s[Len(t)]
  BY <1>1, <1>3, <1>4, <1>6, <1>10
<1>12. t[Len(t)].kind = "irq" => t[Len(t)].step \in {"eoi", "handler", "iret"}
  BY <1>11 DEF FrameFits
<1>13. Shape(t)
  BY <1>1, <1>5, <1>6, <1>10, <1>11, <1>12, ShapeCut DEF FrameFits
<1>14. ~(t[Len(t)].kind = "irq" /\ t[Len(t)].step = "eoi") /\ t[Len(t)].step # "load"
  BY <1>10 DEF Open
<1> QED  BY <1>6, <1>7, <1>8, <1>9, <1>10, <1>13, <1>14, SameContext

\* execute starts a program above the call, which then waits for it.
LEMMA ExecuteStep ==
  ASSUME InterruptsInv, ExecuteStarts
  PROVE  InterruptsInv'
<1> DEFINE s == context[running]
           n == Len(s)
           w == [s EXCEPT ![n].step = "waiting"]
           t == Append(w, User)
<1>1. /\ s \in Seq(Frames) /\ n \in Nat \ {0} /\ Shape(s) /\ Top = s[n]
      /\ Top \in Frames
  BY TopIsFrame DEF InterruptsInv, InterruptsTypeOK, StacksInv, Top
<1>2. s[n].kind = "call" /\ s[n].step = "execute" /\ FrameFits(s, n)
  BY <1>1 DEF Shape, ExecuteStarts, At
<1>3. [Top EXCEPT !.step = "waiting"] \in Frames
  BY <1>1 DEF Frames, Steps
<1>4. /\ w \in Seq(Frames) /\ Len(w) = n
      /\ w[n] = [Top EXCEPT !.step = "waiting"]
      /\ \A i \in 1 .. n - 1 : w[i] = s[i]
  BY <1>1, <1>3, ExceptSeq
<1> HIDE DEF w
<1>5. /\ t \in Seq(Frames) /\ Len(t) = n + 1 /\ t[n + 1] = User
      /\ t[n] = [Top EXCEPT !.step = "waiting"]
      /\ \A i \in 1 .. n - 1 : t[i] = s[i]
  BY <1>1, <1>4, ShapeUser, AppendProperties
<1>6. context' = [context EXCEPT ![running] = t] /\ IF_flag' = TRUE
  BY DEF ExecuteStarts, w
<1>7. running # BOOT
  BY <1>2, BootStack DEF InterruptsInv
<1>8. Enabled
  BY <1>7 DEF InterruptsInv, StacksInv, Enabled
<1>9. isr = {}
  BY <1>1, <1>2 DEF InterruptsInv, AcknowledgedInTime, At
<1> HIDE DEF s, n, t
<1>10. ASSUME NEW i \in 1 .. Len(t) PROVE FrameFits(t, i)
  <2>1. CASE i = n + 1
    BY <1>1, <1>5, <2>1, SMTT(20) DEF FrameFits, User, Frames
  <2>2. CASE i = n
    <3>1. /\ t[i].kind = "call" /\ t[i].step = "waiting" /\ t[i].flag
          /\ i > 1 /\ s[i - 1].kind = "user"
      BY <1>1, <1>2, <1>5, <2>2 DEF Frames, FrameFits
    <3>2. t[i - 1] = s[i - 1] /\ t[i + 1].kind = "user"
      BY <1>1, <1>5, <2>2, <3>1 DEF User
    <3> QED  BY <1>1, <1>5, <2>2, <3>1, <3>2 DEF FrameFits, CallSteps, Steps
  <2>3. CASE i < n
    <3>1. FrameFits(s, i) /\ t[i] = s[i] /\ (i > 1 => t[i - 1] = s[i - 1])
      BY <1>1, <1>5, <2>3 DEF Shape, n
    <3>2. t[i + 1].kind = s[i + 1].kind
      <4>1. CASE i + 1 = n
        BY <1>1, <1>5, <4>1 DEF Frames
      <4>2. CASE i + 1 < n
        BY <1>1, <1>5, <4>2
      <4> QED  BY <1>1, <2>3, <4>1, <4>2
    <3> QED  BY <1>1, <1>5, <2>3, <3>1, <3>2 DEF FrameFits, n
  <2> QED  BY <1>1, <1>5, <2>1, <2>2, <2>3
<1>11. Shape(t)
  BY <1>10 DEF Shape
<1>12. Len(t) > 0 /\ t[Len(t)] = User
  BY <1>1, <1>5
<1>13. User.step = "run" /\ User.kind = "user" /\ Open("run")
  BY DEF User, Open
<1> QED
  BY <1>5, <1>6, <1>7, <1>8, <1>9, <1>11, <1>12, <1>13, SameContext
  DEF ExecuteStarts, pic

\* A program ends: the wrapper of the parent's execute goes on, or a base shell
\* starts anew.
LEMMA HaltStep ==
  ASSUME InterruptsInv, NEW val \in Int, sys_halt(val),
         Top.kind \in {"call", "exception"}, Top.step = "halt",
         UNCHANGED <<isr, running, process_terminal, booted>>
  PROVE  InterruptsInv'
<1> DEFINE s == context[running]
           L == Last(Waiting(running))
           g == [s[L] EXCEPT !.step = "store", !.val = val]
           t == Append(SubSeq(s, 1, L - 1), g)
<1>1. /\ s \in Seq(Frames) /\ Len(s) \in Nat \ {0} /\ Shape(s)
      /\ Top = s[Len(s)]
  BY TopIsFrame DEF InterruptsInv, InterruptsTypeOK, StacksInv, Top
<1>2. running # BOOT /\ Enabled
  BY <1>1, BootStack DEF InterruptsInv, StacksInv, Enabled
<1>3. isr' = {} /\ IF_flag = FALSE
  BY DEF InterruptsInv, AcknowledgedInTime, At, Open
<1>4. CASE Waiting(running) = {}
  <2>1. context' = [context EXCEPT ![running] = <<User>>] /\ IF_flag' = TRUE
    BY <1>4 DEF sys_halt
  <2>2. User.step = "run" /\ User.kind = "user" /\ Open("run")
    BY DEF User, Open
  <2> DEFINE u == <<User>>
  <2>3. u \in Seq(Frames) /\ Shape(u) /\ Len(u) > 0 /\ u[Len(u)] = User
    BY ShapeUser
  <2>4. context' = [context EXCEPT ![running] = u]
    BY <2>1
  <2> HIDE DEF u
  <2> QED  BY <1>2, <1>3, <2>1, <2>2, <2>3, <2>4, SameContext
<1>5. CASE Waiting(running) # {}
  <2>1. Waiting(running) \subseteq 1 .. Len(s)
    BY <1>1 DEF Waiting
  <2>2. L \in 1 .. Len(s) /\ s[L].step = "waiting"
    BY <1>1, <1>5, <2>1, LastIsMember DEF Waiting
  <2>3. context' = [context EXCEPT ![running] = t] /\ IF_flag' = FALSE
    BY <1>3, <1>5 DEF sys_halt
  <2> HIDE DEF L
  <2>4. s[L] \in Frames /\ FrameFits(s, L)
    BY <1>1, <2>2 DEF Shape
  <2>5. s[L].kind = "call"
    BY <2>2, <2>4 DEF FrameFits, Frames
  <2>6. /\ g \in Frames /\ g.kind = "call" /\ g.flag = s[L].flag
        /\ g.step = "store"
    BY <2>4, <2>5 DEF Frames, Steps
  <2> HIDE DEF g
  <2>7. /\ t \in Seq(Frames) /\ Len(t) = L /\ t[L] = g
        /\ \A i \in 1 .. L - 1 : t[i] = s[i]
    <3> DEFINE u == SubSeq(s, 1, L - 1)
    <3>1. /\ u \in Seq(Frames) /\ Len(u) = L - 1
          /\ \A i \in 1 .. L - 1 : u[i] = s[i]
      BY <1>1, <2>2
    <3> HIDE DEF u
    <3>2. /\ Append(u, g) \in Seq(Frames) /\ Len(Append(u, g)) = Len(u) + 1
          /\ Append(u, g)[Len(u) + 1] = g
          /\ \A i \in 1 .. Len(u) : Append(u, g)[i] = u[i]
      BY <2>6, <3>1, AppendProperties
    <3> QED  BY <2>2, <3>1, <3>2 DEF u
  <2> HIDE DEF t, s
  <2>8. g.step # "waiting" /\ g.step \in CallSteps
    BY <2>6 DEF CallSteps, Steps
  <2>9. /\ Len(t) > 0 /\ Len(t) <= Len(s) /\ t[Len(t)] = g
        /\ \A i \in 1 .. Len(t) - 1 : t[i] = s[i]
        /\ s[Len(t)].kind = "call" /\ s[Len(t)].flag = g.flag
    BY <1>1, <2>2, <2>5, <2>6, <2>7
  <2>10. Shape(t)
    BY <1>1, <2>6, <2>7, <2>8, <2>9, ShapeCut
  <2>11. ~Open("store")
    BY DEF Open
  <2> QED
    BY <1>2, <1>3, <2>3, <2>6, <2>7, <2>9, <2>10, <2>11, SameContext
<1> QED  BY <1>4, <1>5

\* scheduling turns to another terminal, whose context has the CPU from then on
\* while the one left is inside scheduling.
LEMMA SwitchStep ==
  ASSUME InterruptsInv, At("irq", "handler"), booted = "done",
         NEW c \in Terminals, NEW t \in Seq(Frames), Shape(t), Len(t) > 0,
         t[Len(t)].step \in {"run", "iret"},
         context' = [context EXCEPT ![c] = t],
         running' = c, process_terminal' = c, UNCHANGED <<isr, booted>>,
         IF_flag' = Open(t[Len(t)].step)
  PROVE  InterruptsInv'
<1>1. /\ context \in [Contexts -> Seq(Frames)] /\ running \in Contexts
      /\ BOOT \in Contexts /\ c \in Contexts /\ c # BOOT
  BY InterruptsAssumption DEF InterruptsInv, InterruptsTypeOK, Contexts
<1>2. /\ context'[running'] = t /\ running' = c
      /\ \A d \in Contexts \ {c} : context'[d] = context[d]
  BY <1>1
<1>3. InterruptsTypeOK'
  BY <1>1 DEF InterruptsInv, InterruptsTypeOK, Open
<1>4. context[running][Len(context[running])].step = "handler"
  BY DEF At, Top
<1>5. StacksInv'
  <2>1. /\ \A d \in Contexts : Shape(context'[d])
        /\ \A d \in Contexts \ {c} : Len(context'[d]) > 0 =>
             context'[d][Len(context'[d])].step = "handler"
    BY <1>1, <1>2, <1>4 DEF InterruptsInv, StacksInv
  <2> QED  BY <1>1, <1>2, <2>1 DEF InterruptsInv, StacksInv, Enabled
<1>6. Top' = t[Len(t)]
  BY <1>2 DEF Top
<1>7. AcknowledgedInTime'
  BY <1>6 DEF InterruptsInv, AcknowledgedInTime, At
<1>8. (IF_flag = (Open(Top.step) /\ Enabled))'
  BY <1>6 DEF Enabled, Open
<1>9. Top'.step # "load"
  BY <1>6
<1> QED  BY <1>3, <1>5, <1>7, <1>8, <1>9 DEF InterruptsInv

\* Scheduling launches a base shell or resumes the next terminal's process.
LEMMA ScheduleStep ==
  ASSUME InterruptsInv, ScheduleLaunch \/ ScheduleResume
  PROVE  InterruptsInv'
<1> DEFINE c == NextTerminal
           s == context[c]
<1>1. c \in Terminals /\ c \in Contexts
  BY InterruptsAssumption
  DEF InterruptsInv, InterruptsTypeOK, NextTerminal, Terminals, Contexts
<1>2. s \in Seq(Frames) /\ Len(s) \in Nat /\ Shape(s)
  BY <1>1 DEF InterruptsInv, InterruptsTypeOK, StacksInv
<1>3. At("irq", "handler") /\ booted = "done" /\ IF_flag = FALSE
  BY DEF ScheduleLaunch, ScheduleResume, Scheduling, At, InterruptsInv, Open
<1>4. CASE ScheduleLaunch
  <2> DEFINE u == <<User>>
  <2>1. u \in Seq(Frames) /\ Shape(u) /\ Len(u) > 0 /\ u[Len(u)] = User
    BY ShapeUser
  <2>2. User.step = "run" /\ Open("run")
    BY DEF User, Open
  <2>3. /\ context' = [context EXCEPT ![c] = u] /\ IF_flag' = TRUE
        /\ running' = c /\ process_terminal' = c /\ UNCHANGED <<isr, booted>>
    BY <1>4 DEF ScheduleLaunch, pic
  <2> HIDE DEF u, c
  <2> QED  BY <1>1, <1>3, <2>1, <2>2, <2>3, SwitchStep
<1>5. CASE ScheduleResume
  <2> DEFINE g == [s[Len(s)] EXCEPT !.step = "iret"]
             t == [s EXCEPT ![Len(s)] = g]
  <2>1. s # << >>
    BY <1>5 DEF ScheduleResume
  <2>2. Len(s) > 0 /\ s[Len(s)] \in Frames
    BY <1>2, <2>1
  <2>3. s[Len(s)].step = "handler"
    BY <1>1, <1>3, <2>2 DEF InterruptsInv, StacksInv, At, Top
  <2>4. FrameFits(s, Len(s))
    BY <1>2, <2>2 DEF Shape
  <2>5. s[Len(s)].kind = "irq"
    BY <2>2, <2>3, <2>4 DEF FrameFits, Frames, CallSteps
  <2>6. g \in Frames /\ g.kind = "irq" /\ g.flag = s[Len(s)].flag /\ g.step = "iret"
    BY <2>2, <2>5 DEF Frames, Steps
  <2>7. /\ t \in Seq(Frames) /\ Len(t) = Len(s) /\ t[Len(t)] = g
        /\ \A i \in 1 .. Len(t) - 1 : t[i] = s[i]
    BY <1>2, <2>2, <2>6, ExceptSeq
  <2>8. /\ context' = [context EXCEPT ![c] = t] /\ IF_flag' = FALSE
        /\ running' = c /\ process_terminal' = c /\ UNCHANGED <<isr, booted>>
    BY <1>3, <1>5 DEF ScheduleResume, pic
  <2> HIDE DEF c, s, g, t
  <2>9. Shape(t)
    <3>1. s[Len(t)].kind = g.kind /\ s[Len(t)].flag = g.flag /\ Len(t) > 0
      BY <1>2, <2>2, <2>5, <2>6, <2>7
    <3> QED  BY <1>2, <2>6, <2>7, <3>1, ShapeCut
  <2>10. /\ t \in Seq(Frames) /\ Len(t) > 0
         /\ t[Len(t)].step \in {"run", "iret"} /\ Open(t[Len(t)].step) = FALSE
    BY <1>2, <2>2, <2>6, <2>7 DEF Open
  <2>11. IF_flag' = Open(t[Len(t)].step)
    BY <2>8, <2>10
  <2> QED  BY <1>1, <1>3, <2>8, <2>9, <2>10, <2>11, SwitchStep
<1> QED  BY <1>4, <1>5

\* The innermost frame goes on to another step, with another value or not.
LEMMA StepMoves ==
  ASSUME InterruptsInv, NEW step \in Steps \ {"waiting", "eoi"},
         \/ Step(step) /\ (step = "load" => sys_call_eax' = Top.val)
         \/ \E val \in Int :
              /\ context' = [context EXCEPT ![running][Len(context[running])] =
                               [@ EXCEPT !.step = step, !.val = val]]
              /\ step = "load" => sys_call_eax' = val,
         \/ Top.kind = "irq" /\ step \in {"handler", "iret"}
         \/ Top.kind = "exception" /\ step \in {"cli", "halt"}
         \/ Top.kind = "call" /\ step \in CallSteps,
         UNCHANGED <<running, process_terminal, booted>>,
         IF_flag' = (Open(step) /\ Enabled), isr' = {}
  PROVE  InterruptsInv'
<1>1. /\ Top \in Frames /\ Top = context[running][Len(context[running])]
      /\ running \in Contexts
      /\ context \in [Contexts -> Seq(Frames)]
  BY TopIsFrame DEF InterruptsInv, InterruptsTypeOK, StacksInv, Top
<1>2. PICK g \in Frames :
        /\ g.kind = Top.kind /\ g.flag = Top.flag /\ g.step = step
        /\ context' = [context EXCEPT ![running][Len(context[running])] = g]
        /\ step = "load" => sys_call_eax' = g.val
  <2>1. CASE Step(step) /\ (step = "load" => sys_call_eax' = Top.val)
    <3>1. [Top EXCEPT !.step = step] \in Frames
      BY <1>1 DEF Frames
    <3>2. context' = [context EXCEPT ![running][Len(context[running])] =
                        [Top EXCEPT !.step = step]]
      BY <1>1, <2>1 DEF Step
    <3> QED  BY <1>1, <2>1, <3>1, <3>2 DEF Frames
  <2>2. ASSUME NEW val \in Int,
               context' = [context EXCEPT ![running][Len(context[running])] =
                             [@ EXCEPT !.step = step, !.val = val]],
               step = "load" => sys_call_eax' = val
        PROVE  \E g \in Frames :
                 /\ g.kind = Top.kind /\ g.flag = Top.flag /\ g.step = step
                 /\ context' = [context EXCEPT ![running][Len(context[running])] = g]
                 /\ step = "load" => sys_call_eax' = g.val
    <3>1. [Top EXCEPT !.step = step, !.val = val] \in Frames
      BY <1>1 DEF Frames
    <3>2. context' = [context EXCEPT ![running][Len(context[running])] =
                        [Top EXCEPT !.step = step, !.val = val]]
      BY <1>1, <2>2
    <3> QED  BY <1>1, <2>2, <3>1, <3>2 DEF Frames
  <2> QED  BY <2>1, <2>2
<1> QED  BY <1>2, TopMoves

\* A system call's function returns val to the wrapper.
LEMMA CallReturns ==
  ASSUME InterruptsInv, Top.kind = "call", NEW val \in Int, Returned(val),
         UNCHANGED <<running, process_terminal, booted>>,
         IF_flag' = FALSE, isr' = {}
  PROVE  InterruptsInv'
<1>1. ~Open("store") /\ "store" \in Steps \ {"waiting", "eoi"}
      /\ "store" \in CallSteps
  BY DEF Open, Steps, CallSteps
<1>2. IF_flag' = (Open("store") /\ Enabled)
  BY <1>1
<1> QED  BY <1>1, <1>2, StepMoves DEF Returned

\* In user mode the flag is set.
LEMMA UserInterruptible ==
  ASSUME InterruptsInv, At("user", "run")
  PROVE  IF_flag = TRUE
<1>1. running # BOOT
  BY BootStack DEF InterruptsInv, At, Top
<1>2. Enabled
  BY <1>1 DEF InterruptsInv, StacksInv, Enabled
<1>3. Open(Top.step)
  BY DEF At, Open
<1> QED  BY <1>2, <1>3 DEF InterruptsInv

\* Every entry of sys_call_table is a step of a system call.
LEMMA TableEntries ==
  ASSUME NEW number \in Int, ValidNumber(number)
  PROVE  /\ sys_call_table[number] \in CallSteps
         /\ sys_call_table[number] \notin {"waiting", "load", "spin"}
<1>1. Len(sys_call_table) = 10
  BY DEF sys_call_table
<1>2. number \in 1 .. 10
  BY <1>1 DEF ValidNumber
<1> QED  BY <1>2 DEF sys_call_table, CallSteps, Steps

\* The invariant is inductive.
LEMMA InterruptsInvStep ==
  ASSUME InterruptsInv, [InterruptsNext]_ivars
  PROVE  InterruptsInv'
<1>1. /\ InterruptsTypeOK /\ Top \in Frames /\ Len(context[running]) > 0
      /\ Top = context[running][Len(context[running])]
  BY TopIsFrame DEF InterruptsInv, StacksInv, Top
<1>2. ~Open(Top.step) => IF_flag = FALSE
  BY DEF InterruptsInv
<1>3. Top.step # "eoi" => isr = {}
  BY DEF InterruptsInv, AcknowledgedInTime, At
<1>5. ASSUME NEW irq \in Devices, Request(irq) PROVE InterruptsInv'
  BY <1>5, StacksSame
  DEF Request, cpu, InterruptsInv, InterruptsTypeOK, Enabled
<1>6. ASSUME NEW irq \in Devices, Accept(irq) PROVE InterruptsInv'
  <2>1. irq \in 0 .. 15
    BY InterruptsAssumption DEF IrqLines, SLAVE_PORT_MAX
  <2>2. IF_flag = TRUE /\ isr = {}
    BY <1>3, <1>6 DEF Accept, InterruptsInv, InterruptsTypeOK, Open
  <2> DEFINE f == Frame("irq", irq, "eoi")
  <2>3. /\ f \in Frames /\ f.flag /\ f.kind = "irq" /\ f.step = "eoi"
        /\ f.id = irq
    BY <2>1, <2>2 DEF Frame, Frames, Steps
  <2>4. IF_flag' = FALSE /\ isr' = {irq, MasterLine(irq)} /\ Push(f)
    BY <1>6, <2>1, <2>2 DEF Accept, GateFlag
  <2>5. Open(f.step) = FALSE
    BY <2>3 DEF Open
  <2>6. IF_flag' = Open(f.step)
    BY <2>4, <2>5
  <2> HIDE DEF f
  <2> QED  BY <1>6, <2>2, <2>3, <2>4, <2>5, <2>6, PushStep DEF Accept
<1>7. ASSUME Boot PROVE InterruptsInv'
  <2>1. Open(Top.step)
    <3>1. running = BOOT /\ Len(context[BOOT]) = 1
      BY <1>7
      DEF Boot, i8259_init, EnableInterrupts, pit_init, AllowScheduling, AtBoot
    <3>2. Shape(context[BOOT])
      BY <1>1, <3>1 DEF InterruptsInv, StacksInv, InterruptsTypeOK
    <3>3. FrameFits(context[BOOT], 1)
      BY <3>1, <3>2 DEF Shape
    <3> QED  BY <1>1, <3>1, <3>3 DEF InterruptsInv, StacksInv, FrameFits, Open
  <2> QED
    BY <1>7, <2>1, StacksSame
    DEF Boot, i8259_init, EnableInterrupts, pit_init, AllowScheduling, AtBoot,
        pic, cpu, InterruptsInv, Enabled
<1>8. ASSUME WrapperEoi PROVE InterruptsInv'
  <2>1. isr' = {}
    BY <1>8 DEF WrapperEoi, send_eoi, InterruptsInv, AcknowledgedInTime
  <2>2. IF_flag' = (Open("handler") /\ Enabled)
    <3>1. ~Open(Top.step) /\ ~Open("handler")
      BY <1>8 DEF WrapperEoi, At, Open
    <3> QED  BY <1>2, <1>8, <3>1 DEF WrapperEoi
  <2> QED  BY <1>8, <2>1, <2>2, StepMoves DEF WrapperEoi, At, Steps
<1>9. ASSUME keyboard_interrupt \/ rtc_interrupt \/ ScheduleTooEarly
      PROVE  InterruptsInv'
  <2>1. /\ At("irq", "handler") /\ Step("iret")
        /\ UNCHANGED <<isr, IF_flag, running, process_terminal, booted>>
    BY <1>9
    DEF keyboard_interrupt, rtc_interrupt, ScheduleTooEarly, Scheduling, pic
  <2>2. IF_flag' = (Open("iret") /\ Enabled)
    <3>1. ~Open(Top.step) /\ ~Open("iret")
      BY <2>1 DEF At, Open
    <3> QED  BY <1>2, <2>1, <3>1
  <2> QED  BY <1>3, <2>1, <2>2, StepMoves DEF At, Steps
<1>10. ASSUME Iret \/ LoadResult PROVE InterruptsInv'
  BY <1>10, PopStep DEF Iret, LoadResult, pic
<1>11. ASSUME NEW number \in Numbers, system_call(number) PROVE InterruptsInv'
  <2> DEFINE f == Frame("call", number, "dispatch")
  <2>1. IF_flag = TRUE /\ isr' = {} /\ Top.kind = "user"
    BY <1>3, <1>11, UserInterruptible DEF system_call, At, pic
  <2>2. /\ f \in Frames /\ f.flag /\ f.kind = "call" /\ f.step = "dispatch"
    BY <2>1, InterruptsAssumption DEF Frame, Frames, Steps
  <2>3. IF_flag' = FALSE /\ Push(f)
    BY <1>11 DEF system_call, GateFlag
  <2>4. Open(f.step) = FALSE
    BY <2>2 DEF Open
  <2>5. IF_flag' = Open(f.step)
    BY <2>3, <2>4
  <2> HIDE DEF f
  <2> QED  BY <1>11, <2>1, <2>2, <2>3, <2>5, PushStep DEF system_call
<1>12. ASSUME Exception(PAGE_FAULT) PROVE InterruptsInv'
  <2> DEFINE f == Frame("exception", PAGE_FAULT, "cli")
  <2>1. IF_flag = TRUE /\ isr' = {} /\ Top.kind = "user"
    BY <1>3, <1>12, UserInterruptible DEF Exception, At, pic
  <2>2. f \in Frames /\ f.flag /\ f.kind = "exception" /\ f.step = "cli"
    BY <2>1 DEF Frame, Frames, Steps, PAGE_FAULT
  <2>3. IF_flag' = TRUE /\ Push(f)
    BY <1>12, <2>1 DEF Exception, GateFlag, PAGE_FAULT
  <2>4. Open(f.step)
    BY <2>2 DEF Open
  <2>5. IF_flag' = Open(f.step)
    BY <2>3, <2>4
  <2> HIDE DEF f
  <2> QED  BY <1>12, <2>1, <2>2, <2>3, <2>5, PushStep DEF Exception
<1>13. ASSUME DispatchBad PROVE InterruptsInv'
  <2>1. IF_flag' = (Open("load") /\ Enabled)
    <3>1. ~Open(Top.step) /\ ~Open("load")
      BY <1>13 DEF DispatchBad, At, Open
    <3> QED  BY <1>2, <1>13, <3>1 DEF DispatchBad
  <2>2. \E val \in Int :
          /\ context' = [context EXCEPT ![running][Len(context[running])] =
                           [@ EXCEPT !.step = "load", !.val = val]]
          /\ sys_call_eax' = val
    <3>1. -1 \in Int
      OBVIOUS
    <3> QED  BY <1>13, <3>1 DEF DispatchBad
  <2>3. /\ Top.kind = "call" /\ isr' = {}
        /\ UNCHANGED <<running, process_terminal, booted>>
    BY <1>3, <1>13 DEF DispatchBad, At, pic
  <2>4. "load" \in Steps \ {"waiting", "eoi"} /\ "load" \in CallSteps
    BY DEF Steps, CallSteps
  <2> QED  BY <2>1, <2>2, <2>3, <2>4, StepMoves
<1>14. ASSUME Dispatch PROVE InterruptsInv'
  <2> DEFINE step == sys_call_table[Top.id]
  <2>1. step \in CallSteps /\ step \notin {"waiting", "load", "spin"}
    BY <1>1, <1>14, TableEntries DEF Dispatch, Frames
  <2>2. At("call", "dispatch") /\ Step(step)
    BY <1>14 DEF Dispatch
  <2> HIDE DEF step
  <2>3. IF_flag' = (Open(step) /\ Enabled)
    <3>1. ~Open(Top.step) /\ ~Open(step)
      BY <2>1, <2>2 DEF At, Open, CallSteps
    <3> QED  BY <1>2, <1>14, <3>1 DEF Dispatch
  <2>4. step \in Steps \ {"waiting", "eoi"}
    BY <2>1 DEF CallSteps
  <2> QED
    BY <1>3, <1>14, <2>1, <2>2, <2>3, <2>4, StepMoves DEF Dispatch, At, pic
<1>15. ASSUME NEW val \in Results, Called(val) PROVE InterruptsInv'
  <2>1. ~Open(Top.step) /\ Top.step # "eoi"
    BY <1>15 DEF Called, Open
  <2> QED
    BY <1>2, <1>3, <1>15, <2>1, CallReturns, InterruptsAssumption
    DEF Called, pic
<1>16. ASSUME CallFails PROVE InterruptsInv'
  <2>1. ~Open(Top.step) /\ Top.step # "eoi"
    BY <1>16 DEF CallFails, Open
  <2>2. -1 \in Int /\ Returned(-1) /\ Top.kind = "call"
    BY <1>16 DEF CallFails
  <2>3. IF_flag' = FALSE /\ isr' = {} /\ UNCHANGED <<running, process_terminal, booted>>
    BY <1>2, <1>3, <1>16, <2>1 DEF CallFails, pic
  <2> QED  BY <2>2, <2>3, CallReturns
<1>17. ASSUME ReadWaits PROVE InterruptsInv'
  <2>1. running # BOOT
    BY <1>1, <1>17, BootStack DEF InterruptsInv, ReadWaits, At
  <2>2. Open("spin") /\ Enabled
    BY <2>1 DEF InterruptsInv, StacksInv, Enabled, Open
  <2>3. IF_flag' = (Open("spin") /\ Enabled)
    BY <1>17, <2>2 DEF ReadWaits
  <2> QED
    BY <1>3, <1>17, <2>3, StepMoves DEF ReadWaits, At, Steps, CallSteps, pic
<1>18. ASSUME NEW val \in Results, ReadWakes(val) PROVE InterruptsInv'
  BY <1>3, <1>18, CallReturns, InterruptsAssumption DEF ReadWakes, At, pic
<1>19. ASSUME NEW val \in Results, CallHalt(val) PROVE InterruptsInv'
  BY <1>19, HaltStep, InterruptsAssumption DEF CallHalt, At, pic
<1>20. ASSUME StoreResult PROVE InterruptsInv'
  <2>1. IF_flag' = (Open("load") /\ Enabled)
    <3>1. ~Open(Top.step) /\ ~Open("load")
      BY <1>20 DEF StoreResult, At, Open
    <3> QED  BY <1>2, <1>20, <3>1 DEF StoreResult
  <2> QED
    BY <1>3, <1>20, <2>1, StepMoves DEF StoreResult, At, Steps, CallSteps, pic
<1>21. ASSUME exception_handler PROVE InterruptsInv'
  <2>1. ~Open("halt")
    BY DEF Open
  <2>2. IF_flag' = (Open("halt") /\ Enabled)
    BY <1>21, <2>1 DEF exception_handler
  <2> QED
    BY <1>3, <1>21, <2>2, StepMoves DEF exception_handler, At, Steps, pic
<1>22. ASSUME ExceptionHalts PROVE InterruptsInv'
  <2>1. Top.id \in Int
    BY <1>1 DEF Frames
  <2> QED  BY <1>22, <2>1, HaltStep DEF ExceptionHalts, At, pic
<1>23. ASSUME UNCHANGED ivars PROVE InterruptsInv'
  BY <1>23, StacksSame DEF ivars, InterruptsInv, InterruptsTypeOK, Enabled
<1> QED
  BY <1>5, <1>6, <1>7, <1>8, <1>9, <1>10, <1>11, <1>12, <1>13, <1>14, <1>15,
     <1>16, <1>17, <1>18, <1>19, <1>20, <1>21, <1>22, <1>23, ScheduleStep,
     ExecuteStep
  DEF InterruptsNext, Wrapper, Kernel_step, Program

\* The initial state satisfies the invariant.
LEMMA InterruptsInvInit == InterruptsInit => InterruptsInv
<1> SUFFICES ASSUME InterruptsInit PROVE InterruptsInv
  OBVIOUS
<1> USE DEF InterruptsInit
<1> DEFINE k == <<Kernel>>
           e == << >>
<1>1. /\ Kernel \in Frames /\ Kernel.kind = "kernel" /\ Kernel.step = "run"
  <2>1. User \in Frames /\ User.step = "run"
    BY ShapeUser DEF User
  <2> QED  BY <2>1 DEF Kernel, Frames
<1>2. /\ k \in Seq(Frames) /\ Len(k) = 1 /\ k[1] = Kernel
      /\ e \in Seq(Frames) /\ Len(e) = 0
  BY <1>1
<1>3. /\ context = [c \in Contexts |-> IF c = BOOT THEN k ELSE e]
      /\ running = BOOT /\ BOOT \in Contexts
  BY DEF Contexts
<1> HIDE DEF k, e
<1>4. Shape(k) /\ Shape(e)
  <2>1. FrameFits(k, 1)
    BY <1>1, <1>2 DEF FrameFits
  <2> QED  BY <1>2, <2>1 DEF Shape
<1>5. InterruptsTypeOK
  <2>1. 0 \in Terminals
    BY InterruptsAssumption DEF Terminals
  <2>2. context \in [Contexts -> Seq(Frames)]
    BY <1>2, <1>3
  <2> QED  BY <1>3, <2>1, <2>2 DEF InterruptsTypeOK
<1>6. StacksInv
  BY <1>1, <1>2, <1>3, <1>4 DEF StacksInv
<1>7. Top = Kernel
  BY <1>2, <1>3 DEF Top
<1>8. ~Enabled
  BY DEF Enabled
<1>9. IF_flag = (Open(Top.step) /\ Enabled)
  BY <1>8
<1>10. AcknowledgedInTime /\ Top.step # "load"
  BY <1>1, <1>7 DEF AcknowledgedInTime, At
<1> QED  BY <1>5, <1>6, <1>9, <1>10 DEF InterruptsInv

\* The invariant holds in every reachable state.
LEMMA InterruptsInvariant == InterruptsSpec => []InterruptsInv
<1>1. InterruptsInv /\ [InterruptsNext]_ivars => InterruptsInv'
  BY InterruptsInvStep
<1> QED  BY <1>1, InterruptsInvInit, PTL DEF InterruptsSpec

\* send_eoi comes before the handlers in the wrappers of the three devices, and
\* reaches both controllers: no line is left in service when scheduling or
\* execute leaves a wrapper for good.
THEOREM Acknowledged == InterruptsSpec => []AcknowledgedInTime
<1>1. InterruptsInv => AcknowledgedInTime
  BY DEF InterruptsInv
<1> QED  BY <1>1, InterruptsInvariant, PTL

\* The gates, sti and cli of the reads, the EFLAGS of execute and the irets
\* agree: user mode always runs with interrupts enabled.
THEOREM UserModeInterruptible == InterruptsSpec => []ProgramsInterruptible
<1>1. InterruptsInv => ProgramsInterruptible
  BY UserInterruptible DEF ProgramsInterruptible
<1> QED  BY <1>1, InterruptsInvariant, PTL

\* The system call wrapper never loses its result: nothing writes sys_call_eax
\* between a call's store and its load.
THEOREM ResultsKept == InterruptsSpec => []ResultIsOwn
<1>1. ASSUME InterruptsInv PROVE ResultIsOwn
  <2> SUFFICES ASSUME NEW c \in Contexts, NEW i \in DOMAIN context[c],
                      context[c][i].step = "load"
               PROVE  sys_call_eax = context[c][i].val
    BY DEF ResultIsOwn
  <2>1. context[c] \in Seq(Frames) /\ Shape(context[c])
    BY <1>1 DEF InterruptsInv, InterruptsTypeOK, StacksInv
  <2>2. FrameFits(context[c], i) /\ i \in 1 .. Len(context[c])
    BY <2>1 DEF Shape
  <2>3. i = Len(context[c])
    BY <2>1, <2>2 DEF FrameFits
  <2>4. c = running
    BY <1>1, <2>1, <2>2, <2>3 DEF InterruptsInv, StacksInv
  <2> QED  BY <1>1, <2>3, <2>4 DEF InterruptsInv, Top
<1> QED  BY <1>1, InterruptsInvariant, PTL

\* No handler is interrupted: above a program there is at most one call or
\* exception and above that at most one interrupt, on every kernel stack.
THEOREM StackBounded == InterruptsSpec => []KernelStackBounded
<1>1. ASSUME InterruptsInv PROVE KernelStackBounded
  <2> SUFFICES ASSUME NEW c \in Contexts, NEW i \in DOMAIN context[c]
               PROVE  FrameFits(context[c], i)
    BY DEF KernelStackBounded, FrameFits
  <2>1. context[c] \in Seq(Frames) /\ Shape(context[c])
    BY <1>1 DEF InterruptsInv, InterruptsTypeOK, StacksInv
  <2> QED  BY <2>1 DEF Shape
<1> QED  BY <1>1, InterruptsInvariant, PTL
=============================================================================
