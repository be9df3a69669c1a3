----------------------------- MODULE VirtualRtc -----------------------------
(***************************************************************************)
(* The virtual real-time clock: _sys_open_rtc, _sys_write_rtc,             *)
(* _sys_read_rtc and rtc_interrupt, for the current process of every       *)
(* terminal, under the round-robin scheduler.                              *)
(*                                                                         *)
(* The hardware clock ticks at MAX_INTERRUPT_FREQUENCY.  Interrupts are    *)
(* enabled in user mode and in the spin loop of a read; the rest of a      *)
(* system call, power_of_two's loop included, runs with them disabled.     *)
(***************************************************************************)
EXTENDS Integers

CONSTANTS
  NUM_TERMINALS,             \* 3 in the code
  MAX_INTERRUPT_FREQUENCY,   \* 512 in the code
  Frequencies                \* the numbers programs write to the rtc

Terminals == 0 .. NUM_TERMINALS - 1

ASSUME RtcAssumption ==
  /\ NUM_TERMINALS \in Nat \ {0}
  /\ MAX_INTERRUPT_FREQUENCY \in Nat \ {0}
  /\ Frequencies \subseteq Int

\* The rate of the clock is a power of two, and programs write an int32_t.
ASSUME PowersAssumption ==
  /\ \E k \in 0 .. 30 : MAX_INTERRUPT_FREQUENCY = 2^k
  /\ \A f \in Frequencies : f \div 2^30 \in -2 .. 1

VARIABLES
  process_terminal,
  pc,                      \* where each terminal's process is
  rtc_interrupt_divider,   \* PCB field
  rtc_counter,             \* PCB field
  frequency,               \* local of _sys_write_rtc
  num,                     \* local of power_of_two
  result,                  \* return value of the last _sys_write_rtc
  elapsed                  \* clock interrupts since the read began, capped

rvars == <<process_terminal, pc, rtc_interrupt_divider, rtc_counter,
           frequency, num, result, elapsed>>

RtcInit ==
  /\ process_terminal = 0
  /\ pc = [t \in Terminals |-> "user"]
  /\ rtc_interrupt_divider = [t \in Terminals |-> 0]
  /\ rtc_counter = [t \in Terminals |-> 0]
  /\ frequency = [t \in Terminals |-> 0]
  /\ num = [t \in Terminals |-> 0]
  /\ result = [t \in Terminals |-> 0]
  /\ elapsed = [t \in Terminals |-> 0]

At(t, label) == process_terminal = t /\ pc[t] = label

InterruptsEnabled == pc[process_terminal] \in {"user", "spinning"}

-----------------------------------------------------------------------------
(* _sys_write_rtc: power_of_two is a loop, one action per iteration.        *)

\* Also _sys_open_rtc, which writes the frequency 2.
WriteRtc(t, f) ==
  /\ At(t, "user")
  /\ frequency' = [frequency EXCEPT ![t] = f]
  /\ num' = [num EXCEPT ![t] = f]
  /\ pc' = [pc EXCEPT ![t] = "checking"]
  /\ UNCHANGED <<process_terminal, rtc_interrupt_divider, rtc_counter, result,
                 elapsed>>

\* Division and remainder of C, which round towards zero.
Half(n) == IF n < 0 THEN -((-n) \div 2) ELSE n \div 2
Odd_Never(n) == FALSE
Odd(n)  == n > 0 /\ n % 2 = 1          \* num % 2 == 1

Rejected_NotZero(t) == Odd(num[t])

Rejected(t) == frequency[t] = 0 \/ Odd(num[t])

CheckHalve(t) ==
  /\ At(t, "checking")
  /\ num[t] # 1
  /\ ~Rejected(t)
  /\ num' = [num EXCEPT ![t] = Half(@)]
  /\ UNCHANGED <<process_terminal, pc, rtc_interrupt_divider, rtc_counter,
                 frequency, result, elapsed>>

\* The locals are gone.
WriteReturns(t, value) ==
  /\ result' = [result EXCEPT ![t] = value]
  /\ frequency' = [frequency EXCEPT ![t] = 0]
  /\ num' = [num EXCEPT ![t] = 0]
  /\ pc' = [pc EXCEPT ![t] = "user"]

CheckFails(t) ==
  /\ At(t, "checking")
  /\ num[t] # 1
  /\ Rejected(t)
  /\ WriteReturns(t, -1)
  /\ UNCHANGED <<process_terminal, rtc_interrupt_divider, rtc_counter, elapsed>>

CheckPasses(t) ==
  /\ At(t, "checking")
  /\ num[t] = 1
  /\ LET capped == IF frequency[t] > MAX_INTERRUPT_FREQUENCY
                     THEN MAX_INTERRUPT_FREQUENCY ELSE frequency[t]
         count  == MAX_INTERRUPT_FREQUENCY \div capped
     IN  /\ rtc_interrupt_divider' = [rtc_interrupt_divider EXCEPT ![t] = count]
         /\ rtc_counter' = [rtc_counter EXCEPT ![t] = count]
  /\ WriteReturns(t, 0)
  /\ UNCHANGED <<process_terminal, elapsed>>

Check(t) == CheckHalve(t) \/ CheckFails(t) \/ CheckPasses(t)

-----------------------------------------------------------------------------
(* _sys_read_rtc: only a process that opened the rtc gets here.             *)

ReadRtc_NoReset(t) ==
  /\ At(t, "user")
  /\ rtc_interrupt_divider[t] # 0
  /\ elapsed' = [elapsed EXCEPT ![t] = 0]
  /\ pc' = [pc EXCEPT ![t] = "spinning"]
  /\ UNCHANGED <<process_terminal, rtc_interrupt_divider, rtc_counter, frequency,
                 num, result>>

ReadRtc(t) ==
  /\ At(t, "user")
  /\ rtc_interrupt_divider[t] # 0
  /\ rtc_counter' = [rtc_counter EXCEPT ![t] = rtc_interrupt_divider[t]]
  /\ elapsed' = [elapsed EXCEPT ![t] = 0]
  /\ pc' = [pc EXCEPT ![t] = "spinning"]
  /\ UNCHANGED <<process_terminal, rtc_interrupt_divider, frequency, num, result>>

\* The loop finds the counter at zero, cli, and the counter is reset.
ReadReturns(t) ==
  /\ At(t, "spinning")
  /\ rtc_counter[t] = 0
  /\ rtc_counter' = [rtc_counter EXCEPT ![t] = rtc_interrupt_divider[t]]
  /\ elapsed' = [elapsed EXCEPT ![t] = 0]
  /\ pc' = [pc EXCEPT ![t] = "user"]
  /\ UNCHANGED <<process_terminal, rtc_interrupt_divider, frequency, num, result>>

\* The process executes another one, with a new PCB.
NewProcess(t) ==
  /\ At(t, "user")
  /\ rtc_interrupt_divider' = [rtc_interrupt_divider EXCEPT ![t] = 0]
  /\ rtc_counter' = [rtc_counter EXCEPT ![t] = 0]
  /\ UNCHANGED <<process_terminal, pc, frequency, num, result, elapsed>>

\* The process halts: its parent's PCB, not decremented in the meantime, is
\* current again.
ParentResumes(t) ==
  /\ At(t, "user")
  /\ \E divider \in {MAX_INTERRUPT_FREQUENCY \div 2^k : k \in 0 .. 30} :
       /\ rtc_interrupt_divider' = [rtc_interrupt_divider EXCEPT ![t] = divider]
       /\ \E counter \in 0 .. divider :
            rtc_counter' = [rtc_counter EXCEPT ![t] = counter]
  /\ UNCHANGED <<process_terminal, pc, frequency, num, result, elapsed>>

-----------------------------------------------------------------------------
Decrement_Unguarded(n) == n - 1
Decrement_StopsAtOne(n) == IF n > 1 THEN n - 1 ELSE n

Decrement(n) == IF n > 0 THEN n - 1 ELSE n

\* The current process of every terminal has its counter decremented.
rtc_interrupt ==
  /\ InterruptsEnabled
  /\ rtc_counter' = [t \in Terminals |-> Decrement(rtc_counter[t])]
  /\ elapsed' = [t \in Terminals |->
                   IF pc[t] = "spinning" /\ elapsed[t] < MAX_INTERRUPT_FREQUENCY
                     THEN elapsed[t] + 1 ELSE elapsed[t]]
  /\ UNCHANGED <<process_terminal, pc, rtc_interrupt_divider, frequency, num,
                 result>>

Schedule ==
  /\ InterruptsEnabled
  /\ process_terminal' = (process_terminal + 1) % NUM_TERMINALS
  /\ UNCHANGED <<pc, rtc_interrupt_divider, rtc_counter, frequency, num, result,
                 elapsed>>

RtcNext ==
  \/ rtc_interrupt
  \/ Schedule
  \/ \E t \in Terminals :
       \/ \E f \in Frequencies \cup {2} : WriteRtc(t, f)
       \/ Check(t)
       \/ ReadRtc(t)
       \/ ReadReturns(t)
       \/ NewProcess(t)
       \/ ParentResumes(t)

(***************************************************************************)
(* Both clocks keep firing, and an interrupt that arrives while the CPU    *)
(* has them disabled stays pending in the PIC: strong fairness.  A loop    *)
(* runs on whenever its process has the CPU, thousands of times per        *)
(* quantum: strong fairness for leaving the spin loop, weak for the loop   *)
(* that cannot be interrupted.                                             *)
(***************************************************************************)
RtcFairness ==
  /\ SF_rvars(rtc_interrupt)
  /\ SF_rvars(Schedule)
  /\ \A t \in Terminals : WF_rvars(Check(t)) /\ SF_rvars(ReadReturns(t))

RtcSpec == RtcInit /\ [][RtcNext]_rvars /\ RtcFairness

-----------------------------------------------------------------------------
\* Every variable has the type of the C object it models.
RtcTypeOK ==
  /\ process_terminal \in Terminals
  /\ pc \in [Terminals -> {"user", "checking", "spinning"}]
  /\ rtc_interrupt_divider \in [Terminals -> 0 .. MAX_INTERRUPT_FREQUENCY]
  /\ rtc_counter \in [Terminals -> 0 .. MAX_INTERRUPT_FREQUENCY]
  /\ frequency \in [Terminals -> Int]
  /\ num \in [Terminals -> Int]
  /\ result \in [Terminals -> {0, -1}]
  /\ elapsed \in [Terminals -> 0 .. MAX_INTERRUPT_FREQUENCY]

\* While a process waits, what is left on its counter and what has already
\* ticked make up its period, whatever the other terminals' processes read or
\* write and wherever it was preempted.
WaitIsExact ==
  \A t \in Terminals :
    pc[t] = "spinning" =>
      rtc_counter[t] = IF elapsed[t] < rtc_interrupt_divider[t]
                         THEN rtc_interrupt_divider[t] - elapsed[t] ELSE 0

\* A write is accepted exactly if the number is a power of two; then the
\* period is the one asked for, or the shortest there is, and otherwise the
\* old rate stays.
AcceptsPowersOfTwo ==
  [][\A t \in Terminals :
       pc[t] = "checking" /\ pc'[t] = "user" =>
         IF \E k \in 0 .. 30 : frequency[t] = 2^k
           THEN /\ result'[t] = 0
                /\ \/ rtc_interrupt_divider'[t] * frequency[t] = MAX_INTERRUPT_FREQUENCY
                   \/ /\ rtc_interrupt_divider'[t] = 1
                      /\ frequency[t] > MAX_INTERRUPT_FREQUENCY
           ELSE /\ result'[t] = -1
                /\ rtc_interrupt_divider'[t] = rtc_interrupt_divider[t]]_rvars

\* Every read of the rtc returns, on a hidden terminal too.
EveryReadReturns ==
  \A t \in Terminals : pc[t] = "spinning" ~> pc[t] = "user"

\* Every write to the rtc returns, with -1 for a number that is no frequency.
EveryWriteReturns ==
  \A t \in Terminals : pc[t] = "checking" ~> pc[t] = "user"
=============================================================================
