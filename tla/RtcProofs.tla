------------------------------ MODULE RtcProofs ------------------------------
(***************************************************************************)
(* Proofs about VirtualRtc, for any number of terminals, any rate of the   *)
(* clock and any numbers written to it.                                    *)
(***************************************************************************)
EXTENDS VirtualRtc, WellFoundedInduction, TLAPS

-----------------------------------------------------------------------------
(* Arithmetic                                                               *)

\* A quotient of naturals is between zero and the dividend.
LEMMA QuotientBounded ==
  ASSUME NEW m \in Nat, NEW n \in Nat \ {0}
  PROVE  m \div n \in 0 .. m
<1>1. m \div n \in Nat /\ m % n \in Nat /\ m = n * (m \div n) + (m % n)
  OBVIOUS
<1> QED  BY <1>1

\* Dividing a multiple is exact.
LEMMA ExactQuotient ==
  ASSUME NEW q \in Nat, NEW n \in Nat \ {0}
  PROVE  (q * n) \div n = q
OBVIOUS

\* The powers of two an int32_t can hold.
LEMMA Powers ==
  ASSUME NEW k \in 0 .. 30
  PROVE  2^k \in Nat \ {0} /\ (k < 30 => 2^(k + 1) = 2 * 2^k)
<1> DEFINE P(i) == 2^i
<1>1.
      /\ P(0) = 1 /\ P(1) = 2 /\ P(2) = 4
      /\ P(3) = 8 /\ P(4) = 16 /\ P(5) = 32
      /\ P(6) = 64 /\ P(7) = 128 /\ P(8) = 256
      /\ P(9) = 512 /\ P(10) = 1024 /\ P(11) = 2048
      /\ P(12) = 4096 /\ P(13) = 8192 /\ P(14) = 16384
      /\ P(15) = 32768 /\ P(16) = 65536 /\ P(17) = 131072
      /\ P(18) = 262144 /\ P(19) = 524288 /\ P(20) = 1048576
      /\ P(21) = 2097152 /\ P(22) = 4194304 /\ P(23) = 8388608
      /\ P(24) = 16777216 /\ P(25) = 33554432 /\ P(26) = 67108864
      /\ P(27) = 134217728 /\ P(28) = 268435456 /\ P(29) = 536870912
      /\ P(30) = 1073741824
  BY SMT
<1> HIDE DEF P
<1>2. P(k) \in Nat \ {0}
  BY <1>1, SMT
<1>3. ASSUME k < 30 PROVE P(k + 1) = 2 * P(k)
  BY <1>1, <1>3, SMT
<1> QED  BY <1>2, <1>3, Zenon DEF P

\* Twice a multiple.
LEMMA TwiceMultiple ==
  ASSUME NEW n \in Nat, NEW q \in Nat, NEW m \in Nat, n = q * m
  PROVE  2 * n = (2 * q) * m /\ 2 * q \in Nat
OBVIOUS

\* A smaller power of two divides a larger one.
LEMMA PowersDivide ==
  ASSUME NEW k \in 0 .. 30, NEW m \in 0 .. 30, k <= m
  PROVE  \E q \in Nat : 2^m = q * 2^k
<1> DEFINE P(i) == 2^i
           Bad == {i \in 0 .. 30 : k <= i /\ ~ \E q \in Nat : P(i) = q * P(k)}
<1>1. \A i \in 0 .. 30 : P(i) \in Nat \ {0} /\ (i < 30 => P(i + 1) = 2 * P(i))
  BY Powers, Zenon
<1> HIDE DEF P
<1>2. ASSUME Bad # {} PROVE FALSE
  <2>1. Bad \subseteq Nat
    OBVIOUS
  <2>2. PICK i \in Bad : \A j \in Bad : <<j, i>> \notin OpToRel(<, Nat)
    <3> HIDE DEF Bad
    <3> QED  BY <1>2, <2>1, NatLessThanWellFounded, WFMin, Zenon
  <2>3. ASSUME NEW j \in Bad PROVE ~(j < i)
    BY <2>1, <2>2 DEF OpToRel
  <2>4. i \in 0 .. 30 /\ k <= i
    OBVIOUS
  <2>5. CASE i = k
    <3>1. P(i) = 1 * P(k)
      BY <1>1, <2>5
    <3> QED  BY <3>1
  <2>6. CASE i > k
    <3>1. i - 1 \in 0 .. 30 /\ k <= i - 1 /\ i - 1 < i /\ i - 1 < 30
      BY <2>4, <2>6
    <3>2. i - 1 \notin Bad
      BY <2>3, <3>1
    <3>3. PICK q \in Nat : P(i - 1) = q * P(k)
      BY <3>1, <3>2
    <3>4. P(i) = 2 * P(i - 1)
      BY <1>1, <2>4, <3>1
    <3>5. P(i) = (2 * q) * P(k) /\ 2 * q \in Nat
      <4>1. P(i - 1) \in Nat /\ P(k) \in Nat
        BY <1>1, <3>1
      <4> QED  BY <3>3, <3>4, <4>1, TwiceMultiple
    <3> QED  BY <3>5
  <2> QED  BY <2>4, <2>5, <2>6
<1>3. \E q \in Nat : P(m) = q * P(k)
  BY <1>2
<1> QED  BY <1>3, Zenon DEF P

-----------------------------------------------------------------------------
(* Types and the length of a wait                                           *)

\* The inductive invariant.  The divisor of _sys_write_rtc is positive because
\* power_of_two only gets to 1 from a positive number.
RtcInv ==
  /\ RtcTypeOK
  /\ \A t \in Terminals : pc[t] = "checking" /\ num[t] > 0 => frequency[t] > 0
  /\ WaitIsExact

\* What CheckPasses divides by.
Capped(f) ==
  IF f > MAX_INTERRUPT_FREQUENCY THEN MAX_INTERRUPT_FREQUENCY ELSE f

\* The interrupt divider of an accepted write is in range.
LEMMA DividerBounded ==
  ASSUME NEW f \in Int, f > 0
  PROVE  MAX_INTERRUPT_FREQUENCY \div Capped(f) \in 0 .. MAX_INTERRUPT_FREQUENCY
<1>1. Capped(f) \in Nat \ {0} /\ MAX_INTERRUPT_FREQUENCY \in Nat
  BY RtcAssumption DEF Capped
<1> QED  BY <1>1, QuotientBounded

\* Halving keeps the sign.
LEMMA HalfFacts ==
  ASSUME NEW n \in Int
  PROVE  /\ Half(n) \in Int
         /\ Half(n) > 0 => n > 0
         /\ n > 0 => Half(n) = n \div 2
         /\ n <= 0 => Half(n) <= 0
BY DEF Half

\* The invariant is inductive.
LEMMA RtcInvStep ==
  ASSUME RtcInv, [RtcNext]_rvars
  PROVE  RtcInv'
<1> USE DEF RtcInv, RtcTypeOK, WaitIsExact
<1>0. MAX_INTERRUPT_FREQUENCY \in Nat \ {0}
  BY RtcAssumption
<1>1. ASSUME rtc_interrupt PROVE RtcInv'
  <2>1. /\ rtc_counter' \in [Terminals -> 0 .. MAX_INTERRUPT_FREQUENCY]
        /\ elapsed' \in [Terminals -> 0 .. MAX_INTERRUPT_FREQUENCY]
    BY <1>0, <1>1 DEF rtc_interrupt, Decrement
  <2>2. WaitIsExact'
    <3> SUFFICES ASSUME NEW t \in Terminals, pc[t] = "spinning"
                 PROVE  rtc_counter'[t] =
                          IF elapsed'[t] < rtc_interrupt_divider[t]
                            THEN rtc_interrupt_divider[t] - elapsed'[t] ELSE 0
      BY <1>1 DEF rtc_interrupt
    <3>1. /\ rtc_counter'[t] = Decrement(rtc_counter[t])
          /\ elapsed'[t] = IF elapsed[t] < MAX_INTERRUPT_FREQUENCY
                             THEN elapsed[t] + 1 ELSE elapsed[t]
      BY <1>1 DEF rtc_interrupt
    <3>2. /\ rtc_interrupt_divider[t] \in 0 .. MAX_INTERRUPT_FREQUENCY
          /\ elapsed[t] \in 0 .. MAX_INTERRUPT_FREQUENCY
          /\ rtc_counter[t] = IF elapsed[t] < rtc_interrupt_divider[t]
                                THEN rtc_interrupt_divider[t] - elapsed[t] ELSE 0
      OBVIOUS
    <3> QED  BY <1>0, <3>1, <3>2 DEF Decrement
  <2> QED  BY <1>1, <2>1, <2>2 DEF rtc_interrupt
<1>2. ASSUME Schedule PROVE RtcInv'
  <2>1. process_terminal' \in Terminals
    BY <1>2, RtcAssumption DEF Schedule, Terminals
  <2> QED  BY <1>2, <2>1 DEF Schedule
<1>3. ASSUME NEW t \in Terminals, NEW f \in Frequencies \cup {2}, WriteRtc(t, f)
      PROVE  RtcInv'
  BY <1>3, RtcAssumption DEF WriteRtc, At
<1>4. ASSUME NEW t \in Terminals, CheckHalve(t) PROVE RtcInv'
  <2>1. Half(num[t]) \in Int /\ (Half(num[t]) > 0 => num[t] > 0)
    BY HalfFacts
  <2> QED  BY <1>4, <2>1 DEF CheckHalve, At
<1>5. ASSUME NEW t \in Terminals, CheckFails(t) PROVE RtcInv'
  BY <1>5 DEF CheckFails, WriteReturns, At
<1>6. ASSUME NEW t \in Terminals, CheckPasses(t) PROVE RtcInv'
  <2> DEFINE count == MAX_INTERRUPT_FREQUENCY \div Capped(frequency[t])
  <2>1. count \in 0 .. MAX_INTERRUPT_FREQUENCY
    BY <1>6, DividerBounded DEF CheckPasses, At
  <2>2. /\ rtc_interrupt_divider' = [rtc_interrupt_divider EXCEPT ![t] = count]
        /\ rtc_counter' = [rtc_counter EXCEPT ![t] = count]
    BY <1>6 DEF CheckPasses, Capped
  <2> HIDE DEF count
  <2> QED  BY <1>6, <2>1, <2>2 DEF CheckPasses, WriteReturns, At
<1>7. ASSUME NEW t \in Terminals, ReadRtc(t) PROVE RtcInv'
  BY <1>0, <1>7 DEF ReadRtc, At
<1>8. ASSUME NEW t \in Terminals, ReadReturns(t) PROVE RtcInv'
  BY <1>0, <1>8 DEF ReadReturns, At
<1>9. ASSUME NEW t \in Terminals, NewProcess(t) PROVE RtcInv'
  BY <1>0, <1>9 DEF NewProcess, At
<1>10. ASSUME NEW t \in Terminals, ParentResumes(t) PROVE RtcInv'
  <2>1. PICK k \in 0 .. 30 :
          /\ rtc_interrupt_divider' =
               [rtc_interrupt_divider EXCEPT ![t] = MAX_INTERRUPT_FREQUENCY \div 2^k]
          /\ \E counter \in 0 .. MAX_INTERRUPT_FREQUENCY \div 2^k :
               rtc_counter' = [rtc_counter EXCEPT ![t] = counter]
    BY <1>10, Zenon DEF ParentResumes
  <2> DEFINE divider == MAX_INTERRUPT_FREQUENCY \div 2^k
  <2>2. divider \in 0 .. MAX_INTERRUPT_FREQUENCY
    BY <1>0, Powers, QuotientBounded
  <2>3. /\ rtc_interrupt_divider' = [rtc_interrupt_divider EXCEPT ![t] = divider]
        /\ \E counter \in 0 .. divider :
             rtc_counter' = [rtc_counter EXCEPT ![t] = counter]
    BY <2>1, Zenon
  <2> HIDE DEF divider
  <2>4. PICK counter \in 0 .. divider :
          rtc_counter' = [rtc_counter EXCEPT ![t] = counter]
    BY <2>3
  <2>5. counter \in 0 .. MAX_INTERRUPT_FREQUENCY
    BY <1>0, <2>2
  <2>6. /\ pc[t] = "user"
        /\ UNCHANGED <<process_terminal, pc, frequency, num, result, elapsed>>
    BY <1>10, Zenon DEF ParentResumes, At
  <2> QED  BY <2>2, <2>3, <2>4, <2>5, <2>6
<1>11. ASSUME UNCHANGED rvars PROVE RtcInv'
  BY <1>11 DEF rvars
<1> QED
  BY <1>1, <1>2, <1>3, <1>4, <1>5, <1>6, <1>7, <1>8, <1>9, <1>10, <1>11, Zenon
  DEF RtcNext, Check

\* The invariant holds in every reachable state.
LEMMA RtcInvariant == RtcSpec => []RtcInv
<1>1. RtcInit => RtcInv
  BY RtcAssumption DEF RtcInit, RtcInv, RtcTypeOK, WaitIsExact, Terminals
<1>2. RtcInv /\ [RtcNext]_rvars => RtcInv'
  BY RtcInvStep
<1> QED  BY <1>1, <1>2, PTL DEF RtcSpec

\* _sys_write_rtc never divides by zero, and divider and counter stay within
\* the rate of the clock whatever is written.
THEOREM RtcTypeCorrect == RtcSpec => []RtcTypeOK
<1>1. RtcInv => RtcTypeOK
  BY DEF RtcInv
<1> QED  BY <1>1, RtcInvariant, PTL

\* A read of the rtc waits for exactly its period, on every terminal: ticks
\* elapsed and ticks left on rtc_counter add up to rtc_interrupt_divider.
THEOREM WaitsExactly == RtcSpec => []WaitIsExact
<1>1. RtcInv => WaitIsExact
  BY DEF RtcInv
<1> QED  BY <1>1, RtcInvariant, PTL

-----------------------------------------------------------------------------
(* Which numbers a write accepts                                            *)

IsPower(n) == \E k \in 0 .. 30 : n = 2^k
Fits(n) == n \div 2 < 2^30

\* What the loop of power_of_two keeps: the number it has come to is a power
\* of two if and only if the one it started from is.
PowersInv ==
  \A t \in Terminals :
    pc[t] = "checking" =>
      Fits(num[t]) /\ (IsPower(frequency[t]) <=> IsPower(num[t]))

\* One is a power of two, other odd numbers and numbers below one are not, and
\* an even number is one if its half is.
LEMMA PowerFacts ==
  ASSUME NEW n \in Int, Fits(n)
  PROVE  /\ n <= 0 => ~IsPower(n)
         /\ IsPower(1)
         /\ n > 1 /\ n % 2 = 1 => ~IsPower(n)
         /\ n > 1 /\ n % 2 = 0 => (IsPower(n) <=> IsPower(n \div 2))
         /\ Fits(Half(n))
<1> DEFINE P(i) == 2^i
<1>1. \A i \in 0 .. 30 : P(i) \in Nat \ {0} /\ (i < 30 => P(i + 1) = 2 * P(i))
  BY Powers, Zenon
<1>2. P(0) = 1
  BY SMT
<1>3. n \div 2 < P(30)
  BY Zenon DEF Fits
<1>4. \A m : IsPower(m) <=> \E k \in 0 .. 30 : m = P(k)
  BY Zenon DEF IsPower
<1>5. \A m : Fits(m) <=> m \div 2 < P(30)
  BY Zenon DEF Fits
<1> HIDE DEF P
<1>6. n <= 0 => ~IsPower(n)
  BY <1>1, <1>4
<1>7. IsPower(1)
  BY <1>2, <1>4
<1>8. ASSUME n > 1, NEW k \in 0 .. 30, n = P(k)
      PROVE  k - 1 \in 0 .. 30 /\ n = 2 * P(k - 1) /\ P(k - 1) \in Nat
  <2>1. k # 0
    BY <1>2, <1>8
  <2>2. k - 1 \in 0 .. 30 /\ k - 1 < 30 /\ k - 1 + 1 = k
    BY <2>1
  <2> QED  BY <1>1, <1>8, <2>2
<1>9. n > 1 /\ n % 2 = 1 => ~IsPower(n)
  <2> SUFFICES ASSUME n > 1, n % 2 = 1, NEW k \in 0 .. 30, n = P(k) PROVE FALSE
    BY <1>4
  <2>1. n = 2 * P(k - 1) /\ P(k - 1) \in Nat
    BY <1>8
  <2> QED  BY <2>1
<1>10. ASSUME n > 1, n % 2 = 0 PROVE IsPower(n) <=> IsPower(n \div 2)
  <2>1. ASSUME NEW k \in 0 .. 30, n = P(k) PROVE IsPower(n \div 2)
    <3>1. k - 1 \in 0 .. 30 /\ n = 2 * P(k - 1) /\ P(k - 1) \in Nat
      BY <1>8, <1>10, <2>1
    <3>2. n \div 2 = P(k - 1)
      BY <3>1
    <3> QED  BY <1>4, <3>1, <3>2
  <2>2. ASSUME NEW k \in 0 .. 30, n \div 2 = P(k) PROVE IsPower(n)
    <3>1. k < 30
      BY <1>1, <1>3, <2>2
    <3>2. P(k + 1) = 2 * P(k) /\ P(k) \in Nat /\ k + 1 \in 0 .. 30
      BY <1>1, <3>1
    <3>3. n = P(k + 1)
      BY <1>10, <2>2, <3>2
    <3> QED  BY <1>4, <3>2, <3>3
  <2> QED  BY <1>4, <2>1, <2>2
<1>11. Fits(Half(n))
  <2>1. P(30) \in Nat \ {0}
    BY <1>1
  <2>2. Half(n) \div 2 < P(30)
    BY <1>3, <2>1 DEF Half
  <2> QED  BY <1>5, <2>2
<1> QED  BY <1>6, <1>7, <1>9, <1>10, <1>11

\* The numbers programs write fit.
LEMMA FrequenciesFit ==
  ASSUME NEW f \in Frequencies \cup {2}
  PROVE  f \in Int /\ Fits(f)
<1> DEFINE c == 2^30
<1>1. c \in Nat \ {0}
  BY Powers
<1>2. c > 1
  BY SMT
<1>3. f \in Frequencies => f \div c \in -2 .. 1
  BY PowersAssumption, Zenon
<1>4. f \in Int
  BY RtcAssumption
<1> HIDE DEF c
<1>5. CASE f \in Frequencies
  <2>1. f \div c <= 1
    BY <1>3, <1>5
  <2>2. f < 2 * c
    BY <1>1, <1>4, <2>1
  <2>3. f \div 2 < c
    BY <1>1, <1>4, <2>2
  <2> QED  BY <1>4, <2>3, Zenon DEF Fits, c
<1>6. CASE f = 2
  <2>1. f \div 2 < c
    BY <1>1, <1>2, <1>6
  <2> QED  BY <1>4, <2>1, Zenon DEF Fits, c
<1> QED  BY <1>5, <1>6

\* The loop of power_of_two keeps what it decides.
LEMMA PowersInvStep ==
  ASSUME RtcInv, PowersInv, [RtcNext]_rvars
  PROVE  PowersInv'
<1>0. /\ pc \in [Terminals -> {"user", "checking", "spinning"}]
      /\ num \in [Terminals -> Int] /\ frequency \in [Terminals -> Int]
  BY DEF RtcInv, RtcTypeOK
<1> SUFFICES ASSUME NEW u \in Terminals, pc'[u] = "checking"
             PROVE  Fits(num'[u]) /\ (IsPower(frequency'[u]) <=> IsPower(num'[u]))
  BY DEF PowersInv
<1> DEFINE Kept == pc'[u] = pc[u] /\ num'[u] = num[u] /\ frequency'[u] = frequency[u]
<1>1. CASE Kept
  BY <1>1, Zenon DEF PowersInv
<1>2. ASSUME NEW t \in Terminals, NEW f \in Frequencies \cup {2}, WriteRtc(t, f), u = t
      PROVE  Fits(num'[u]) /\ frequency'[u] = num'[u]
  <2>1. num'[u] = f /\ frequency'[u] = f
    BY <1>0, <1>2 DEF WriteRtc
  <2> QED  BY <2>1, FrequenciesFit
<1>3. ASSUME CheckHalve(u)
      PROVE  Fits(num'[u]) /\ (IsPower(frequency'[u]) <=> IsPower(num'[u]))
  <2>1. /\ num'[u] = Half(num[u]) /\ frequency'[u] = frequency[u]
        /\ pc[u] = "checking" /\ num[u] # 1 /\ ~Odd(num[u])
    BY <1>0, <1>3 DEF CheckHalve, At, Rejected
  <2>2. Fits(num[u]) /\ (IsPower(frequency[u]) <=> IsPower(num[u]))
    BY <2>1, Zenon DEF PowersInv
  <2>3. num[u] \in Int
    BY <1>0
  <2> DEFINE n == num[u]
  <2> HIDE DEF n
  <2>4. /\ n \in Int /\ Fits(n) /\ n # 1 /\ ~Odd(n) /\ num'[u] = Half(n)
        /\ IsPower(frequency'[u]) <=> IsPower(n)
    BY <2>1, <2>2, <2>3, Zenon DEF n
  <2>5. Fits(Half(n))
    BY <2>4, PowerFacts, Zenon
  <2>6. CASE n <= 0
    <3>1. Half(n) <= 0 /\ Half(n) \in Int
      BY <2>4, <2>6, HalfFacts
    <3>2. ~IsPower(n) /\ ~IsPower(Half(n))
      BY <2>4, <2>5, <2>6, <3>1, PowerFacts, Zenon
    <3> QED  BY <2>4, <2>5, <3>2, Zenon
  <2>7. CASE n > 1
    <3>1. Half(n) = n \div 2 /\ n % 2 = 0
      BY <2>4, <2>7, HalfFacts DEF Odd
    <3>2. IsPower(n) <=> IsPower(n \div 2)
      BY <2>4, <2>7, <3>1, PowerFacts, Zenon
    <3> QED  BY <2>4, <2>5, <3>1, <3>2, Zenon
  <2> QED
    <3>1. n <= 0 \/ n > 1
      BY <2>4
    <3> QED  BY <2>6, <2>7, <3>1
<1>4. ASSUME NEW t \in Terminals,
             \/ \E f \in Frequencies \cup {2} : WriteRtc(t, f)
             \/ CheckHalve(t),
             u # t
      PROVE  Kept
  BY <1>0, <1>4 DEF WriteRtc, CheckHalve
<1>5. ASSUME NEW t \in Terminals, CheckFails(t) \/ CheckPasses(t) PROVE Kept
  <2>1. WriteReturns(t, 0) \/ WriteReturns(t, -1)
    BY <1>5 DEF CheckFails, CheckPasses
  <2>2. u # t
    BY <1>0, <2>1 DEF WriteReturns
  <2> QED  BY <1>0, <2>1, <2>2 DEF WriteReturns
<1>6. ASSUME NEW t \in Terminals, ReadRtc(t) \/ ReadReturns(t) PROVE Kept
  BY <1>0, <1>6 DEF ReadRtc, ReadReturns
<1>7. ASSUME NEW t \in Terminals, NewProcess(t) \/ ParentResumes(t) PROVE Kept
  BY <1>7, Zenon DEF NewProcess, ParentResumes
<1>8. ASSUME rtc_interrupt \/ Schedule \/ UNCHANGED rvars PROVE Kept
  BY <1>8, Zenon DEF rtc_interrupt, Schedule, rvars
<1>9. CASE \E t \in Terminals : \E f \in Frequencies \cup {2} : WriteRtc(t, f)
  BY <1>1, <1>2, <1>4, <1>9, Zenon
<1>10. CASE \E t \in Terminals : CheckHalve(t)
  BY <1>1, <1>3, <1>4, <1>10, Zenon
<1> QED
  BY <1>1, <1>5, <1>6, <1>7, <1>8, <1>9, <1>10, Zenon DEF RtcNext, Check

\* The quotient an accepted frequency leads to: the period asked for, or the
\* shortest there is.
LEMMA DividerExact ==
  ASSUME NEW f \in Int, f > 0, IsPower(f)
  PROVE  LET count == MAX_INTERRUPT_FREQUENCY \div Capped(f)
         IN  \/ count * f = MAX_INTERRUPT_FREQUENCY
             \/ count = 1 /\ f > MAX_INTERRUPT_FREQUENCY
<1> DEFINE P(i) == 2^i
<1>1. PICK m \in 0 .. 30 : MAX_INTERRUPT_FREQUENCY = P(m)
  BY PowersAssumption, Zenon
<1>2. PICK k \in 0 .. 30 : f = P(k)
  BY Zenon DEF IsPower
<1>3. \A i \in 0 .. 30 : P(i) \in Nat \ {0} /\ (i < 30 => P(i + 1) = 2 * P(i))
  BY Powers, Zenon
<1>4. k <= m => \E q \in Nat : P(m) = q * P(k)
  BY PowersDivide, Zenon
<1>5. m <= k => \E q \in Nat : P(k) = q * P(m)
  BY PowersDivide, Zenon
<1> HIDE DEF P
<1>6. MAX_INTERRUPT_FREQUENCY \in Nat \ {0}
  BY RtcAssumption
<1>7. CASE f > MAX_INTERRUPT_FREQUENCY
  <2>1. MAX_INTERRUPT_FREQUENCY \div Capped(f) = 1
    BY <1>6, <1>7 DEF Capped
  <2> QED  BY <1>7, <2>1
<1>8. CASE f <= MAX_INTERRUPT_FREQUENCY
  <2>1. Capped(f) = f
    BY <1>6, <1>8 DEF Capped
  <2>2. PICK q \in Nat : P(m) = q * P(k)
    <3>1. CASE k <= m
      BY <1>4, <3>1
    <3>2. CASE m <= k
      <4>1. PICK q \in Nat : P(k) = q * P(m)
        BY <1>5, <3>2
      <4>2. P(k) <= P(m) /\ P(m) \in Nat \ {0} /\ P(k) \in Nat \ {0}
        BY <1>1, <1>2, <1>3, <1>8
      <4>3. q = 1
        BY <4>1, <4>2
      <4>4. P(m) = 1 * P(k)
        BY <4>1, <4>2, <4>3
      <4> QED  BY <4>4
    <3> QED  BY <3>1, <3>2
  <2>3. MAX_INTERRUPT_FREQUENCY = q * f
    BY <1>1, <1>2, <2>2
  <2>4. MAX_INTERRUPT_FREQUENCY \div f = q
    BY <2>3, ExactQuotient
  <2> QED  BY <2>1, <2>3, <2>4
<1> QED  BY <1>6, <1>7, <1>8

\* _sys_write_rtc accepts exactly the powers of two, for every int32_t and
\* every rate of the clock that is a power of two itself, and sets the period
\* asked for or the shortest there is.
THEOREM WritesAcceptPowers == RtcSpec => AcceptsPowersOfTwo
<1> DEFINE Accepts(t) ==
      pc[t] = "checking" /\ pc'[t] = "user" =>
         IF \E k \in 0 .. 30 : frequency[t] = 2^k
           THEN /\ result'[t] = 0
                /\ \/ rtc_interrupt_divider'[t] * frequency[t] = MAX_INTERRUPT_FREQUENCY
                   \/ /\ rtc_interrupt_divider'[t] = 1
                      /\ frequency[t] > MAX_INTERRUPT_FREQUENCY
           ELSE /\ result'[t] = -1
                /\ rtc_interrupt_divider'[t] = rtc_interrupt_divider[t]
<1>1. ASSUME RtcInv, PowersInv, RtcNext PROVE \A t \in Terminals : Accepts(t)
  <2> SUFFICES ASSUME NEW t \in Terminals, pc[t] = "checking", pc'[t] = "user"
               PROVE  IF IsPower(frequency[t])
                        THEN /\ result'[t] = 0
                             /\ \/ rtc_interrupt_divider'[t] * frequency[t] =
                                     MAX_INTERRUPT_FREQUENCY
                                \/ /\ rtc_interrupt_divider'[t] = 1
                                   /\ frequency[t] > MAX_INTERRUPT_FREQUENCY
                        ELSE /\ result'[t] = -1
                             /\ rtc_interrupt_divider'[t] = rtc_interrupt_divider[t]
    BY Zenon DEF IsPower
  <2>1. /\ pc \in [Terminals -> {"user", "checking", "spinning"}]
        /\ num[t] \in Int /\ frequency[t] \in Int
        /\ rtc_interrupt_divider \in [Terminals -> 0 .. MAX_INTERRUPT_FREQUENCY]
        /\ result \in [Terminals -> {0, -1}]
        /\ num[t] > 0 => frequency[t] > 0
    BY <1>1 DEF RtcInv, RtcTypeOK
  <2>2. Fits(num[t]) /\ (IsPower(frequency[t]) <=> IsPower(num[t]))
    BY <1>1, Zenon DEF PowersInv
  <2>3. CheckFails(t) \/ CheckPasses(t)
    <3>1. ASSUME NEW u \in Terminals, CheckFails(u) \/ CheckPasses(u) PROVE u = t
      <4>1. WriteReturns(u, 0) \/ WriteReturns(u, -1)
        BY <3>1 DEF CheckFails, CheckPasses
      <4> QED  BY <2>1, <4>1 DEF WriteReturns
    <3>2. ASSUME NEW u \in Terminals,
                 \/ \E f \in Frequencies \cup {2} : WriteRtc(u, f)
                 \/ ReadRtc(u) \/ ReadReturns(u)
          PROVE  FALSE
      BY <2>1, <3>2 DEF WriteRtc, ReadRtc, ReadReturns, At
    <3>3. ASSUME NEW u \in Terminals,
                 CheckHalve(u) \/ NewProcess(u) \/ ParentResumes(u)
          PROVE  pc' = pc
      BY <3>3, Zenon DEF CheckHalve, NewProcess, ParentResumes
    <3>4. ASSUME rtc_interrupt \/ Schedule PROVE pc' = pc
      BY <3>4, Zenon DEF rtc_interrupt, Schedule
    <3>5. pc' # pc
      OBVIOUS
    <3> QED
      BY <1>1, <3>1, <3>2, <3>3, <3>4, <3>5, Zenon DEF RtcNext, Check
  <2>4. CASE CheckFails(t)
    <3>1. result'[t] = -1 /\ rtc_interrupt_divider' = rtc_interrupt_divider
      BY <2>1, <2>4 DEF CheckFails, WriteReturns
    <3>2. num[t] # 1 /\ (frequency[t] = 0 \/ Odd(num[t]))
      BY <2>4 DEF CheckFails, Rejected
    <3>3. ~IsPower(frequency[t])
      <4>1. CASE frequency[t] = 0
        <5>1. Fits(0)
          BY SMT DEF Fits
        <5> QED  BY <4>1, <5>1, PowerFacts
      <4>2. CASE Odd(num[t])
        <5>1. num[t] > 1 /\ num[t] % 2 = 1
          BY <2>1, <3>2, <4>2 DEF Odd
        <5> QED  BY <2>1, <2>2, <5>1, PowerFacts, Zenon
      <4> QED  BY <3>2, <4>1, <4>2
    <3> QED  BY <3>1, <3>3
  <2>5. CASE CheckPasses(t)
    <3> DEFINE f == frequency[t]
               count == MAX_INTERRUPT_FREQUENCY \div Capped(f)
    <3>1. num[t] = 1 /\ result'[t] = 0 /\ rtc_interrupt_divider'[t] = count
      BY <2>1, <2>5 DEF CheckPasses, WriteReturns, Capped
    <3>2. IsPower(f)
      BY <2>1, <2>2, <3>1, PowerFacts
    <3>3. f \in Int /\ f > 0
      BY <2>1, <3>1
    <3>4. \/ count * f = MAX_INTERRUPT_FREQUENCY
          \/ count = 1 /\ f > MAX_INTERRUPT_FREQUENCY
      BY <3>2, <3>3, DividerExact
    <3> HIDE DEF count
    <3> QED  BY <3>1, <3>2, <3>4
  <2> QED  BY <2>3, <2>4, <2>5
<1>2. RtcInit => PowersInv
  BY DEF RtcInit, PowersInv
<1>3. RtcInv /\ PowersInv /\ [RtcNext]_rvars => PowersInv'
  BY PowersInvStep
<1>4. RtcInv /\ PowersInv /\ [RtcNext]_rvars =>
        [\A t \in Terminals : Accepts(t)]_rvars
  BY <1>1
<1> QED
  BY <1>2, <1>3, <1>4, RtcInvariant, PTL DEF RtcSpec, AcceptsPowersOfTwo
=============================================================================
