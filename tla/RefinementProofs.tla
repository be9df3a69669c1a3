--------------------------- MODULE RefinementProofs ---------------------------
(***************************************************************************)
(* Processes, used in the foreground, implements TerminalStacks: whatever  *)
(* the number of terminals and slots, its initial state is one of the      *)
(* abstract system, and each of its steps an abstract step or none.        *)
(***************************************************************************)
EXTENDS ProcessesRefinement, ProcessesProofs, SequenceTheorems

-----------------------------------------------------------------------------
(* The chain of parents                                                     *)

\* A set of natural numbers that is not empty has a least element.
LEMMA LeastElement ==
  ASSUME NEW S \in SUBSET Nat, S # {}
  PROVE  \E k \in S : \A j \in S : ~(j < k)
  <1>1. PICK k \in S : \A j \in S : <<j, k>> \notin OpToRel(<, Nat)
    BY NatLessThanWellFounded, WFMin
  <1>2. \A j \in S : ~(j < k)
    BY <1>1 DEF OpToRel
  <1> QED
    BY <1>2

\* What cur_pcb_ptr and parent_pcb hold.
Nodes == Slots \cup {NULL}

\* The parents of c under par, up to the m-th.
Parent(par, p) == IF p = NULL THEN NULL ELSE par[p]
IsUp(up, c, par, m) ==
  up = [n \in 0 .. m |-> IF n = 0 THEN c ELSE Parent(par, up[n - 1])]

\* The recursive function of Chain exists, by the least length for which it
\* would not.
LEMMA UpExists ==
  ASSUME NEW c, NEW par, NEW m \in Nat
  PROVE  \E up : IsUp(up, c, par, m)
  <1> DEFINE Bad == {k \in Nat : ~\E g : IsUp(g, c, par, k)}
             next(p) == Parent(par, p)
  <1> SUFFICES ASSUME Bad # {} PROVE FALSE
    OBVIOUS
  <1>1. PICK k \in Bad : \A j \in Bad : ~(j < k)
    BY LeastElement
  <1>2. k \in Nat /\ ~\E g : IsUp(g, c, par, k)
    BY <1>1
  <1>3. k # 0
    <2> DEFINE g == [j \in 0 .. 0 |-> c]
    <2>1. g = [j \in 0 .. 0 |-> IF j = 0 THEN c ELSE next(g[j - 1])]
      BY DEF g
    <2> QED
      BY <1>2, <2>1 DEF IsUp
  <1>4. k - 1 \in Nat /\ k - 1 \notin Bad
    BY <1>1, <1>2, <1>3
  <1>5. PICK g : IsUp(g, c, par, k - 1)
    BY <1>4
  <1> DEFINE h == [j \in 0 .. k |-> IF j = k THEN next(g[k - 1]) ELSE g[j]]
  <1>6. \A i \in 0 .. k - 1 : g[i] = IF i = 0 THEN c ELSE next(g[i - 1])
    BY <1>5, <1>2, <1>3 DEF IsUp
  <1> HIDE DEF next
  <1>7. \A j \in 0 .. k : h[j] = IF j = 0 THEN c ELSE next(h[j - 1])
    <2> TAKE j \in 0 .. k
    <2>2. CASE j = k
      <3>1. h[k] = next(g[k - 1]) /\ h[k - 1] = g[k - 1]
        BY <1>2, <1>3
      <3> QED
        BY <3>1, <2>2, <1>3
    <2>3. CASE j = 0
      BY <1>6, <2>3, <1>2, <1>3
    <2>4. CASE j # 0 /\ j # k
      <3>1. j \in 0 .. k - 1 /\ j - 1 \in 0 .. k /\ j - 1 # k
        BY <2>4, <1>2
      <3>2. h[j] = g[j] /\ h[j - 1] = g[j - 1]
        BY <3>1, <2>4
      <3> QED
        BY <1>6, <2>4, <3>1, <3>2
    <2> QED
      BY <2>2, <2>3, <2>4
  <1>8. h = [j \in 0 .. k |-> IF j = 0 THEN c ELSE next(h[j - 1])]
    <2>1. h = [j \in 0 .. k |-> h[j]]
      OBVIOUS
    <2> HIDE DEF h
    <2> QED
      BY <2>1, <1>7
  <1> HIDE DEF h
  <1>9. IsUp(h, c, par, k)
    BY <1>8 DEF IsUp, next
  <1> QED
    BY <1>2, <1>9

\* The chain of c, as Chain computes it.
Up(c, par) == CHOOSE up : IsUp(up, c, par, MAX_NUM_PROCESSES)

\* The members of a chain are slots, each the parent of the one before.
LEMMA UpIs ==
  ASSUME NEW par \in [Slots -> Nodes], NEW c \in Nodes
  PROVE  /\ Up(c, par) \in [0 .. MAX_NUM_PROCESSES -> Nodes]
         /\ Up(c, par)[0] = c
         /\ \A n \in 1 .. MAX_NUM_PROCESSES :
              Up(c, par)[n] = Parent(par, Up(c, par)[n - 1])
  <1> DEFINE M == MAX_NUM_PROCESSES
             up == Up(c, par)
             Bad == {k \in Nat : k <= M /\ up[k] \notin Nodes}
  <1>0. M \in Nat /\ M >= 1
    BY SizesAssumption
  <1>1. IsUp(up, c, par, M)
    BY <1>0, UpExists DEF Up
  <1> HIDE DEF up
  <1>2. up = [n \in 0 .. M |-> up[n]]
    BY <1>1 DEF IsUp
  <1>3. \A n \in 0 .. M : up[n] = IF n = 0 THEN c ELSE Parent(par, up[n - 1])
    BY <1>1 DEF IsUp
  <1>4. up[0] = c /\ \A n \in 1 .. M : up[n] = Parent(par, up[n - 1])
    BY <1>0, <1>3
  <1>5. Bad = {}
    <2> SUFFICES ASSUME Bad # {} PROVE FALSE
      OBVIOUS
    <2>1. PICK k \in Bad : \A j \in Bad : ~(j < k)
      BY LeastElement
    <2>2. k \in Nat /\ k <= M /\ up[k] \notin Nodes
      BY <2>1
    <2>3. k # 0
      BY <1>4, <2>2
    <2>4. k - 1 \in Nat /\ up[k - 1] \in Nodes /\ k \in 1 .. M
      BY <1>0, <2>1, <2>2, <2>3
    <2>5. up[k] = Parent(par, up[k - 1])
      BY <1>4, <2>4
    <2> QED
      BY <2>2, <2>4, <2>5 DEF Parent, Nodes
  <1>6. up \in [0 .. M -> Nodes]
    BY <1>0, <1>2, <1>5
  <1> QED
    BY <1>4, <1>6 DEF up

\* The chain of a terminal consists of active processes.
LEMMA UpActive ==
  ASSUME NEW act, act \subseteq Slots,
         NEW cur \in [Terminals -> Nodes], NEW par \in [Slots -> Nodes],
         Table(act, cur, par), NEW t \in Terminals,
         NEW n \in 0 .. MAX_NUM_PROCESSES, Up(cur[t], par)[n] # NULL
  PROVE  Up(cur[t], par)[n] \in act
  <1> DEFINE M == MAX_NUM_PROCESSES
             up == Up(cur[t], par)
             Bad == {k \in Nat : k <= M /\ up[k] # NULL /\ up[k] \notin act}
  <1>0. M \in Nat
    BY SizesAssumption
  <1>1. up[0] = cur[t] /\ \A k \in 1 .. M : up[k] = Parent(par, up[k - 1])
    BY UpIs
  <1> HIDE DEF up
  <1> SUFFICES ASSUME Bad # {} PROVE FALSE
    BY <1>0 DEF up
  <1>2. PICK k \in Bad : \A j \in Bad : ~(j < k)
    BY LeastElement
  <1>3. k \in Nat /\ k <= M /\ up[k] # NULL /\ up[k] \notin act
    BY <1>2
  <1>4. k # 0
    BY <1>1, <1>3 DEF Table
  <1>5. k \in 1 .. M /\ k - 1 \in Nat
    BY <1>0, <1>3, <1>4
  <1>6. up[k] = Parent(par, up[k - 1])
    BY <1>1, <1>5
  <1>7. up[k - 1] # NULL
    BY <1>3, <1>6 DEF Parent
  <1>8. up[k - 1] \in act
    <2> SUFFICES ASSUME up[k - 1] \notin act PROVE FALSE
      OBVIOUS
    <2>1. k - 1 <= M /\ k - 1 < k
      BY <1>0, <1>3
    <2>2. k - 1 \in Bad
      BY <1>5, <1>7, <2>1
    <2> QED
      BY <1>2, <2>1, <2>2
  <1>9. up[k] = par[up[k - 1]]
    BY <1>6, <1>7 DEF Parent
  <1> HIDE DEF Bad
  <1> QED
    BY <1>3, <1>8, <1>9 DEF Table

\* No process occurs twice: the first that did would have two children, or be
\* current and a parent.
LEMMA UpDistinct ==
  ASSUME NEW act, act \subseteq Slots,
         NEW cur \in [Terminals -> Nodes], NEW par \in [Slots -> Nodes],
         Table(act, cur, par), NEW t \in Terminals,
         NEW i \in 0 .. MAX_NUM_PROCESSES, NEW j \in 0 .. MAX_NUM_PROCESSES, i < j,
         Up(cur[t], par)[i] = Up(cur[t], par)[j]
  PROVE  Up(cur[t], par)[i] = NULL
  <1> DEFINE M == MAX_NUM_PROCESSES
             up == Up(cur[t], par)
             Twice(k) == \E l \in 0 .. M : k < l /\ up[k] = up[l] /\ up[k] # NULL
             Bad == {k \in Nat : k <= M /\ Twice(k)}
  <1>0. M \in Nat
    BY SizesAssumption
  <1>1. up[0] = cur[t] /\ \A k \in 1 .. M : up[k] = Parent(par, up[k - 1])
    BY UpIs
  <1>2. \A k \in 0 .. M : up[k] # NULL => up[k] \in act
    BY UpActive
  <1> SUFFICES ASSUME up[i] # NULL PROVE FALSE
    OBVIOUS
  <1> HIDE DEF up
  <1>3. i \in Nat /\ i <= M /\ Twice(i)
    BY <1>0 DEF up
  <1> HIDE DEF Twice
  <1>4. i \in Bad
    BY <1>3
  <1>5. PICK k \in Bad : \A l \in Bad : ~(l < k)
    BY <1>4, LeastElement
  <1>6. k \in Nat /\ k <= M /\ Twice(k)
    BY <1>5
  <1>7. PICK l \in 0 .. M : k < l /\ up[k] = up[l] /\ up[k] # NULL
    BY <1>6 DEF Twice
  <1>8. l \in 1 .. M /\ l - 1 \in 0 .. M
    BY <1>0, <1>6, <1>7
  <1>9. up[l] = Parent(par, up[l - 1])
    BY <1>1, <1>8
  <1>10. up[l - 1] # NULL /\ up[l] = par[up[l - 1]]
    BY <1>7, <1>9 DEF Parent
  <1>11. up[l - 1] \in act
    BY <1>2, <1>8, <1>10
  <1>12. k # 0
    BY <1>1, <1>7, <1>10, <1>11 DEF Table
  <1>13. k \in 1 .. M /\ k - 1 \in 0 .. M /\ k - 1 \in Nat /\ k - 1 <= M /\ k - 1 < k
           /\ k - 1 < l - 1
    BY <1>0, <1>6, <1>7, <1>8, <1>12
  <1>14. up[k] = Parent(par, up[k - 1])
    BY <1>1, <1>13
  <1>15. up[k - 1] # NULL /\ up[k] = par[up[k - 1]]
    BY <1>7, <1>14 DEF Parent
  <1>16. up[k - 1] \in act
    BY <1>2, <1>13, <1>15
  <1> DEFINE p == up[k - 1]
             q == up[l - 1]
  <1>17. p \in act /\ q \in act /\ par[p] = par[q] /\ par[p] # NULL
    BY <1>7, <1>10, <1>11, <1>15, <1>16
  <1> HIDE DEF p, q
  <1>18. p = q
    BY <1>17 DEF Table
  <1>19. Twice(k - 1)
    BY <1>8, <1>13, <1>15, <1>18 DEF Twice, p, q
  <1>20. k - 1 \in Bad
    BY <1>13, <1>19
  <1> HIDE DEF Bad
  <1> QED
    BY <1>5, <1>13, <1>20

\* How many processes a chain has.
IsHeight(up, d) ==
  d \in 0 .. MAX_NUM_PROCESSES
    /\ \A n \in 0 .. MAX_NUM_PROCESSES : up[n] # NULL <=> n < d

\* The chain of a terminal ends: there are not enough slots for one that does
\* not.
LEMMA UpEnds ==
  ASSUME NEW act, act \subseteq Slots,
         NEW cur \in [Terminals -> Nodes], NEW par \in [Slots -> Nodes],
         Table(act, cur, par), NEW t \in Terminals
  PROVE  \E d : IsHeight(Up(cur[t], par), d)
  <1> DEFINE M == MAX_NUM_PROCESSES
             up == Up(cur[t], par)
             Ends == {k \in Nat : k <= M /\ up[k] = NULL}
  <1>0. M \in Nat /\ M >= 1
    BY SizesAssumption
  <1>1. up \in [0 .. M -> Nodes] /\ \A k \in 1 .. M : up[k] = Parent(par, up[k - 1])
    BY UpIs
  <1>2. \A i, j \in 0 .. M : i < j /\ up[i] = up[j] => up[i] = NULL
    BY UpDistinct
  <1> HIDE DEF up
  <1>3. Ends # {}
    <2> SUFFICES ASSUME Ends = {} PROVE FALSE
      OBVIOUS
    <2>1. \A k \in 0 .. M : up[k] # NULL
      BY <1>0
    <2>2. up \in [0 .. M -> Slots]
      BY <1>1, <2>1 DEF Nodes
    <2>3. \A i, j \in 0 .. M : up[i] = up[j] => i = j
      <3> TAKE i, j \in 0 .. M
      <3> SUFFICES ASSUME up[i] = up[j], i # j PROVE FALSE
        OBVIOUS
      <3>1. i < j \/ j < i
        BY <1>0
      <3> QED
        BY <1>2, <2>1, <3>1
    <2>4. up \in Injection(0 .. M, Slots)
      BY <2>2, <2>3, Fun_IsInj
    <2>5. IsFiniteSet(Slots) /\ Cardinality(Slots) = M
      <3>1. M - 1 \in Int /\ ~(0 > M - 1) /\ (M - 1) - 0 + 1 = M
        BY <1>0
      <3> QED
        BY <3>1, FS_Interval DEF Slots
    <2>6. Cardinality(0 .. M) = M + 1
      <3>1. M \in Int /\ ~(0 > M) /\ M - 0 + 1 = M + 1
        BY <1>0
      <3> QED
        BY <3>1, FS_Interval
    <2>7. Cardinality(0 .. M) <= Cardinality(Slots)
      BY <2>4, <2>5, FS_Injection
    <2> QED
      BY <1>0, <2>5, <2>6, <2>7
  <1>4. PICK d \in Ends : \A j \in Ends : ~(j < d)
    BY <1>3, LeastElement
  <1>5. d \in 0 .. M /\ up[d] = NULL /\ \A n \in 0 .. M : n < d => up[n] # NULL
    BY <1>0, <1>4
  <1> DEFINE Bad == {k \in Nat : k <= M /\ d <= k /\ up[k] # NULL}
  <1>6. Bad = {}
    <2> SUFFICES ASSUME Bad # {} PROVE FALSE
      OBVIOUS
    <2>1. PICK k \in Bad : \A j \in Bad : ~(j < k)
      BY LeastElement
    <2>2. k \in Nat /\ k <= M /\ d <= k /\ up[k] # NULL /\ k # d
      BY <1>5, <2>1
    <2>3. k \in 1 .. M /\ k - 1 \in Nat /\ d <= k - 1 /\ k - 1 <= M /\ k - 1 < k
      BY <1>0, <1>5, <2>2
    <2>4. up[k - 1] = NULL
      BY <2>1, <2>3
    <2>5. up[k] = Parent(par, up[k - 1])
      BY <1>1, <2>3
    <2> QED
      BY <2>2, <2>4, <2>5 DEF Parent
  <1>7. \A n \in 0 .. M : up[n] # NULL <=> n < d
    BY <1>0, <1>5, <1>6
  <1> QED
    BY <1>5, <1>7 DEF IsHeight, up

-----------------------------------------------------------------------------
(* The stack of a chain                                                     *)

\* The height, as StackOf computes it.
Height(up) == Cardinality({n \in DOMAIN up : up[n] # NULL})

\* The programs of the chain of c, c's own last.
ProgramsOf(c, par, img) ==
  LET up == Up(c, par)
      d  == Height(up)
  IN  [i \in 1 .. d |-> img[up[d - i]]]

\* The two agree.
LEMMA HeightIs ==
  ASSUME NEW up \in [0 .. MAX_NUM_PROCESSES -> Nodes], NEW d, IsHeight(up, d)
  PROVE  Height(up) = d
  <1>0. MAX_NUM_PROCESSES \in Nat /\ d \in Nat
    BY SizesAssumption DEF IsHeight
  <1>1. {n \in DOMAIN up : up[n] # NULL} = 0 .. d - 1
    BY <1>0 DEF IsHeight
  <1>2. d - 1 \in Int /\ (0 > d - 1 => d = 0) /\ (d - 1) - 0 + 1 = d
    BY <1>0
  <1>3. Cardinality(0 .. d - 1) = IF 0 > d - 1 THEN 0 ELSE (d - 1) - 0 + 1
    BY <1>2, FS_Interval
  <1>4. Cardinality(0 .. d - 1) = d
    BY <1>0, <1>2, <1>3
  <1> QED
    BY <1>1, <1>4 DEF Height

\* The chain of c consists of members of act, on which two tables agree.
Within(c, par, act) ==
  \A n \in 0 .. MAX_NUM_PROCESSES : Up(c, par)[n] # NULL => Up(c, par)[n] \in act
Agree(act, par, img, par2, img2) ==
  \A p \in act : par2[p] = par[p] /\ img2[p] = img[p]

\* Chains that agree have the same stack.
LEMMA StackSame ==
  ASSUME NEW c \in Nodes, NEW par \in [Slots -> Nodes], NEW par2 \in [Slots -> Nodes],
         NEW img, NEW img2, NEW act, NEW d, IsHeight(Up(c, par), d),
         Within(c, par, act), Agree(act, par, img, par2, img2)
  PROVE  ProgramsOf(c, par2, img2) = ProgramsOf(c, par, img)
  <1> DEFINE M == MAX_NUM_PROCESSES
             up == Up(c, par)
             up2 == Up(c, par2)
             Bad == {k \in Nat : k <= M /\ up2[k] # up[k]}
  <1>0. M \in Nat /\ M >= 1
    BY SizesAssumption
  <1>1. /\ up \in [0 .. M -> Nodes] /\ up[0] = c
        /\ \A n \in 1 .. M : up[n] = Parent(par, up[n - 1])
    BY UpIs
  <1>2. /\ up2 \in [0 .. M -> Nodes] /\ up2[0] = c
        /\ \A n \in 1 .. M : up2[n] = Parent(par2, up2[n - 1])
    BY UpIs
  <1>3. /\ \A n \in 0 .. M : up[n] # NULL => up[n] \in act
        /\ \A p \in act : par2[p] = par[p] /\ img2[p] = img[p]
    BY DEF Within, Agree
  <1>4. IsHeight(up, d)
    OBVIOUS
  <1> HIDE DEF up, up2
  <1>5. Bad = {}
    <2> SUFFICES ASSUME Bad # {} PROVE FALSE
      OBVIOUS
    <2>1. PICK k \in Bad : \A j \in Bad : ~(j < k)
      BY LeastElement
    <2>2. k \in Nat /\ k <= M /\ up2[k] # up[k] /\ k # 0
      BY <1>1, <1>2, <2>1
    <2>3. k \in 1 .. M /\ k - 1 \in 0 .. M /\ k - 1 \in Nat /\ k - 1 < k
      BY <1>0, <2>2
    <2>4. up2[k - 1] = up[k - 1]
      BY <1>0, <2>1, <2>3
    <2>5. up[k] = Parent(par, up[k - 1]) /\ up2[k] = Parent(par2, up2[k - 1])
      BY <1>1, <1>2, <2>3
    <2>6. up[k - 1] # NULL => up[k - 1] \in act
      BY <1>3, <2>3
    <2>7. up[k - 1] # NULL => par2[up[k - 1]] = par[up[k - 1]]
      BY <1>3, <2>6
    <2>8. up2[k] = up[k]
      <3> DEFINE p == up[k - 1]
      <3>1. up[k] = Parent(par, p) /\ up2[k] = Parent(par2, p)
        BY <2>4, <2>5, Zenon
      <3>2. p # NULL => par2[p] = par[p]
        BY <2>7
      <3> HIDE DEF p
      <3>3. Parent(par2, p) = Parent(par, p)
        BY <3>2 DEF Parent
      <3> QED
        BY <3>1, <3>3, Zenon
    <2> QED
      BY <2>2, <2>8
  <1>6. up2 = up
    <2>1. \A k \in 0 .. M : up2[k] = up[k]
      BY <1>0, <1>5
    <2>2. up \in [0 .. M -> Nodes] /\ up2 \in [0 .. M -> Nodes]
      BY <1>1, <1>2
    <2>3. up = [k \in 0 .. M |-> up[k]] /\ up2 = [k \in 0 .. M |-> up2[k]]
      BY <2>2
    <2> QED
      BY <2>1, <2>3, Zenon
  <1>7. d \in Nat /\ Height(up) = d
    <2>1. Height(up) = d
      BY <1>1, <1>4, HeightIs
    <2> QED
      BY <1>0, <1>4, <2>1 DEF IsHeight
  <1>8. ASSUME NEW i \in 1 .. d PROVE img2[up[d - i]] = img[up[d - i]]
    <2>1. d - i \in 0 .. M /\ d - i < d
      BY <1>0, <1>4, <1>7 DEF IsHeight
    <2>2. up[d - i] # NULL
      BY <1>4, <2>1 DEF IsHeight
    <2> QED
      BY <1>3, <2>1, <2>2
  <1>9. [i \in 1 .. d |-> img2[up[d - i]]] = [i \in 1 .. d |-> img[up[d - i]]]
    BY <1>8
  <1>10. /\ ProgramsOf(c, par, img) = [i \in 1 .. d |-> img[up[d - i]]]
         /\ ProgramsOf(c, par2, img2) = [i \in 1 .. d |-> img2[up[d - i]]]
    BY <1>6, <1>7 DEF ProgramsOf, up, up2
  <1> QED
    BY <1>9, <1>10

\* A chain of height d gives a sequence of d programs.
LEMMA StackIsSequence ==
  ASSUME NEW c \in Nodes, NEW par \in [Slots -> Nodes],
         NEW P, NEW img \in [Slots -> P], NEW d, IsHeight(Up(c, par), d)
  PROVE  /\ ProgramsOf(c, par, img) = [i \in 1 .. d |-> img[Up(c, par)[d - i]]]
         /\ ProgramsOf(c, par, img) \in Seq(P)
         /\ Len(ProgramsOf(c, par, img)) = d
  <1> DEFINE M == MAX_NUM_PROCESSES
             up == Up(c, par)
             s == [i \in 1 .. d |-> img[up[d - i]]]
  <1>1. M \in Nat /\ up \in [0 .. M -> Nodes] /\ IsHeight(up, d)
    BY UpIs, SizesAssumption
  <1> HIDE DEF up
  <1>2. d \in 0 .. M /\ d \in Nat /\ Height(up) = d
    <2>1. Height(up) = d
      BY <1>1, HeightIs
    <2> QED
      BY <1>1, <2>1 DEF IsHeight
  <1>3. ASSUME NEW i \in 1 .. d PROVE img[up[d - i]] \in P
    <2>1. d - i \in 0 .. M /\ d - i < d
      BY <1>1, <1>2
    <2>2. up[d - i] # NULL
      BY <1>1, <2>1 DEF IsHeight
    <2>3. up[d - i] \in Slots
      BY <1>1, <2>1, <2>2 DEF Nodes
    <2> QED
      BY <2>3
  <1>4. s \in [1 .. d -> P]
    BY <1>3
  <1>5. ProgramsOf(c, par, img) = s
    BY <1>2 DEF ProgramsOf, up
  <1>6. s = [i \in 1 .. d |-> img[Up(c, par)[d - i]]]
    BY DEF up
  <1> HIDE DEF s
  <1>7. s \in Seq(P) /\ Len(s) = d
    BY <1>2, <1>4
  <1> QED
    BY <1>5, <1>6, <1>7

\* c2 is a process whose parent is c, and the chain of c, of height d and within
\* act, is the same in the table (par, img) and in (par2, img2).
IsChild(c2, par2, img2, d2, c, par, img, d, act, P) ==
  /\ c \in Nodes /\ c2 \in Slots /\ par2[c2] = c
  /\ par \in [Slots -> Nodes] /\ par2 \in [Slots -> Nodes]
  /\ img \in [Slots -> P] /\ img2 \in [Slots -> P]
  /\ IsHeight(Up(c, par), d) /\ IsHeight(Up(c2, par2), d2)
  /\ Within(c, par, act) /\ Agree(act, par, img, par2, img2)

\* The stack of a process is that of its parent with its own program on top.
LEMMA StackGrows ==
  ASSUME NEW c, NEW par, NEW img, NEW d, NEW c2, NEW par2, NEW img2, NEW d2,
         NEW act, NEW P, IsChild(c2, par2, img2, d2, c, par, img, d, act, P)
  PROVE  ProgramsOf(c2, par2, img2) = Append(ProgramsOf(c, par, img), img2[c2])
  <1> USE DEF IsChild
  <1> DEFINE M == MAX_NUM_PROCESSES
             up == Up(c, par)
             up2 == Up(c2, par2)
             Bad == {k \in Nat : k < M /\ up2[k + 1] # up[k]}
  <1>0. M \in Nat /\ M >= 1 /\ c2 # NULL /\ c2 \in Nodes
    BY SizesAssumption, SentinelsAssumption DEF Nodes
  <1>1. /\ up \in [0 .. M -> Nodes] /\ up[0] = c
        /\ \A n \in 1 .. M : up[n] = Parent(par, up[n - 1])
    BY UpIs
  <1>2. /\ up2 \in [0 .. M -> Nodes] /\ up2[0] = c2
        /\ \A n \in 1 .. M : up2[n] = Parent(par2, up2[n - 1])
    BY <1>0, UpIs
  <1>3. /\ \A n \in 0 .. M : up[n] # NULL => up[n] \in act
        /\ \A p \in act : par2[p] = par[p] /\ img2[p] = img[p]
    BY DEF Within, Agree
  <1>4. IsHeight(up, d) /\ IsHeight(up2, d2)
    OBVIOUS
  <1> HIDE DEF up, up2
  <1>5. Bad = {}
    <2> SUFFICES ASSUME Bad # {} PROVE FALSE
      OBVIOUS
    <2>1. PICK k \in Bad : \A j \in Bad : ~(j < k)
      BY LeastElement
    <2>2. k \in Nat /\ k < M /\ up2[k + 1] # up[k]
      BY <2>1
    <2>3. k + 1 \in 1 .. M /\ (k + 1) - 1 = k
      BY <1>0, <2>2
    <2>4. up2[k + 1] = Parent(par2, up2[k])
      BY <1>2, <2>3
    <2>5. k # 0
      <3>1. up2[0 + 1] = Parent(par2, c2) => up2[0 + 1] = c
        BY <1>0 DEF Parent
      <3> QED
        BY <1>1, <1>2, <2>2, <2>4, <3>1
    <2>6. k \in 1 .. M /\ k - 1 \in 0 .. M /\ k - 1 \in Nat /\ k - 1 < k /\ k - 1 < M
            /\ (k - 1) + 1 = k
      BY <1>0, <2>2, <2>5
    <2>7. up2[k] = up[k - 1]
      BY <2>1, <2>6
    <2>8. up[k] = Parent(par, up[k - 1])
      BY <1>1, <2>6
    <2>9. up[k - 1] # NULL => up[k - 1] \in act
      BY <1>3, <2>6
    <2> QED
      BY <1>3, <2>2, <2>4, <2>7, <2>8, <2>9 DEF Parent
  <1>6. \A k \in 0 .. M - 1 : up2[k + 1] = up[k]
    BY <1>0, <1>5
  <1>7. d \in 0 .. M /\ d2 \in 0 .. M /\ Height(up) = d /\ Height(up2) = d2
    BY <1>1, <1>2, <1>4, HeightIs DEF IsHeight
  <1>8. d2 = d + 1
    <2>1. 0 < d2
      BY <1>0, <1>2, <1>4 DEF IsHeight
    <2>2. \A k \in 0 .. M - 1 : k < d <=> k + 1 < d2
      <3> TAKE k \in 0 .. M - 1
      <3>1. k \in 0 .. M /\ k + 1 \in 0 .. M
        BY <1>0
      <3> QED
        BY <1>4, <1>6, <3>1 DEF IsHeight
    <2>3. ASSUME d + 1 < d2 PROVE FALSE
      <3>1. d \in 0 .. M - 1
        BY <1>0, <1>7, <2>3
      <3> QED
        BY <1>7, <2>2, <2>3, <3>1
    <2>4. ASSUME d2 < d + 1 PROVE FALSE
      <3>1. d2 - 1 \in 0 .. M - 1 /\ d2 - 1 < d /\ (d2 - 1) + 1 = d2
        BY <1>0, <1>7, <2>1, <2>4
      <3> QED
        BY <1>7, <2>2, <3>1
    <2> QED
      BY <1>0, <1>7, <2>3, <2>4
  <1> DEFINE s == [i \in 1 .. d |-> img[up[d - i]]]
             s2 == [i \in 1 .. d2 |-> img2[up2[d2 - i]]]
  <1>9. s = ProgramsOf(c, par, img) /\ s2 = ProgramsOf(c2, par2, img2)
    BY <1>7 DEF ProgramsOf, up, up2
  <1>10. s \in Seq(P) /\ Len(s) = d
    <2>1. ProgramsOf(c, par, img) \in Seq(P) /\ Len(ProgramsOf(c, par, img)) = d
      BY StackIsSequence
    <2> HIDE DEF s
    <2> QED
      BY <1>9, <2>1
  <1>11. ASSUME NEW i \in 1 .. d PROVE s2[i] = s[i]
    <2>1. d - i \in 0 .. M - 1 /\ d - i \in 0 .. M /\ d - i < d /\ d2 - i = (d - i) + 1
            /\ i \in 1 .. d2
      BY <1>0, <1>7, <1>8
    <2>2. up[d - i] # NULL /\ up2[d2 - i] = up[d - i]
      BY <1>4, <1>6, <2>1 DEF IsHeight
    <2> QED
      BY <1>3, <2>1, <2>2
  <1>12. s2[d2] = img2[c2]
    <2>1. d2 \in 1 .. d2 /\ d2 - d2 = 0
      BY <1>7, <1>8
    <2> QED
      BY <1>2, <2>1
  <1>13. s2 = [i \in 1 .. d + 1 |-> s2[i]]
    BY <1>8
  <1> HIDE DEF s, s2
  <1>14. Append(s, img2[c2]) = [i \in 1 .. d + 1 |-> IF i = d + 1 THEN img2[c2] ELSE s[i]]
    BY <1>7, <1>10
  <1>15. \A i \in 1 .. d + 1 : s2[i] = IF i = d + 1 THEN img2[c2] ELSE s[i]
    BY <1>7, <1>8, <1>11, <1>12
  <1>16. s2 = Append(s, img2[c2])
    BY <1>13, <1>14, <1>15
  <1> QED
    BY <1>9, <1>16

\* The chain of no process is empty.
LEMMA StackOfNull ==
  ASSUME NEW par \in [Slots -> Nodes], NEW P, NEW img \in [Slots -> P]
  PROVE  ProgramsOf(NULL, par, img) = <<>>
  <1> DEFINE M == MAX_NUM_PROCESSES
             up == Up(NULL, par)
             Bad == {k \in Nat : k <= M /\ up[k] # NULL}
  <1>0. M \in Nat /\ NULL \in Nodes
    BY SizesAssumption DEF Nodes
  <1>1. up \in [0 .. M -> Nodes] /\ up[0] = NULL
          /\ \A n \in 1 .. M : up[n] = Parent(par, up[n - 1])
    BY <1>0, UpIs
  <1> HIDE DEF up
  <1>2. Bad = {}
    <2> SUFFICES ASSUME Bad # {} PROVE FALSE
      OBVIOUS
    <2>1. PICK k \in Bad : \A j \in Bad : ~(j < k)
      BY LeastElement
    <2>2. k \in Nat /\ k <= M /\ up[k] # NULL /\ k # 0
      BY <1>1, <2>1
    <2>3. k \in 1 .. M /\ k - 1 \in Nat /\ k - 1 <= M /\ k - 1 < k
      BY <1>0, <2>2
    <2>4. up[k - 1] = NULL
      BY <2>1, <2>3
    <2>5. up[k] = Parent(par, up[k - 1])
      BY <1>1, <2>3
    <2> QED
      BY <2>2, <2>4, <2>5 DEF Parent
  <1>3. \A n \in 0 .. M : up[n] = NULL
    BY <1>0, <1>2
  <1>4. IsHeight(up, 0)
    BY <1>0, <1>3 DEF IsHeight
  <1>5. IsHeight(Up(NULL, par), 0)
    BY <1>4 DEF up
  <1>6. ProgramsOf(NULL, par, img) \in Seq(P) /\ Len(ProgramsOf(NULL, par, img)) = 0
    BY <1>0, <1>5, StackIsSequence
  <1> QED
    BY <1>6, EmptySeq

\* The stacks of programs that a process table stands for.
StacksIn(cur, par, img) == [t \in Terminals |-> ProgramsOf(cur[t], par, img)]

\* A consistent table of processes, with what is loaded in their slots.
Loaded(act, cur, par, img, P) ==
  /\ act \subseteq Slots
  /\ cur \in [Terminals -> Nodes] /\ par \in [Slots -> Nodes]
  /\ img \in [Slots -> P]
  /\ Table(act, cur, par)

\* prog is started on terminal t in the slot n, which is free.
IsPush(act, cur, par, img, P, t, n, prog, cur2, par2, img2) ==
  /\ Loaded(act, cur, par, img, P)
  /\ n \in Slots /\ n \notin act /\ t \in Terminals /\ prog \in P
  /\ cur2 = [cur EXCEPT ![t] = n]
  /\ par2 = [par EXCEPT ![n] = cur[t]]
  /\ img2 = [img EXCEPT ![n] = prog]

\* Starting prog in a free slot pushes it on the stack of its terminal and
\* leaves the other stacks alone.
LEMMA StackPush ==
  ASSUME NEW act, NEW cur, NEW par, NEW img, NEW P, NEW t, NEW n, NEW prog,
         NEW cur2, NEW par2, NEW img2,
         IsPush(act, cur, par, img, P, t, n, prog, cur2, par2, img2)
  PROVE  StacksIn(cur2, par2, img2)
           = [StacksIn(cur, par, img) EXCEPT ![t] = Append(@, prog)]
  <1> DEFINE M == MAX_NUM_PROCESSES
  <1>1. /\ act \subseteq Slots /\ cur \in [Terminals -> Nodes]
        /\ par \in [Slots -> Nodes] /\ img \in [Slots -> P] /\ Table(act, cur, par)
        /\ n \in Slots /\ n \notin act /\ t \in Terminals /\ prog \in P
        /\ cur2 \in [Terminals -> Nodes] /\ par2 \in [Slots -> Nodes]
        /\ img2 \in [Slots -> P]
    BY DEF IsPush, Loaded, Nodes
  <1>2. cur2[t] = n /\ \A u \in Terminals : u # t => cur2[u] = cur[u]
    BY <1>1 DEF IsPush
  <1>3. par2[n] = cur[t] /\ img2[n] = prog /\ Agree(act, par, img, par2, img2)
    BY <1>1 DEF IsPush, Agree
  <1>4. Table(act \cup {n}, cur2, par2)
    BY <1>1, TablePush DEF IsPush, Nodes
  <1>5. act \cup {n} \subseteq Slots /\ Table(act \cup {n}, cur2, par2)
    BY <1>1, <1>4
  <1>6. ASSUME NEW u \in Terminals
        PROVE  /\ Within(cur[u], par, act)
               /\ \E d : IsHeight(Up(cur[u], par), d)
               /\ \E d : IsHeight(Up(cur2[u], par2), d)
               /\ cur[u] \in Nodes
    <2>1. \E d : IsHeight(Up(cur2[u], par2), d)
      BY <1>1, <1>5, UpEnds
    <2>2. \E d : IsHeight(Up(cur[u], par), d)
      BY <1>1, UpEnds
    <2>3. Within(cur[u], par, act)
      BY <1>1, UpActive DEF Within
    <2>4. cur[u] \in Nodes
      BY <1>1
    <2> QED
      BY <2>1, <2>2, <2>3, <2>4
  <1>7. ASSUME NEW u \in Terminals, u # t
        PROVE  ProgramsOf(cur2[u], par2, img2) = ProgramsOf(cur[u], par, img)
    <2>1. PICK d : IsHeight(Up(cur[u], par), d)
      BY <1>6
    <2> DEFINE c == cur[u]
    <2>a. c \in Nodes /\ IsHeight(Up(c, par), d)
            /\ Within(c, par, act)
      BY <1>6, <2>1
    <2> HIDE DEF c
    <2>2. ProgramsOf(c, par2, img2) = ProgramsOf(c, par, img)
      BY <1>1, <1>3, <2>a, StackSame
    <2> QED
      BY <1>2, <1>7, <2>2 DEF c
  <1>8. PICK d : IsHeight(Up(cur[t], par), d)
    BY <1>1, UpEnds
  <1>9. PICK d2 : IsHeight(Up(n, par2), d2)
    <2>1. \E d2 : IsHeight(Up(cur2[t], par2), d2)
      BY <1>1, <1>6
    <2> QED
      BY <1>2, <2>1
  <1>10. ProgramsOf(n, par2, img2) = Append(ProgramsOf(cur[t], par, img), img2[n])
    <2> DEFINE c == cur[t]
    <2>1. c \in Nodes /\ IsHeight(Up(c, par), d) /\ par2[n] = c /\ Within(c, par, act)
      BY <1>1, <1>3, <1>6, <1>8
    <2> HIDE DEF c
    <2>2. IsChild(n, par2, img2, d2, c, par, img, d, act, P)
      BY <1>1, <1>3, <1>9, <2>1 DEF IsChild
    <2>3. ProgramsOf(n, par2, img2) = Append(ProgramsOf(c, par, img), img2[n])
      BY <2>2, StackGrows
    <2> QED
      BY <2>3 DEF c
  <1> QED
    BY <1>1, <1>2, <1>3, <1>7, <1>10 DEF StacksIn

\* The current process of a terminal is on top of the stack that its parent's
\* chain gives.
LEMMA StackPop ==
  ASSUME NEW act, act \subseteq Slots,
         NEW cur \in [Terminals -> Nodes], NEW par \in [Slots -> Nodes],
         NEW P, NEW img \in [Slots -> P],
         Table(act, cur, par), NEW t \in Terminals, cur[t] # NULL
  PROVE  LET s == ProgramsOf(par[cur[t]], par, img)
         IN  /\ ProgramsOf(cur[t], par, img) = Append(s, img[cur[t]])
             /\ s \in Seq(P)
             /\ par[cur[t]] # NULL => Len(s) > 0
  <1> DEFINE M == MAX_NUM_PROCESSES
             c == cur[t]
             cur2 == [cur EXCEPT ![t] = par[c]]
             s == ProgramsOf(par[c], par, img)
  <1>1. c \in Slots /\ c \in act
    BY DEF Nodes, Table
  <1>2. cur2 \in [Terminals -> Nodes] /\ cur2[t] = par[c] /\ par[c] \in Nodes
    BY <1>1
  <1>3. Table(act \ {c}, cur2, par) /\ act \ {c} \subseteq Slots
    BY TablePop DEF Nodes
  <1> HIDE DEF cur2
  <1>4. PICK d : IsHeight(Up(cur2[t], par), d)
    BY <1>2, <1>3, UpEnds
  <1>5. PICK d2 : IsHeight(Up(c, par), d2)
    BY UpEnds
  <1>6. Within(cur2[t], par, act \ {c})
    BY <1>2, <1>3, UpActive DEF Within
  <1>7. /\ IsHeight(Up(par[c], par), d)
        /\ Within(par[c], par, act \ {c})
    BY <1>2, <1>4, <1>6
  <1> DEFINE q == par[c]
             rest == act \ {c}
  <1>8. q \in Nodes /\ par[c] = q /\ IsHeight(Up(q, par), d)
          /\ Within(q, par, rest) /\ Agree(rest, par, img, par, img)
    BY <1>2, <1>7 DEF Agree
  <1> HIDE DEF q, c, rest
  <1>9. ProgramsOf(c, par, img) = Append(ProgramsOf(q, par, img), img[c])
    <2>1. IsChild(c, par, img, d2, q, par, img, d, rest, P)
      BY <1>1, <1>5, <1>8 DEF IsChild
    <2> QED
      BY <2>1, StackGrows
  <1>10. ProgramsOf(q, par, img) \in Seq(P) /\ Len(ProgramsOf(q, par, img)) = d
    BY <1>8, StackIsSequence
  <1>11. q # NULL => d > 0
    <2>1. Up(q, par)[0] = q /\ 0 \in 0 .. M
      BY <1>8, UpIs, SizesAssumption
    <2> QED
      BY <1>8, <2>1 DEF IsHeight
  <1> QED
    BY <1>9, <1>10, <1>11 DEF q, c

-----------------------------------------------------------------------------
(* The refinement                                                           *)

\* The refinement mapping of ProcessesRefinement reads off these stacks, in the
\* old state and in the new.
LEMMA StackOfIs ==
  /\ [t \in Terminals |-> StackOf(t)] = StacksIn(cur_pcb_ptr, parent_pcb, image)
  /\ [t \in Terminals |-> StackOf(t)]'
       = StacksIn(cur_pcb_ptr', parent_pcb', image')
  <1>1. ASSUME NEW t \in Terminals
        PROVE  StackOf(t) = ProgramsOf(cur_pcb_ptr[t], parent_pcb, image)
    BY DEF StackOf, Chain, ProgramsOf, Height, Up, IsUp, Parent
  <1>2. ASSUME NEW t \in Terminals
        PROVE  StackOf(t)' = ProgramsOf(cur_pcb_ptr'[t], parent_pcb', image')
    BY DEF StackOf, Chain, ProgramsOf, Height, Up, IsUp, Parent
  <1> QED
    BY <1>1, <1>2 DEF StacksIn

\* The program in the page mapped at 128 MB.
CpuOf(page, img) == IF page = NULL THEN NULL ELSE img[page]

\* The actions of TerminalStacks under the refinement mapping: when a step of the
\* kernel is none of them, ...
LEMMA MappedStutter ==
  ASSUME UNCHANGED <<cur_pcb_ptr, parent_pcb, image, process_terminal, program_page>>
  PROVE  UNCHANGED Stacks!svars
  BY DEF Stacks!svars, StackOf, Chain

\* ... a Start, ...
LEMMA MappedStart ==
  ASSUME NEW s, s = StacksIn(cur_pcb_ptr, parent_pcb, image),
         NEW s2, s2 = StacksIn(cur_pcb_ptr', parent_pcb', image'),
         NEW prog \in Programs, s[process_terminal] # <<>>,
         s2 = [s EXCEPT ![process_terminal] = Append(@, prog)],
         CpuOf(program_page', image') = prog,
         process_terminal' = process_terminal
  PROVE  Stacks!Start(prog)
  BY StackOfIs DEF Stacks!Start, CpuOf

\* ... an End, ...
LEMMA MappedEnd ==
  ASSUME NEW s, s = StacksIn(cur_pcb_ptr, parent_pcb, image),
         NEW s2, s2 = StacksIn(cur_pcb_ptr', parent_pcb', image'),
         s[process_terminal] # <<>>,
         s2 = [s EXCEPT ![process_terminal] =
                 IF Len(@) = 1 THEN <<Shell>> ELSE SubSeq(@, 1, Len(@) - 1)],
         CpuOf(program_page', image') = s2[process_terminal][Len(s2[process_terminal])],
         process_terminal' = process_terminal
  PROVE  Stacks!End
  BY StackOfIs DEF Stacks!End, Stacks!Top, CpuOf

\* ... or a TakeTurn.
TurnMapped(s, s2, u) ==
  /\ s = StacksIn(cur_pcb_ptr, parent_pcb, image)
  /\ s2 = StacksIn(cur_pcb_ptr', parent_pcb', image')
  /\ process_terminal' = u
  /\ u = IF process_terminal + 1 \in Terminals THEN process_terminal + 1 ELSE 0
  /\ s[u] = <<>> => s2 = [s EXCEPT ![u] = <<Shell>>]
  /\ s[u] # <<>> => s2 = s
  /\ CpuOf(program_page', image') = s2[u][Len(s2[u])]

LEMMA MappedTurn ==
  ASSUME NEW s, NEW s2, NEW u, TurnMapped(s, s2, u)
  PROVE  Stacks!TakeTurn
  BY StackOfIs DEF TurnMapped, Stacks!TakeTurn, Stacks!Top, CpuOf

\* The last element of a sequence, and the sequence without it.
LEMMA AppendFacts ==
  ASSUME NEW P, NEW s \in Seq(P), NEW x \in P
  PROVE  /\ Append(s, x) \in Seq(P) /\ Append(s, x) # <<>>
         /\ Len(Append(s, x)) = Len(s) + 1
         /\ Append(s, x)[Len(s) + 1] = x
         /\ SubSeq(Append(s, x), 1, Len(s)) = s
  <1> DEFINE a == Append(s, x)
  <1>1. Len(s) \in Nat /\ \A i \in 1 .. Len(s) : s[i] \in P
    BY LenProperties
  <1>2. a \in Seq(P) /\ Len(a) = Len(s) + 1 /\ a[Len(s) + 1] = x
          /\ \A i \in 1 .. Len(s) : a[i] = s[i]
    BY <1>1
  <1>3. a # <<>>
    BY <1>1, <1>2, EmptySeq
  <1> HIDE DEF a
  <1> DEFINE r == SubSeq(a, 1, Len(s))
  <1>4. r \in Seq(P) /\ Len(r) = Len(s) /\ \A i \in 1 .. Len(s) : r[i] = s[i]
    <2>1. \A i \in 1 .. Len(s) : a[i] \in P
      BY <1>1, <1>2
    <2>2. 1 \in Int /\ Len(s) \in Int
      BY <1>1
    <2>3. /\ r \in Seq(P)
          /\ Len(r) = IF 1 <= Len(s) THEN Len(s) - 1 + 1 ELSE 0
          /\ \A i \in 1 .. Len(s) - 1 + 1 : r[i] = a[1 + i - 1]
      BY <2>1, <2>2, SubSeqProperties
    <2> HIDE DEF r
    <2>4. Len(r) = Len(s)
      BY <1>1, <2>3
    <2>5. ASSUME NEW i \in 1 .. Len(s) PROVE r[i] = s[i]
      <3>1. i \in 1 .. Len(s) - 1 + 1 /\ 1 + i - 1 = i
        BY <1>1
      <3> QED
        BY <1>2, <2>3, <3>1
    <2> QED
      BY <2>3, <2>4, <2>5
  <1> HIDE DEF r
  <1>5. r = s
    BY <1>4, SeqEqual
  <1> QED
    BY <1>2, <1>3, <1>5 DEF r, a

\* The terminal after the last is the first.
LEMMA NextTerminalWraps ==
  ASSUME process_terminal \in Terminals
  PROVE  NextTerminal = IF process_terminal + 1 \in Terminals
                          THEN process_terminal + 1 ELSE 0
  <1> DEFINE t == process_terminal
             N == NUM_TERMINALS
  <1>1. t \in Nat /\ N \in Nat /\ N > 0 /\ t < N
    BY SizesAssumption DEF Terminals
  <1>2. CASE t + 1 < N
    BY <1>1, <1>2 DEF NextTerminal, Terminals
  <1>3. CASE t + 1 = N
    <2>1. N % N = 0
      BY <1>1
    <2> QED
      BY <1>1, <1>3, <2>1 DEF NextTerminal, Terminals
  <1> QED
    BY <1>1, <1>2, <1>3

\* What the stack of a terminal with a process looks like.
LEMMA StackOfCurrent ==
  ASSUME NEW act, NEW cur, NEW par, NEW img, NEW P, Loaded(act, cur, par, img, P),
         NEW t \in Terminals, cur[t] # NULL,
         NEW s, s = StacksIn(cur, par, img)[t]
  PROVE  /\ s \in Seq(P) /\ s # <<>> /\ s[Len(s)] = img[cur[t]]
         /\ par[cur[t]] = NULL => Len(s) = 1
         /\ par[cur[t]] # NULL =>
              /\ Len(s) # 1
              /\ SubSeq(s, 1, Len(s) - 1) = ProgramsOf(par[cur[t]], par, img)
  <1> DEFINE r == ProgramsOf(par[cur[t]], par, img)
             x == img[cur[t]]
  <1>0. /\ act \subseteq Slots /\ cur \in [Terminals -> Nodes]
        /\ par \in [Slots -> Nodes] /\ img \in [Slots -> P] /\ Table(act, cur, par)
    BY DEF Loaded
  <1>1. s = ProgramsOf(cur[t], par, img)
    BY DEF StacksIn
  <1>2. ProgramsOf(cur[t], par, img) = Append(r, x) /\ r \in Seq(P)
          /\ (par[cur[t]] # NULL => Len(r) > 0)
    BY <1>0, StackPop
  <1>3. x \in P
    BY <1>0 DEF Nodes
  <1>4. par[cur[t]] = NULL => r = <<>>
    BY <1>0, StackOfNull
  <1> HIDE DEF r, x
  <1>5. /\ Append(r, x) \in Seq(P) /\ Append(r, x) # <<>>
        /\ Len(Append(r, x)) = Len(r) + 1
        /\ Append(r, x)[Len(r) + 1] = x
        /\ SubSeq(Append(r, x), 1, Len(r)) = r
    BY <1>2, <1>3, AppendFacts
  <1>6. s = Append(r, x)
    BY <1>1, <1>2
  <1>7. Len(r) \in Nat /\ (r = <<>> => Len(r) = 0)
    BY <1>2, LenProperties
  <1>8. Len(s) - 1 = Len(r) /\ Len(s) = Len(r) + 1
    BY <1>5, <1>6, <1>7
  <1>9. s \in Seq(P) /\ s # <<>> /\ s[Len(s)] = x /\ SubSeq(s, 1, Len(s) - 1) = r
    BY <1>5, <1>6, <1>8
  <1>10. /\ par[cur[t]] = NULL => Len(s) = 1
         /\ par[cur[t]] # NULL => Len(s) # 1
    BY <1>2, <1>4, <1>7, <1>8
  <1> QED
    BY <1>9, <1>10 DEF r, x

\* sys_execute in the foreground is a Start.
LEMMA ExecuteIsStart ==
  ASSUME ForegroundInv, NEW prog \in Programs, NEW arg \in BOOLEAN,
         visible_terminal = process_terminal, ExecuteProgram(prog, arg)
  PROVE  Stacks!Start(prog)
  <1> DEFINE n == FirstFree(active_processes)
             P == Programs \cup {NULL}
             t == process_terminal
  <1>1. Loaded(active_processes, cur_pcb_ptr, parent_pcb, image, P)
    BY DEF ForegroundInv, TableInv, TypeOK, Nodes, Loaded
  <1>2. /\ t \in Terminals /\ running = cur_pcb_ptr[t] /\ running \in Slots
        /\ ExecuteTerm = t
    BY RunningFacts DEF ExecuteProgram, CanExecute, ExecuteTerm
  <1>3. n \in Slots /\ n \notin active_processes /\ n # NULL
    BY <1>1, FirstFreeIsFree, SentinelsAssumption DEF ExecuteProgram, Loaded
  <1>4. /\ cur_pcb_ptr' = [cur_pcb_ptr EXCEPT ![t] = n]
        /\ parent_pcb' = [parent_pcb EXCEPT ![n] = cur_pcb_ptr[t]]
        /\ image' = [image EXCEPT ![n] = prog]
        /\ program_page' = n
        /\ process_terminal' = process_terminal
    BY <1>2 DEF ExecuteProgram, Launch
  <1> HIDE DEF n, P
  <1> DEFINE s == StacksIn(cur_pcb_ptr, parent_pcb, image)
             s2 == StacksIn(cur_pcb_ptr', parent_pcb', image')
  <1>5. s2 = [s EXCEPT ![t] = Append(@, prog)]
    <2>1. prog \in P
      BY DEF P
    <2>2. IsPush(active_processes, cur_pcb_ptr, parent_pcb, image, P, t, n, prog,
                 cur_pcb_ptr', parent_pcb', image')
      BY <1>1, <1>2, <1>3, <1>4, <2>1 DEF IsPush
    <2> QED
      BY <2>2, StackPush
  <1>6. s[t] # <<>>
    BY <1>1, <1>2, StackOfCurrent, SentinelsAssumption
  <1>7. CpuOf(program_page', image') = prog
    BY <1>1, <1>3, <1>4 DEF CpuOf, Loaded
  <1> HIDE DEF s, s2
  <1>8. s = StacksIn(cur_pcb_ptr, parent_pcb, image)
          /\ s2 = StacksIn(cur_pcb_ptr', parent_pcb', image')
    BY DEF s, s2
  <1> QED
    BY <1>4, <1>5, <1>6, <1>7, <1>8, MappedStart

\* The table of the kernel's variables.
LEMMA KernelTable ==
  ASSUME ForegroundInv
  PROVE  Loaded(active_processes, cur_pcb_ptr, parent_pcb, image, Programs \cup {NULL})
  BY DEF ForegroundInv, TableInv, TypeOK, Nodes, Loaded

\* A first shell, started by the scheduler, is a TakeTurn.
LEMMA LaunchIsTurn ==
  ASSUME ForegroundInv, ScheduleLaunch
  PROVE  Stacks!TakeTurn
  <1> DEFINE n == FirstFree(active_processes)
             P == Programs \cup {NULL}
             u == NextTerminal
             s == StacksIn(cur_pcb_ptr, parent_pcb, image)
             s2 == StacksIn(cur_pcb_ptr', parent_pcb', image')
  <1>1. Loaded(active_processes, cur_pcb_ptr, parent_pcb, image, P)
    BY KernelTable
  <1>2. process_terminal \in Terminals /\ u \in Terminals
    BY RunningFacts, NextTerminalType DEF ForegroundInv, TableInv
  <1>3. n \in Slots /\ n \notin active_processes /\ n # NULL
    BY <1>1, FirstFreeIsFree, SentinelsAssumption DEF ScheduleLaunch, Loaded
  <1>4. /\ cur_pcb_ptr[u] = NULL
        /\ cur_pcb_ptr' = [cur_pcb_ptr EXCEPT ![u] = n]
        /\ parent_pcb' = [parent_pcb EXCEPT ![n] = cur_pcb_ptr[u]]
        /\ image' = [image EXCEPT ![n] = Shell]
        /\ program_page' = n
        /\ process_terminal' = u
    BY DEF ScheduleLaunch, Launch
  <1>5. Shell \in P
    BY ProgramsAssumption
  <1>6. u = IF process_terminal + 1 \in Terminals THEN process_terminal + 1 ELSE 0
    BY <1>2, NextTerminalWraps
  <1> HIDE DEF n, P, u
  <1>7. s2 = [s EXCEPT ![u] = Append(@, Shell)]
    <2>1. IsPush(active_processes, cur_pcb_ptr, parent_pcb, image, P, u, n, Shell,
                 cur_pcb_ptr', parent_pcb', image')
      BY <1>1, <1>2, <1>3, <1>4, <1>5 DEF IsPush
    <2> QED
      BY <2>1, StackPush
  <1>8. s[u] = <<>>
    BY <1>1, <1>2, <1>4, StackOfNull DEF StacksIn, Loaded
  <1>9. CpuOf(program_page', image') = Shell
    BY <1>1, <1>3, <1>4 DEF CpuOf, Loaded
  <1>10. s = StacksIn(cur_pcb_ptr, parent_pcb, image)
           /\ s2 = StacksIn(cur_pcb_ptr', parent_pcb', image')
    OBVIOUS
  <1>11. u \in DOMAIN s
    BY <1>2 DEF StacksIn
  <1> HIDE DEF s, s2
  <1>12. Append(<<>>, Shell) = <<Shell>> /\ Len(<<Shell>>) = 1 /\ <<Shell>>[1] = Shell
    OBVIOUS
  <1>13. s2 = [s EXCEPT ![u] = <<Shell>>] /\ s2[u] = <<Shell>>
    BY <1>7, <1>8, <1>11, <1>12
  <1>14. CpuOf(program_page', image') = s2[u][Len(s2[u])] /\ process_terminal' = u
    BY <1>4, <1>9, <1>12, <1>13
  <1>15. (s[u] = <<>> => s2 = [s EXCEPT ![u] = <<Shell>>]) /\ (s[u] # <<>> => s2 = s)
    BY <1>8, <1>13
  <1>16. TurnMapped(s, s2, u)
    BY <1>6, <1>10, <1>14, <1>15, Zenon DEF TurnMapped
  <1> QED
    BY <1>16, MappedTurn

\* Dispatching a terminal's current process is a TakeTurn.
LEMMA ResumeIsTurn ==
  ASSUME ForegroundInv, ScheduleResume
  PROVE  Stacks!TakeTurn
  <1> DEFINE P == Programs \cup {NULL}
             u == NextTerminal
             s == StacksIn(cur_pcb_ptr, parent_pcb, image)
             s2 == StacksIn(cur_pcb_ptr', parent_pcb', image')
  <1>1. Loaded(active_processes, cur_pcb_ptr, parent_pcb, image, P)
    BY KernelTable
  <1>2. process_terminal \in Terminals /\ u \in Terminals
    BY RunningFacts, NextTerminalType DEF ForegroundInv, TableInv
  <1>3. /\ cur_pcb_ptr[u] # NULL
        /\ program_page' = cur_pcb_ptr[u]
        /\ process_terminal' = u
        /\ UNCHANGED <<cur_pcb_ptr, parent_pcb, image>>
    BY DEF ScheduleResume
  <1>4. u = IF process_terminal + 1 \in Terminals THEN process_terminal + 1 ELSE 0
    BY <1>2, NextTerminalWraps
  <1> HIDE DEF P, u
  <1>5. s[u] # <<>> /\ s[u][Len(s[u])] = image[cur_pcb_ptr[u]]
    BY <1>1, <1>2, <1>3, StackOfCurrent
  <1>6. s2 = s
    BY <1>3
  <1>7. CpuOf(program_page', image') = s2[u][Len(s2[u])]
    BY <1>3, <1>5, <1>6 DEF CpuOf
  <1>8. (s[u] = <<>> => s2 = [s EXCEPT ![u] = <<Shell>>]) /\ (s[u] # <<>> => s2 = s)
    BY <1>5, <1>6
  <1>9. s = StacksIn(cur_pcb_ptr, parent_pcb, image)
          /\ s2 = StacksIn(cur_pcb_ptr', parent_pcb', image')
    OBVIOUS
  <1> HIDE DEF s, s2
  <1>10. process_terminal' = u
    BY <1>3
  <1>11. TurnMapped(s, s2, u)
    BY <1>4, <1>7, <1>8, <1>9, <1>10, Zenon DEF TurnMapped
  <1> QED
    BY <1>11, MappedTurn

\* A halt that returns to the parent is an End.
LEMMA ReturnIsEnd ==
  ASSUME ForegroundInv, ForegroundInv', NEW status, NEW cause, HaltToParent(status, cause)
  PROVE  Stacks!End
  <1> DEFINE P == Programs \cup {NULL}
             t == process_terminal
             c == cur_pcb_ptr[t]
             p == parent_pcb[c]
             s == StacksIn(cur_pcb_ptr, parent_pcb, image)
             s2 == StacksIn(cur_pcb_ptr', parent_pcb', image')
  <1>1. Loaded(active_processes, cur_pcb_ptr, parent_pcb, image, P)
    BY KernelTable
  <1>2. Loaded(active_processes', cur_pcb_ptr', parent_pcb', image', P)
    BY DEF ForegroundInv, TableInv, TypeOK, Nodes, Loaded
  <1>3. t \in Terminals
    BY RunningFacts
  <1>4. /\ c # NULL /\ p # NULL
        /\ cur_pcb_ptr' = [cur_pcb_ptr EXCEPT ![t] = p]
        /\ program_page' = p
        /\ UNCHANGED <<parent_pcb, image, process_terminal>>
    BY DEF HaltToParent, Current
  <1>5. cur_pcb_ptr'[t] = p /\ \A u \in Terminals : u # t => cur_pcb_ptr'[u] = cur_pcb_ptr[u]
    BY <1>1, <1>3, <1>4 DEF Loaded
  <1> DEFINE r == ProgramsOf(p, parent_pcb, image)
  <1>6. /\ s[t] # <<>> /\ Len(s[t]) # 1
        /\ SubSeq(s[t], 1, Len(s[t]) - 1) = r
    BY <1>1, <1>3, <1>4, StackOfCurrent
  <1>7. s2[t] = r /\ \A u \in Terminals : u # t => s2[u] = s[u]
    BY <1>3, <1>4, <1>5 DEF StacksIn
  <1>8. s2[t][Len(s2[t])] = image'[cur_pcb_ptr'[t]]
    <2> DEFINE cur2 == cur_pcb_ptr'
               par2 == parent_pcb'
               img2 == image'
    <2>1. cur2[t] # NULL
      BY <1>4, <1>5
    <2> HIDE DEF cur2, par2, img2
    <2>2. Loaded(active_processes', cur2, par2, img2, P)
      BY <1>2 DEF cur2, par2, img2
    <2>3. StacksIn(cur2, par2, img2)[t][Len(StacksIn(cur2, par2, img2)[t])]
            = img2[cur2[t]]
      BY <1>3, <2>1, <2>2, StackOfCurrent
    <2> QED
      BY <2>3 DEF cur2, par2, img2
  <1>9. CpuOf(program_page', image') = s2[t][Len(s2[t])]
    BY <1>4, <1>5, <1>8 DEF CpuOf
  <1>10. s = StacksIn(cur_pcb_ptr, parent_pcb, image)
           /\ s2 = StacksIn(cur_pcb_ptr', parent_pcb', image')
           /\ s = [u \in Terminals |-> s[u]] /\ s2 = [u \in Terminals |-> s2[u]]
    BY DEF StacksIn
  <1> HIDE DEF s, s2, r
  <1>11. s2 = [s EXCEPT ![t] = IF Len(@) = 1 THEN <<Shell>> ELSE SubSeq(@, 1, Len(@) - 1)]
    BY <1>3, <1>6, <1>7, <1>10
  <1> QED
    BY <1>4, <1>6, <1>9, <1>10, <1>11, MappedEnd

\* A halt of a terminal's last process, which restarts the shell, is an End.
LEMMA RestartIsEnd ==
  ASSUME ForegroundInv, HaltBaseShell
  PROVE  Stacks!End
  <1> DEFINE P == Programs \cup {NULL}
             t == process_terminal
             c == cur_pcb_ptr[t]
             act == active_processes \ {c}
             cur == [cur_pcb_ptr EXCEPT ![t] = NULL]
             n == FirstFree(act)
             s == StacksIn(cur_pcb_ptr, parent_pcb, image)
             s0 == StacksIn(cur, parent_pcb, image)
             s2 == StacksIn(cur_pcb_ptr', parent_pcb', image')
  <1>1. Loaded(active_processes, cur_pcb_ptr, parent_pcb, image, P)
    BY KernelTable
  <1>2. /\ t \in Terminals /\ c # NULL /\ parent_pcb[c] = NULL
        /\ c \in Slots /\ c \in active_processes
    BY RunningFacts DEF HaltBaseShell, Current
  <1>3. act \subseteq Slots /\ act # Slots /\ cur \in [Terminals -> Nodes]
    BY <1>1, <1>2 DEF Loaded, Nodes
  <1>4. n \in Slots /\ n \notin act /\ n # NULL
    BY <1>3, FirstFreeIsFree, SentinelsAssumption
  <1>5. /\ cur_pcb_ptr' = [cur EXCEPT ![t] = n]
        /\ parent_pcb' = [parent_pcb EXCEPT ![n] = cur[t]]
        /\ image' = [image EXCEPT ![n] = Shell]
        /\ program_page' = n
        /\ process_terminal' = process_terminal
    BY DEF HaltBaseShell, Launch, Current
  <1>6. cur = [cur_pcb_ptr EXCEPT ![t] = parent_pcb[c]]
    BY <1>2
  <1>7. Table(act, cur, parent_pcb)
    BY <1>1, <1>2, <1>6, TablePop DEF Loaded, Nodes
  <1>8. Loaded(act, cur, parent_pcb, image, P)
    BY <1>1, <1>3, <1>7 DEF Loaded
  <1>9. Shell \in P
    BY ProgramsAssumption
  <1>10. cur[t] = NULL /\ \A u \in Terminals : u # t => cur[u] = cur_pcb_ptr[u]
    BY <1>1, <1>2 DEF Loaded
  <1>11. s0[t] = <<>> /\ \A u \in Terminals : u # t => s0[u] = s[u]
    BY <1>1, <1>2, <1>10, StackOfNull DEF StacksIn, Loaded
  <1> HIDE DEF act, cur, n, P
  <1>12. s2 = [s0 EXCEPT ![t] = Append(@, Shell)]
    <2>1. IsPush(act, cur, parent_pcb, image, P, t, n, Shell,
                 cur_pcb_ptr', parent_pcb', image')
      BY <1>2, <1>4, <1>5, <1>8, <1>9 DEF IsPush
    <2> QED
      BY <2>1, StackPush
  <1>13. s[t] # <<>> /\ Len(s[t]) = 1
    BY <1>1, <1>2, StackOfCurrent
  <1>14. CpuOf(program_page', image') = Shell
    BY <1>1, <1>4, <1>5 DEF CpuOf, Loaded
  <1>15. s = StacksIn(cur_pcb_ptr, parent_pcb, image)
           /\ s2 = StacksIn(cur_pcb_ptr', parent_pcb', image')
           /\ s = [u \in Terminals |-> s[u]] /\ s0 = [u \in Terminals |-> s0[u]]
    BY DEF StacksIn
  <1> HIDE DEF s, s0, s2
  <1>16. Append(<<>>, Shell) = <<Shell>> /\ Len(<<Shell>>) = 1 /\ <<Shell>>[1] = Shell
    OBVIOUS
  <1>17. s2 = [s EXCEPT ![t] = <<Shell>>] /\ s2[t] = <<Shell>>
    BY <1>2, <1>11, <1>12, <1>15, <1>16
  <1>18. s2 = [s EXCEPT ![t] = IF Len(@) = 1 THEN <<Shell>> ELSE SubSeq(@, 1, Len(@) - 1)]
    BY <1>13, <1>17
  <1>19. CpuOf(program_page', image') = s2[t][Len(s2[t])]
    BY <1>14, <1>16, <1>17
  <1> QED
    BY <1>5, <1>13, <1>15, <1>18, <1>19, MappedEnd

\* Every step of the kernel is a step of the stacks, or changes none of them.
LEMMA StackStep ==
  ASSUME ForegroundInv, ForegroundInv', [ForegroundNext]_vars
  PROVE  [Stacks!SNext]_(Stacks!svars)
  <1>1. ASSUME ForegroundExecute PROVE [Stacks!SNext]_(Stacks!svars)
    <2>1. ASSUME NEW prog \in Programs, NEW arg \in BOOLEAN, ExecuteProgram(prog, arg)
          PROVE  Stacks!SNext
      BY <1>1, <2>1, ExecuteIsStart DEF ForegroundExecute, Stacks!SNext
    <2>2. ASSUME NEW arg \in BOOLEAN,
                 ExecuteUnparsable \/ ExecuteNotFound(arg) \/ ExecuteNoSlot(arg)
          PROVE  UNCHANGED Stacks!svars
      BY <2>2, MappedStutter
      DEF ExecuteUnparsable, ExecuteNotFound, ExecuteNoSlot, pcbVars, memoryVars
    <2> QED
      BY <1>1, <2>1, <2>2 DEF ForegroundExecute, Execute
  <1>2. ASSUME Halt PROVE Stacks!SNext
    BY <1>2, RestartIsEnd, ReturnIsEnd DEF Halt, Stacks!SNext
  <1>3. ASSUME Schedule PROVE Stacks!SNext
    <2>1. NextTerminal \in Terminals
      BY RunningFacts, NextTerminalType DEF ForegroundInv, TableInv
    <2>2. ~ScheduleLaunchFails
      BY <2>1, SlotForFirstShell DEF ScheduleLaunchFails
    <2> QED
      BY <1>3, <2>2, LaunchIsTurn, ResumeIsTurn DEF Schedule, Stacks!SNext
  <1>4. ASSUME \/ Open \/ Vidmap \/ KernelFault
               \/ \E fd \in FdIdx : Close(fd)
               \/ \E t \in Terminals : SwitchTerminal(t)
               \/ UNCHANGED vars
        PROVE  UNCHANGED Stacks!svars
    BY <1>4, MappedStutter
    DEF Open, Vidmap, KernelFault, Close, SwitchTerminal, vars, pcbVars, memoryVars
  <1> QED
    BY <1>1, <1>2, <1>3, <1>4 DEF ForegroundNext, OtherSteps

\* The initial and step conditions of the refinement that a run checks on a
\* small instance as ImplementsTerminalStacks: whatever the number of terminals
\* and slots, following parent_pcb from cur_pcb_ptr gives a stack of programs
\* for each terminal; execute pushes on one, halt pops one or restarts its
\* shell, the timer passes the CPU to the top of the next, and nothing else
\* changes a stack or the CPU.
THEOREM ImplementsStacks ==
  ForegroundSpec => Stacks!SInit /\ [][Stacks!SNext]_(Stacks!svars)
  <1>1. Init => Stacks!SInit
    <2> SUFFICES ASSUME Init PROVE Stacks!SInit
      OBVIOUS
    <2>1. /\ parent_pcb \in [Slots -> Nodes]
          /\ image \in [Slots -> Programs \cup {NULL}]
          /\ \A t \in Terminals : cur_pcb_ptr[t] = NULL
      BY DEF Init, Nodes
    <2>2. StacksIn(cur_pcb_ptr, parent_pcb, image) = [t \in Terminals |-> <<>>]
      BY <2>1, StackOfNull DEF StacksIn
    <2>3. [t \in Terminals |-> StackOf(t)] = [t \in Terminals |-> <<>>]
      BY <2>2, StackOfIs
    <2> QED
      BY <2>3 DEF Init, Stacks!SInit
  <1>2. ForegroundInv /\ ForegroundInv' /\ [ForegroundNext]_vars
          => [Stacks!SNext]_(Stacks!svars)
    BY StackStep
  <1> QED
    BY <1>1, <1>2, ForegroundInvariant, PTL DEF ForegroundSpec
=============================================================================
