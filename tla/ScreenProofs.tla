---------------------------- MODULE ScreenProofs ----------------------------
(***************************************************************************)
(* Proofs about the text screens: for screens, buffers and command lines   *)
(* of any size, the cursor of every terminal stays on its screen, the      *)
(* hardware cursor is where the visible terminal's is, a typed character   *)
(* can be erased again, and the terminals' screens do not mix.             *)
(***************************************************************************)
EXTENDS Screen, WellFoundedInduction, TLAPS

Cells == Chars \cup {NUL, BLANK}
Texts == [Page -> Cells]

\* A cursor on the screen, and one that newline and wraparound may leave two
\* rows further down before scroll_down.
Cursors == [x : 0 .. NUM_COLS - 1, y : 0 .. NUM_ROWS - 1,
            forward_next : Int, backward_next : Int]
LowCursors == [x : 0 .. NUM_COLS - 1, y : 0 .. NUM_ROWS + 1,
               forward_next : Int, backward_next : Int]

Screens == [pos : Cursors, text : Texts]
LowScreens == [pos : LowCursors, text : Texts]

\* In the last column the counter is due, so the next character wraps.
Due(p) == p.x = NUM_COLS - 1 => p.forward_next \in {0, NUM_COLS}

\* In the first column it is not, so wraparound leaves the cursor alone.
Settled(p) == p.x = 0 => p.forward_next \notin {0, NUM_COLS}

\* clear leaves a counter that is due in the first column; it empties the
\* command line, and the first character on the line settles the counter.
CursorInv ==
  \A t \in Terminals :
    Due(at[t]) /\ (Settled(at[t]) \/ keyboard_cursor_idx[t] = 0)

ScreenTypeOK ==
  /\ visible_terminal \in Terminals
  /\ at \in [Terminals -> Cursors]
  /\ VIDEO \in Texts
  /\ video_buf \in [Terminals -> Texts]
  /\ keyboard_cursor_idx \in [Terminals -> 0 .. KEYBOARD_BUFFER_SIZE - 1]
  /\ re_echo \in [Terminals -> 0 .. KEYBOARD_BUFFER_SIZE - 1]

ScreenInv == ScreenTypeOK /\ CursorInv /\ HardwareCursorTruthful

-----------------------------------------------------------------------------
(* The routines of lib.c.                                                   *)

\* A cursor with column and row replaced.
LEMMA CursorReplaced ==
  ASSUME NEW p \in LowCursors, NEW a, NEW b
  PROVE  /\ [p EXCEPT !.x = a, !.y = b] =
              [x |-> a, y |-> b, forward_next |-> p.forward_next,
               backward_next |-> p.backward_next]
         /\ [p EXCEPT !.y = b, !.x = a] =
              [x |-> a, y |-> b, forward_next |-> p.forward_next,
               backward_next |-> p.backward_next]
  <1> DEFINE q == [p EXCEPT !.x = a]
             r == [p EXCEPT !.y = b]
  <1>1. q = [x |-> a, y |-> p.y, forward_next |-> p.forward_next,
             backward_next |-> p.backward_next]
    BY DEF LowCursors
  <1>2. r = [x |-> p.x, y |-> b, forward_next |-> p.forward_next,
             backward_next |-> p.backward_next]
    BY DEF LowCursors
  <1>3. [p EXCEPT !.x = a, !.y = b] = [q EXCEPT !.y = b]
    OBVIOUS
  <1>4. [p EXCEPT !.y = b, !.x = a] = [r EXCEPT !.x = a]
    OBVIOUS
  <1> HIDE DEF q, r
  <1>5. [q EXCEPT !.y = b] = [x |-> a, y |-> b, forward_next |-> p.forward_next,
                              backward_next |-> p.backward_next]
    BY <1>1
  <1>6. [r EXCEPT !.x = a] = [x |-> a, y |-> b, forward_next |-> p.forward_next,
                              backward_next |-> p.backward_next]
    BY <1>2
  <1> QED
    BY <1>3, <1>4, <1>5, <1>6

LEMMA CursorsAreLow ==
  ASSUME NEW p \in Cursors
  PROVE  p \in LowCursors
  BY ScreenAssumption DEF Cursors, LowCursors

\* wraparound changes the row only at the start of one, and then settles the
\* counter; in the last column it makes the counter due.
LEMMA WraparoundMoves ==
  ASSUME NEW s \in LowScreens, s.pos.y <= NUM_ROWS
  PROVE  /\ wraparound(s) \in LowScreens
         /\ wraparound(s).pos.x = s.pos.x
         /\ wraparound(s).pos.y \in {s.pos.y, s.pos.y + 1}
         /\ Settled(s.pos) \/ s.pos.x # 0 => wraparound(s).pos.y = s.pos.y
         /\ Settled(wraparound(s).pos)
         /\ Due(wraparound(s).pos)
         /\ s.pos.x = 0 /\ ~Settled(s.pos) => wraparound(s).pos.y = s.pos.y + 1
         /\ wraparound(s).text = s.text
  <1> DEFINE p == [s.pos EXCEPT !.forward_next = Next1(s.pos)]
             q == IF p.x = 0 /\ p.forward_next = 0
                    THEN [p EXCEPT !.y = @ + 1, !.backward_next = NUM_COLS,
                                   !.forward_next = 1]
                    ELSE p
  <1>1. s.pos \in LowCursors /\ s.text \in Texts
    BY DEF LowScreens
  <1>2. Next1(s.pos) \in Int
    BY <1>1, ScreenAssumption DEF Next1, Next0, LowCursors
  <1>3. /\ p \in LowCursors /\ p.x = s.pos.x /\ p.y = s.pos.y
        /\ p.forward_next = Next1(s.pos)
    BY <1>1, <1>2 DEF LowCursors
  <1>4. wraparound(s) = [s EXCEPT !.pos = q]
    BY DEF wraparound
  <1>5. /\ q \in LowCursors
        /\ q.x = p.x
        /\ q.y = IF p.x = 0 /\ p.forward_next = 0 THEN p.y + 1 ELSE p.y
        /\ q.forward_next = IF p.x = 0 /\ p.forward_next = 0 THEN 1 ELSE p.forward_next
    <2> HIDE DEF p
    <2>1. p.y + 1 \in 0 .. NUM_ROWS + 1
      BY <1>3, ScreenAssumption DEF LowCursors
    <2>2. CASE p.x = 0 /\ p.forward_next = 0
      <3>1. q = [x |-> p.x, y |-> p.y + 1, forward_next |-> 1, backward_next |-> NUM_COLS]
        BY <1>3, <2>2 DEF LowCursors
      <3> QED
        BY <1>3, <2>1, <2>2, <3>1, ScreenAssumption DEF LowCursors
    <2>3. CASE ~(p.x = 0 /\ p.forward_next = 0)
      BY <1>3, <2>3
    <2> QED
      BY <2>2, <2>3
  <1>6. wraparound(s) \in LowScreens /\ wraparound(s).pos = q
          /\ wraparound(s).text = s.text
    <2> HIDE DEF q
    <2> QED BY <1>4, <1>5 DEF LowScreens
  <1> HIDE DEF p, q
  <1>7. s.pos.x \in 0 .. NUM_COLS - 1 /\ s.pos.y \in Int /\ s.pos.forward_next \in Int
    BY <1>1 DEF LowCursors
  <1> QED
    BY <1>3, <1>5, <1>6, <1>7, ScreenAssumption DEF Settled, Due, Next1, Next0

\* scroll_down brings a cursor below the screen back to its last row, and
\* leaves one on the screen where it is.
LEMMA ScrollDownReturns ==
  ASSUME NEW s \in LowScreens
  PROVE  /\ scroll_down(s) \in Screens
         /\ s.pos.y < NUM_ROWS => scroll_down(s) = s
         /\ s.pos.y >= NUM_ROWS =>
              /\ scroll_down(s).pos.x = 0
              /\ scroll_down(s).pos.y = NUM_ROWS - 1
         /\ scroll_down(s).pos.forward_next = s.pos.forward_next
         /\ scroll_down(s).pos.backward_next = s.pos.backward_next
  <1> DEFINE L == (NUM_ROWS - 1) * NUM_COLS
             t == [i \in Page |->
                    CASE i < (NUM_ROWS - 1) * NUM_COLS -> s.text[i + NUM_COLS]
                      [] i \in (NUM_ROWS - 1) * NUM_COLS .. NUM_ROWS * NUM_COLS - 1 -> NUL
                      [] OTHER -> s.text[i]]
             p == [s.pos EXCEPT !.y = NUM_ROWS - 1, !.x = 0]
  <1>1. s.pos \in LowCursors /\ s.text \in Texts
    BY DEF LowScreens
  <1>2. CASE s.pos.y < NUM_ROWS
    <2>1. scroll_down(s) = s
      BY <1>2 DEF scroll_down
    <2>2. s.pos \in Cursors
      BY <1>1, <1>2, ScreenAssumption DEF LowCursors, Cursors
    <2> QED
      BY <1>2, <2>1, <2>2, <1>1, ScreenAssumption DEF Screens, LowScreens, LowCursors
  <1>3. CASE s.pos.y >= NUM_ROWS
    <2>1. ~(s.pos.y < NUM_ROWS)
      BY <1>1, <1>3, ScreenAssumption DEF LowCursors
    <2>2. scroll_down(s) = [pos |-> p, text |-> t]
      BY <2>1 DEF scroll_down
    <2>3. p \in Cursors /\ p.x = 0 /\ p.y = NUM_ROWS - 1
            /\ p.forward_next = s.pos.forward_next /\ p.backward_next = s.pos.backward_next
      <3>1. p = [x |-> 0, y |-> NUM_ROWS - 1, forward_next |-> s.pos.forward_next,
                 backward_next |-> s.pos.backward_next]
        BY <1>1, CursorReplaced, Zenon
      <3> QED
        BY <1>1, <3>1, ScreenAssumption DEF LowCursors, Cursors
    <2>4. t \in Texts
      <3> SUFFICES ASSUME NEW i \in Page
                   PROVE  t[i] \in Cells
        BY DEF Texts
      <3>1. CASE i < (NUM_ROWS - 1) * NUM_COLS
        <4>0. i \notin (NUM_ROWS - 1) * NUM_COLS .. NUM_ROWS * NUM_COLS - 1
          BY <3>1, ScreenAssumption DEF Page
        <4>1. t[i] = s.text[i + NUM_COLS]
          BY <3>1, <4>0
        <4>2. i + NUM_COLS \in Page
          <5>1. /\ (NUM_ROWS - 1) * NUM_COLS = NUM_ROWS * NUM_COLS - NUM_COLS
                /\ (NUM_ROWS + 1) * NUM_COLS = NUM_ROWS * NUM_COLS + NUM_COLS
                /\ NUM_ROWS * NUM_COLS \in Nat
            BY ScreenAssumption
          <5> QED
            BY <3>1, <5>1, ScreenAssumption DEF Page
        <4> QED
          BY <4>1, <4>2, <1>1 DEF Texts
      <3>2. CASE i \in (NUM_ROWS - 1) * NUM_COLS .. NUM_ROWS * NUM_COLS - 1
        <4>1. ~(i < (NUM_ROWS - 1) * NUM_COLS)
          BY <3>2, ScreenAssumption DEF Page
        <4>2. t[i] = NUL
          BY <3>2, <4>1
        <4> QED
          BY <4>2 DEF Cells
      <3>3. CASE /\ ~(i < (NUM_ROWS - 1) * NUM_COLS)
                 /\ i \notin (NUM_ROWS - 1) * NUM_COLS .. NUM_ROWS * NUM_COLS - 1
        <4>1. t[i] = s.text[i]
          BY <3>3
        <4> QED
          BY <4>1, <1>1 DEF Texts
      <3> QED BY <3>1, <3>2, <3>3
    <2> HIDE DEF p, t
    <2> QED
      BY <2>1, <2>2, <2>3, <2>4 DEF Screens
  <1> QED
    BY <1>1, <1>2, <1>3, ScreenAssumption DEF LowCursors

LEMMA ScreensAreLow ==
  ASSUME NEW s \in Screens
  PROVE  s \in LowScreens /\ s.pos.y <= NUM_ROWS /\ s.pos.y < NUM_ROWS /\ s.pos \in Cursors
         /\ s.text \in Texts
  BY ScreenAssumption DEF Screens, LowScreens, Cursors, LowCursors

\* What putc does to the cursor before it looks at the edges.
Placed(s, c) ==
  IF c = NEWLINE
    THEN [s EXCEPT !.pos.x = 0, !.pos.y = IF AtEdge(s.pos) THEN @ ELSE @ + 1]
    ELSE [Write(s, Place(s.pos), c) EXCEPT
            !.pos.x = (@ + 1) % NUM_COLS, !.pos.y = @ % NUM_ROWS]

\* A row has no column after its last one: the next one is the first.
LEMMA NextColumn ==
  ASSUME NEW n \in Nat, n > 0, NEW x \in 0 .. n - 1
  PROVE  /\ x % n = x
         /\ (x + 1) % n = IF x = n - 1 THEN 0 ELSE x + 1
  <1>1. x = n - 1 => (x + 1) % n = 0
    BY SMT
  <1>2. x < n - 1 => (x + 1) % n = x + 1
    BY SMT
  <1> QED
    BY <1>1, <1>2, SMT

LEMMA PlacedMoves ==
  ASSUME NEW s \in Screens, NEW c \in Chars \cup {NEWLINE}
  PROVE  /\ Placed(s, c) \in LowScreens
         /\ Placed(s, c).pos.y <= NUM_ROWS
         /\ Placed(s, c).pos.forward_next = s.pos.forward_next
         /\ c # NEWLINE =>
              /\ Placed(s, c).pos.y = s.pos.y
              /\ Placed(s, c).pos.x = IF s.pos.x = NUM_COLS - 1 THEN 0 ELSE s.pos.x + 1
         /\ c = NEWLINE => Placed(s, c).pos.x = 0
  <1>1. s.pos \in Cursors /\ s.text \in Texts
    BY DEF Screens
  <1>2. CASE c = NEWLINE
    <2> DEFINE p == [s.pos EXCEPT !.x = 0, !.y = IF AtEdge(s.pos) THEN @ ELSE @ + 1]
    <2>1. Placed(s, c) = [s EXCEPT !.pos = p]
      BY <1>2, <1>1 DEF Placed, Screens, Cursors
    <2>2. p \in LowCursors /\ p.y <= NUM_ROWS /\ p.x = 0
            /\ p.forward_next = s.pos.forward_next
      <3>1. p = [x |-> 0, y |-> IF AtEdge(s.pos) THEN s.pos.y ELSE s.pos.y + 1,
                 forward_next |-> s.pos.forward_next,
                 backward_next |-> s.pos.backward_next]
        BY <1>1, CursorReplaced, CursorsAreLow, Zenon
      <3> QED
        BY <1>1, <3>1, ScreenAssumption DEF LowCursors, Cursors
    <2> HIDE DEF p
    <2>3. [s EXCEPT !.pos = p] \in LowScreens /\ [s EXCEPT !.pos = p].pos = p
      BY <1>1, <2>2 DEF LowScreens, Screens
    <2> QED
      BY <1>2, <2>1, <2>2, <2>3
  <1>3. CASE c # NEWLINE
    <2> DEFINE t == [s.text EXCEPT ![Place(s.pos)] = c]
               x == (s.pos.x + 1) % NUM_COLS
               y == s.pos.y % NUM_ROWS
               p == [s.pos EXCEPT !.x = x, !.y = y]
    <2>1. Placed(s, c) = [pos |-> p, text |-> t]
      BY <1>3, <1>1 DEF Placed, Write, Screens, Cursors
    <2>2. t \in Texts
      BY <1>1, <1>3 DEF Texts, Cells
    <2>3. x = (IF s.pos.x = NUM_COLS - 1 THEN 0 ELSE s.pos.x + 1) /\ y = s.pos.y
      <3>1. s.pos.x \in 0 .. NUM_COLS - 1 /\ s.pos.y \in 0 .. NUM_ROWS - 1
        BY <1>1 DEF Cursors
      <3> QED
        BY <3>1, NextColumn, ScreenAssumption
    <2> HIDE DEF x, y, t
    <2>4. p \in LowCursors /\ p.x = x /\ p.y = y /\ p.forward_next = s.pos.forward_next
      <3>1. p = [x |-> x, y |-> y, forward_next |-> s.pos.forward_next,
                 backward_next |-> s.pos.backward_next]
        BY <1>1, CursorReplaced, CursorsAreLow, Zenon
      <3> QED
        BY <1>1, <2>3, <3>1, ScreenAssumption DEF LowCursors, Cursors
    <2> HIDE DEF p
    <2>5. [pos |-> p, text |-> t] \in LowScreens
      BY <2>2, <2>4 DEF LowScreens
    <2>6. y <= NUM_ROWS
      BY <2>3, <1>1, ScreenAssumption DEF Cursors
    <2> QED
      BY <1>3, <2>1, <2>3, <2>4, <2>5, <2>6
  <1> QED
    BY <1>2, <1>3

\* putc leaves the cursor on the screen with its counter in order: a character
\* goes one column on, or to the next row, which is the last one if there is
\* no next.
LEMMA PutcMoves ==
  ASSUME NEW s \in Screens, NEW c \in Chars \cup {NEWLINE}
  PROVE  /\ putc(s, c) \in Screens
         /\ Due(putc(s, c).pos) /\ Settled(putc(s, c).pos)
         /\ c # NEWLINE /\ s.pos.x < NUM_COLS - 1 =>
              putc(s, c).pos.x = s.pos.x + 1 /\ putc(s, c).pos.y = s.pos.y
         /\ c # NEWLINE /\ s.pos.x = NUM_COLS - 1 /\ Due(s.pos) =>
              /\ putc(s, c).pos.x = 0
              /\ putc(s, c).pos.y = IF s.pos.y = NUM_ROWS - 1 THEN NUM_ROWS - 1
                                                              ELSE s.pos.y + 1
  <1> DEFINE m == Placed(s, c)
             w == IF AtEdge(m.pos) THEN wraparound(m) ELSE m
  <1>1. putc(s, c) = scroll_down(w)
    BY DEF putc, Placed
  <1>2. /\ m \in LowScreens /\ m.pos.y <= NUM_ROWS
        /\ m.pos.forward_next = s.pos.forward_next
        /\ c # NEWLINE =>
             /\ m.pos.y = s.pos.y
             /\ m.pos.x = IF s.pos.x = NUM_COLS - 1 THEN 0 ELSE s.pos.x + 1
        /\ c = NEWLINE => m.pos.x = 0
    BY PlacedMoves
  <1>3. /\ s.pos.x \in 0 .. NUM_COLS - 1 /\ s.pos.y \in 0 .. NUM_ROWS - 1
        /\ s.pos.forward_next \in Int
    BY DEF Screens, Cursors
  <1> HIDE DEF m
  <1>4. m.pos.x \in 0 .. NUM_COLS - 1 /\ m.pos.y \in Int
    BY <1>2 DEF LowScreens, LowCursors
  <1>5. CASE AtEdge(m.pos)
    <2>1. w = wraparound(m)
      BY <1>5
    <2>2. /\ w \in LowScreens
          /\ w.pos.x = m.pos.x
          /\ w.pos.y \in {m.pos.y, m.pos.y + 1}
          /\ Settled(m.pos) \/ m.pos.x # 0 => w.pos.y = m.pos.y
          /\ Settled(w.pos) /\ Due(w.pos)
          /\ m.pos.x = 0 /\ ~Settled(m.pos) => w.pos.y = m.pos.y + 1
      BY <2>1, <1>2, WraparoundMoves
    <2> HIDE DEF w
    <2> DEFINE r == scroll_down(w)
    <2>3. /\ r \in Screens
          /\ w.pos.y < NUM_ROWS => r = w
          /\ w.pos.y >= NUM_ROWS => r.pos.x = 0 /\ r.pos.y = NUM_ROWS - 1
          /\ r.pos.forward_next = w.pos.forward_next
      BY <2>2, ScrollDownReturns
    <2> HIDE DEF r
    <2>4. w.pos.y >= NUM_ROWS => w.pos.x = 0
      BY <1>2, <1>3, <1>4, <2>2, ScreenAssumption
    <2>5. w.pos.y \in Int
      BY <2>2 DEF LowScreens, LowCursors
    <2>6. Due(r.pos) /\ Settled(r.pos)
      BY <2>2, <2>3, <2>4, <2>5, ScreenAssumption DEF Due, Settled
    <2>7. ASSUME c # NEWLINE, s.pos.x < NUM_COLS - 1
          PROVE  r.pos.x = s.pos.x + 1 /\ r.pos.y = s.pos.y
      BY <2>7, <1>2, <1>3, <1>4, <2>2, <2>3, ScreenAssumption
    <2>8. ASSUME c # NEWLINE, s.pos.x = NUM_COLS - 1, Due(s.pos)
          PROVE  /\ r.pos.x = 0
                 /\ r.pos.y = IF s.pos.y = NUM_ROWS - 1 THEN NUM_ROWS - 1
                                                        ELSE s.pos.y + 1
      <3>1. m.pos.x = 0 /\ ~Settled(m.pos)
        BY <2>8, <1>2 DEF Due, Settled
      <3>2. w.pos.y = s.pos.y + 1 /\ w.pos.x = 0
        BY <2>8, <3>1, <1>2, <2>2
      <3> QED
        BY <3>2, <1>3, <2>3, ScreenAssumption
    <2>9. putc(s, c) = r
      BY <1>1 DEF r
    <2> QED
      BY <2>3, <2>6, <2>7, <2>8, <2>9
  <1>6. CASE ~AtEdge(m.pos)
    <2>1. w = m
      BY <1>6
    <2>2. m.pos.x # 0 /\ m.pos.x # NUM_COLS - 1 /\ c # NEWLINE
      BY <1>6, <1>2 DEF AtEdge
    <2>3. m.pos.y < NUM_ROWS
      BY <2>2, <1>2, <1>3, ScreenAssumption
    <2>4. putc(s, c) = m /\ m \in Screens
      BY <2>1, <2>3, <1>1, <1>2, ScrollDownReturns
    <2> QED
      BY <2>2, <2>4, <1>2, <1>3, ScreenAssumption DEF Due, Settled
  <1> QED
    BY <1>5, <1>6

\* The calls of keyboard_interrupt after the echo, and those it makes for a
\* full line, leave a settled cursor where it is.
LEMMA SettledStays ==
  ASSUME NEW s \in Screens, Settled(s.pos)
  PROVE  /\ scroll_down(wraparound(s)) \in Screens
         /\ scroll_down(wraparound(s)).pos.x = s.pos.x
         /\ scroll_down(wraparound(s)).pos.y = s.pos.y
         /\ Due(scroll_down(wraparound(s)).pos)
         /\ Settled(scroll_down(wraparound(s)).pos)
  <1> DEFINE w == wraparound(s)
  <1>1. s \in LowScreens /\ s.pos.y <= NUM_ROWS /\ s.pos.y < NUM_ROWS
    BY ScreensAreLow
  <1>2. w \in LowScreens /\ w.pos.x = s.pos.x /\ w.pos.y = s.pos.y
          /\ Settled(w.pos) /\ Due(w.pos)
    BY <1>1, WraparoundMoves
  <1> HIDE DEF w
  <1>3. scroll_down(w) = w /\ scroll_down(w) \in Screens
    BY <1>1, <1>2, ScrollDownReturns
  <1> QED
    BY <1>2, <1>3 DEF w

LEMMA EchoedMoves ==
  ASSUME NEW s \in Screens, NEW c \in Chars \cup {NEWLINE}
  PROVE  /\ Echoed(s, c) \in Screens
         /\ Echoed(s, c).pos.x = putc(s, c).pos.x
         /\ Echoed(s, c).pos.y = putc(s, c).pos.y
         /\ Due(Echoed(s, c).pos) /\ Settled(Echoed(s, c).pos)
  BY PutcMoves, SettledStays DEF Echoed

\* The step back of backspace and the left arrow goes to the place before, over
\* the start of a row too.
LEMMA StepBackMoves ==
  ASSUME NEW p \in Cursors, ~(p.x = 0 /\ p.y = 0)
  PROVE  /\ StepBack(p) \in Cursors
         /\ Due(StepBack(p)) /\ Settled(StepBack(p))
         /\ Place(StepBack(p)) = Place(p) - 1
  <1>1. p.x \in 0 .. NUM_COLS - 1 /\ p.y \in 0 .. NUM_ROWS - 1
          /\ p.backward_next \in Int
    BY DEF Cursors
  <1>2. CASE p.x # 0
    <2> DEFINE q == Moved(p.x - 1, p.y)
    <2>1. StepBack(p) = q
      BY <1>2 DEF StepBack
    <2>2. q = IF p.x - 1 = 0
                THEN [x |-> p.x - 1, y |-> p.y, forward_next |-> 1,
                      backward_next |-> NUM_COLS]
                ELSE [x |-> p.x - 1, y |-> p.y, forward_next |-> p.x - 1 + 1,
                      backward_next |-> p.x - 1 - 1]
      BY <1>1 DEF Moved
    <2> HIDE DEF q
    <2>3. q \in Cursors /\ Due(q) /\ Settled(q)
      BY <1>1, <1>2, <2>2, ScreenAssumption DEF Cursors, Due, Settled
    <2>4. q.x = p.x - 1 /\ q.y = p.y
      BY <2>2
    <2>5. Place(q) = Place(p) - 1
      <3>1. p.y * NUM_COLS \in Int
        BY <1>1, ScreenAssumption
      <3> QED
        BY <2>4, <1>1, <3>1 DEF Place
    <2> QED
      BY <2>1, <2>3, <2>5
  <1>3. CASE p.x = 0
    <2>1. StepBack(p) = Above(p)
      BY <1>3 DEF StepBack
    <2>2. /\ Above(p).x = NUM_COLS - 1 /\ Above(p).y = p.y - 1
          /\ Above(p).forward_next \in {0, NUM_COLS}
          /\ Above(p) \in Cursors
      BY <1>1, <1>3, ScreenAssumption DEF Above, Cursors
    <2>3. Due(Above(p)) /\ Settled(Above(p))
      BY <2>2, ScreenAssumption DEF Due, Settled
    <2>4. Place(Above(p)) = Place(p) - 1
      <3>1. (p.y - 1) * NUM_COLS = p.y * NUM_COLS - NUM_COLS /\ p.y * NUM_COLS \in Int
        BY <1>1, ScreenAssumption
      <3> QED
        BY <2>2, <1>1, <1>3, <3>1, ScreenAssumption DEF Place
    <2> QED
      BY <2>1, <2>2, <2>3, <2>4
  <1> QED
    BY <1>2, <1>3

\* The keys that move the cursor over the text, from a cursor on the screen.
LEMMA BackspaceMoves ==
  ASSUME NEW s \in Screens, NEW idx
  PROVE  /\ backspace(s, idx) \in Screens
         /\ CanStepBack(s, idx) =>
              /\ Due(backspace(s, idx).pos) /\ Settled(backspace(s, idx).pos)
              /\ Place(backspace(s, idx).pos) = Place(s.pos) - 1
         /\ ~CanStepBack(s, idx) => backspace(s, idx) = s
  <1>1. s.pos \in Cursors /\ s.text \in Texts
    BY DEF Screens
  <1>2. CASE CanStepBack(s, idx)
    <2> DEFINE q == StepBack(s.pos)
               t == [s.text EXCEPT ![Place(q)] = BLANK]
    <2>1. q \in Cursors /\ Due(q) /\ Settled(q) /\ Place(q) = Place(s.pos) - 1
      BY <1>1, <1>2, StepBackMoves DEF CanStepBack
    <2>2. backspace(s, idx) = [pos |-> q, text |-> t]
      BY <1>2, <1>1 DEF backspace, Write, Screens
    <2>3. t \in Texts
      BY <1>1 DEF Texts, Cells
    <2> HIDE DEF q, t
    <2>4. [pos |-> q, text |-> t] \in Screens /\ [pos |-> q, text |-> t].pos = q
      BY <2>1, <2>3 DEF Screens
    <2> QED
      BY <1>2, <2>1, <2>2, <2>4
  <1>3. CASE ~CanStepBack(s, idx)
    BY <1>3 DEF backspace
  <1> QED
    BY <1>2, <1>3

LEMMA LeftArrowMoves ==
  ASSUME NEW s \in Screens, NEW idx
  PROVE  /\ left_arrow(s, idx) \in Screens
         /\ left_arrow(s, idx) # s =>
              Due(left_arrow(s, idx).pos) /\ Settled(left_arrow(s, idx).pos)
  <1>1. s.pos \in Cursors /\ s.text \in Texts
    BY DEF Screens
  <1>2. CASE CanStepBack(s, idx)
    <2> DEFINE q == StepBack(s.pos)
    <2>1. q \in Cursors /\ Due(q) /\ Settled(q)
      BY <1>1, <1>2, StepBackMoves DEF CanStepBack
    <2>2. left_arrow(s, idx) = [s EXCEPT !.pos = q]
      BY <1>2 DEF left_arrow
    <2> HIDE DEF q
    <2>3. [s EXCEPT !.pos = q] \in Screens /\ [s EXCEPT !.pos = q].pos = q
      BY <2>1 DEF Screens
    <2> QED
      BY <2>1, <2>2, <2>3
  <1>3. CASE ~CanStepBack(s, idx)
    BY <1>3 DEF left_arrow
  <1> QED
    BY <1>2, <1>3

LEMMA RightArrowMoves ==
  ASSUME NEW s \in Screens, NEW idx, idx # KEYBOARD_BUFFER_SIZE - 1,
         s.pos.x # NUM_COLS - 1
  PROVE  /\ right_arrow(s, idx) \in Screens
         /\ right_arrow(s, idx) # s
         /\ Due(right_arrow(s, idx).pos) /\ Settled(right_arrow(s, idx).pos)
  <1> DEFINE q == Moved(s.pos.x + 1, s.pos.y)
  <1>1. s.pos.x \in 0 .. NUM_COLS - 1 /\ s.pos.y \in 0 .. NUM_ROWS - 1
          /\ s.pos \in Cursors
    BY DEF Screens, Cursors
  <1>2. s.pos.x < NUM_COLS - 1 /\ s.pos.x # NUM_COLS
    BY <1>1, ScreenAssumption
  <1>3. right_arrow(s, idx) = [s EXCEPT !.pos = q]
    BY <1>2 DEF right_arrow
  <1>4. q = [x |-> s.pos.x + 1, y |-> s.pos.y, forward_next |-> s.pos.x + 1 + 1,
             backward_next |-> s.pos.x + 1 - 1]
    BY <1>1 DEF Moved
  <1>5. q \in Cursors /\ Due(q) /\ Settled(q) /\ q # s.pos
    BY <1>1, <1>2, <1>4, ScreenAssumption DEF Cursors, Due, Settled
  <1> HIDE DEF q
  <1>6. [s EXCEPT !.pos = q] \in Screens /\ [s EXCEPT !.pos = q].pos = q
    BY <1>5 DEF Screens
  <1> QED
    BY <1>3, <1>5, <1>6

LEMMA ClearMoves ==
  ASSUME NEW s \in Screens
  PROVE  clear(s) \in Screens /\ Due(clear(s).pos)
  <1> DEFINE p == [s.pos EXCEPT !.x = 0, !.y = 0]
             t == [i \in Page |-> IF i < NUM_ROWS * NUM_COLS THEN NUL ELSE s.text[i]]
  <1>1. s.pos \in Cursors /\ s.text \in Texts
    BY DEF Screens
  <1>2. p = [x |-> 0, y |-> 0, forward_next |-> s.pos.forward_next,
             backward_next |-> s.pos.backward_next]
    BY <1>1, CursorReplaced, CursorsAreLow, Zenon
  <1>3. p \in Cursors /\ Due(p)
    BY <1>1, <1>2, ScreenAssumption DEF Cursors, Due
  <1>4. t \in Texts
    BY <1>1 DEF Texts, Cells
  <1>5. clear(s) = [pos |-> p, text |-> t]
    BY DEF clear
  <1> HIDE DEF p, t
  <1> QED
    BY <1>3, <1>4, <1>5 DEF Screens

\* A set of numbers has a least one: what inductions over the characters rest on.
LEMMA LeastNumber ==
  ASSUME NEW S \in SUBSET Nat, S # {}
  PROVE  \E k \in S : \A j \in S : ~(j < k)
  <1>1. PICK k \in S : \A j \in S : <<j, k>> \notin OpToRel(<, Nat)
    BY NatLessThanWellFounded, WFMin
  <1>2. \A j \in S : ~(j < k)
    BY <1>1 DEF OpToRel
  <1> QED
    BY <1>2

\* The screen after each of the characters that _sys_read_terminal writes again.
IsWriting(g, s, n, saved) ==
  g = [k \in 0 .. n |-> IF k = 0 THEN s ELSE putc(g[k - 1], saved[k])]

\* They can be written one after the other: the recursive function of ReEcho
\* exists, by the least number of characters for which it would not.
LEMMA WritingExists ==
  ASSUME NEW s, NEW n \in Nat, NEW saved
  PROVE  \E g : IsWriting(g, s, n, saved)
  <1> DEFINE Bad == {k \in Nat : ~\E g : IsWriting(g, s, k, saved)}
  <1> SUFFICES ASSUME Bad # {}
               PROVE  FALSE
    OBVIOUS
  <1>1. PICK k \in Bad : \A j \in Bad : ~(j < k)
    BY LeastNumber
  <1>2. k \in Nat /\ ~\E g : IsWriting(g, s, k, saved)
    BY <1>1
  <1>3. k # 0
    <2> DEFINE g == [j \in 0 .. 0 |-> s]
    <2>1. g = [j \in 0 .. 0 |-> IF j = 0 THEN s ELSE putc(g[j - 1], saved[j])]
      BY DEF g
    <2> QED
      BY <1>2, <2>1 DEF IsWriting
  <1>4. k - 1 \in Nat /\ k - 1 \notin Bad
    BY <1>1, <1>2, <1>3
  <1>5. PICK g : IsWriting(g, s, k - 1, saved)
    BY <1>4
  <1> DEFINE h == [j \in 0 .. k |-> IF j = k THEN putc(g[k - 1], saved[k]) ELSE g[j]]
  <1>6. \A j \in 0 .. k : h[j] = IF j = 0 THEN s ELSE putc(h[j - 1], saved[j])
    <2> TAKE j \in 0 .. k
    <2>1. \A i \in 0 .. k - 1 : g[i] = IF i = 0 THEN s ELSE putc(g[i - 1], saved[i])
      BY <1>5, <1>2, <1>3 DEF IsWriting
    <2>2. CASE j = k
      <3>1. h[k] = putc(g[k - 1], saved[k]) /\ h[k - 1] = g[k - 1]
        BY <1>2, <1>3
      <3> QED
        BY <3>1, <2>2, <1>3
    <2>3. CASE j = 0
      BY <2>1, <2>3, <1>2, <1>3
    <2>4. CASE j # 0 /\ j # k
      <3>1. j \in 0 .. k - 1 /\ j - 1 \in 0 .. k /\ j - 1 # k
        BY <2>4, <1>2
      <3>2. h[j] = g[j] /\ h[j - 1] = g[j - 1]
        BY <3>1, <2>4
      <3> QED
        BY <2>1, <2>4, <3>1, <3>2
    <2> QED
      BY <2>2, <2>3, <2>4
  <1>7. h = [j \in 0 .. k |-> IF j = 0 THEN s ELSE putc(h[j - 1], saved[j])]
    <2>1. h = [j \in 0 .. k |-> h[j]]
      OBVIOUS
    <2> HIDE DEF h
    <2> QED
      BY <2>1, <1>6
  <1> QED
    BY <1>2, <1>7 DEF IsWriting

\* Whatever is written, the cursor stays on the screen and settles.
LEMMA WritingMoves ==
  ASSUME NEW s \in Screens, NEW n \in Nat, n # 0, NEW saved \in [1 .. n -> Chars],
         NEW g, IsWriting(g, s, n, saved)
  PROVE  g[n] \in Screens /\ Due(g[n].pos) /\ Settled(g[n].pos)
  <1> DEFINE Good(k) == g[k] \in Screens
             Bad == {k \in Nat : k <= n /\ ~Good(k)}
  <1>1. g[0] = s /\ \A k \in 1 .. n : g[k] = putc(g[k - 1], saved[k])
    BY DEF IsWriting
  <1>2. \A k \in 0 .. n : Good(k)
    <2> SUFFICES ASSUME Bad # {}
                 PROVE  FALSE
      OBVIOUS
    <2>1. PICK k \in Bad : \A j \in Bad : ~(j < k)
      BY LeastNumber
    <2>2. k # 0
      BY <2>1, <1>1
    <2>3. k - 1 \in Nat /\ k - 1 \notin Bad /\ k \in 1 .. n
      BY <2>1, <2>2
    <2>4. g[k - 1] \in Screens /\ saved[k] \in Chars \cup {NEWLINE}
      BY <2>3
    <2>5. g[k] \in Screens
      BY <2>3, <2>4, <1>1, PutcMoves
    <2> QED
      BY <2>1, <2>5
  <1>3. g[n - 1] \in Screens /\ saved[n] \in Chars \cup {NEWLINE}
          /\ g[n] = putc(g[n - 1], saved[n])
    BY <1>1, <1>2
  <1> QED
    BY <1>3, PutcMoves

-----------------------------------------------------------------------------
(* Their callers.                                                           *)

LEMMA ScreenOfType ==
  ASSUME ScreenTypeOK, NEW t \in Terminals
  PROVE  ScreenOf(t) \in Screens /\ ScreenOf(t).pos = at[t]
  <1>1. at[t] \in Cursors /\ Text(t) \in Texts
    BY DEF ScreenTypeOK, Text
  <1> QED
    BY <1>1 DEF ScreenOf, Screens

\* A step that shows a screen with its cursor in order, and the hardware cursor
\* with it, keeps the invariant.
LEMMA ShowKeepsInv ==
  ASSUME ScreenInv, NEW t \in Terminals, NEW s \in Screens, Show(t, s),
         NEW idx \in 0 .. KEYBOARD_BUFFER_SIZE - 1,
         Due(s.pos), Settled(s.pos) \/ idx = 0,
         keyboard_cursor_idx' = [keyboard_cursor_idx EXCEPT ![t] = idx],
         re_echo' \in [Terminals -> 0 .. KEYBOARD_BUFFER_SIZE - 1],
         HardwareCursorTruthful'
  PROVE  ScreenInv'
  <1>1. s.pos \in Cursors /\ s.text \in Texts
    BY DEF Screens
  <1>2. /\ visible_terminal' = visible_terminal
        /\ at' = [at EXCEPT ![t] = s.pos]
        /\ VIDEO' \in Texts /\ video_buf' \in [Terminals -> Texts]
    <2>1. CASE t = visible_terminal
      BY <2>1, <1>1 DEF Show, ScreenInv, ScreenTypeOK
    <2>2. CASE t # visible_terminal
      BY <2>2, <1>1 DEF Show, ScreenInv, ScreenTypeOK
    <2> QED
      BY <2>1, <2>2
  <1>3. at' \in [Terminals -> Cursors] /\ at'[t] = s.pos
          /\ \A u \in Terminals \ {t} : at'[u] = at[u]
    BY <1>1, <1>2 DEF ScreenInv, ScreenTypeOK
  <1>4. /\ keyboard_cursor_idx' \in [Terminals -> 0 .. KEYBOARD_BUFFER_SIZE - 1]
        /\ keyboard_cursor_idx'[t] = idx
        /\ \A u \in Terminals \ {t} : keyboard_cursor_idx'[u] = keyboard_cursor_idx[u]
    BY DEF ScreenInv, ScreenTypeOK
  <1>5. ScreenTypeOK'
    BY <1>2, <1>3, <1>4 DEF ScreenInv, ScreenTypeOK
  <1>6. CursorInv'
    <2> SUFFICES ASSUME NEW u \in Terminals
                 PROVE  Due(at'[u]) /\ (Settled(at'[u]) \/ keyboard_cursor_idx'[u] = 0)
      BY DEF CursorInv
    <2>1. CASE u = t
      BY <2>1, <1>3, <1>4
    <2>2. CASE u # t
      BY <2>2, <1>3, <1>4 DEF ScreenInv, CursorInv
    <2> QED
      BY <2>1, <2>2
  <1> QED
    BY <1>5, <1>6 DEF ScreenInv

LEMMA UpdateCursorTruthful ==
  ASSUME UpdateCursor
  PROVE  HardwareCursorTruthful'
  BY DEF UpdateCursor, HardwareCursorTruthful

LEMMA ReEchoUnchanged ==
  ASSUME ScreenInv, UNCHANGED re_echo
  PROVE  re_echo' \in [Terminals -> 0 .. KEYBOARD_BUFFER_SIZE - 1]
  BY DEF ScreenInv, ScreenTypeOK

LEMMA KeyEchoKeepsInv ==
  ASSUME ScreenInv, NEW c \in Chars \cup {NEWLINE},
         NEW idx \in 0 .. KEYBOARD_BUFFER_SIZE - 1,
         Show(visible_terminal, Echoed(ScreenOf(visible_terminal), c)),
         cursor' = Place(putc(ScreenOf(visible_terminal), c).pos),
         keyboard_cursor_idx' = [keyboard_cursor_idx EXCEPT ![visible_terminal] = idx],
         UNCHANGED re_echo
  PROVE  ScreenInv'
  <1> DEFINE v == visible_terminal
             s == ScreenOf(v)
             e == Echoed(s, c)
             q == putc(s, c)
  <1>1. ScreenTypeOK /\ v \in Terminals
    BY DEF ScreenInv, ScreenTypeOK
  <1>2. s \in Screens
    BY <1>1, ScreenOfType
  <1>3. e \in Screens /\ e.pos.x = q.pos.x /\ e.pos.y = q.pos.y
          /\ Due(e.pos) /\ Settled(e.pos)
    BY <1>2, EchoedMoves
  <1>4. Show(v, e) /\ cursor' = Place(q.pos)
    OBVIOUS
  <1> HIDE DEF e, q
  <1>5. at'[v] = e.pos /\ visible_terminal' = v
    BY <1>1, <1>4 DEF Show, ScreenTypeOK
  <1>6. HardwareCursorTruthful'
    BY <1>3, <1>4, <1>5 DEF HardwareCursorTruthful, Place
  <1>7. re_echo' \in [Terminals -> 0 .. KEYBOARD_BUFFER_SIZE - 1]
    BY ReEchoUnchanged
  <1> QED
    BY <1>1, <1>3, <1>4, <1>6, <1>7, ShowKeepsInv

LEMMA KeyCharKeepsInv ==
  ASSUME ScreenInv, NEW c \in Chars, KeyChar(c)
  PROVE  ScreenInv'
  <1>1. keyboard_cursor_idx[visible_terminal] + 1 \in 0 .. KEYBOARD_BUFFER_SIZE - 1
    BY ScreenAssumption DEF KeyChar, ScreenInv, ScreenTypeOK
  <1> QED
    BY <1>1, KeyEchoKeepsInv DEF KeyChar, SetLine

LEMMA KeyEnterKeepsInv ==
  ASSUME ScreenInv, KeyEnter
  PROVE  ScreenInv'
  <1>1. 0 \in 0 .. KEYBOARD_BUFFER_SIZE - 1
    BY ScreenAssumption
  <1> QED
    BY <1>1, KeyEchoKeepsInv DEF KeyEnter, SetLine

LEMMA KeyCharFullKeepsInv ==
  ASSUME ScreenInv, KeyCharFull
  PROVE  ScreenInv'
  <1> DEFINE v == visible_terminal
             s == ScreenOf(v)
             r == scroll_down(wraparound(s))
             idx == keyboard_cursor_idx[v]
  <1>1. ScreenTypeOK /\ v \in Terminals
    BY DEF ScreenInv, ScreenTypeOK
  <1>2. s \in Screens /\ s.pos = at[v]
    BY <1>1, ScreenOfType
  <1>3. idx \in 0 .. KEYBOARD_BUFFER_SIZE - 1 /\ idx # 0
          /\ keyboard_cursor_idx' = [keyboard_cursor_idx EXCEPT ![v] = idx]
    BY <1>1, ScreenAssumption DEF KeyCharFull, ScreenTypeOK
  <1>4. Settled(s.pos)
    BY <1>1, <1>2, <1>3 DEF ScreenInv, CursorInv
  <1>5. r \in Screens /\ r.pos.x = s.pos.x /\ r.pos.y = s.pos.y
          /\ Due(r.pos) /\ Settled(r.pos)
    BY <1>2, <1>4, SettledStays
  <1>6. Show(v, r)
    BY DEF KeyCharFull
  <1> HIDE DEF r, idx
  <1>7. at'[v] = r.pos /\ visible_terminal' = v
    BY <1>1, <1>6 DEF Show, ScreenTypeOK
  <1>8. HardwareCursorTruthful'
    BY <1>2, <1>5, <1>7 DEF HardwareCursorTruthful, Place, ScreenInv, KeyCharFull
  <1>9. re_echo' \in [Terminals -> 0 .. KEYBOARD_BUFFER_SIZE - 1]
    BY ReEchoUnchanged DEF KeyCharFull
  <1> QED
    BY <1>1, <1>3, <1>5, <1>6, <1>8, <1>9, ShowKeepsInv

LEMMA KeyBackspaceKeepsInv ==
  ASSUME ScreenInv, KeyBackspace
  PROVE  ScreenInv'
  <1> DEFINE v == visible_terminal
             s == ScreenOf(v)
             idx == keyboard_cursor_idx[v]
             r == backspace(s, idx)
             i == idx - 1
  <1>1. ScreenTypeOK /\ v \in Terminals
    BY DEF ScreenInv, ScreenTypeOK
  <1>2. s \in Screens /\ s.pos = at[v]
    BY <1>1, ScreenOfType
  <1>3. i \in 0 .. KEYBOARD_BUFFER_SIZE - 1 /\ idx # 0
          /\ keyboard_cursor_idx' = [keyboard_cursor_idx EXCEPT ![v] = i]
    BY <1>1, ScreenAssumption DEF KeyBackspace, SetLine, ScreenTypeOK
  <1>4. Due(s.pos) /\ Settled(s.pos)
    BY <1>1, <1>2, <1>3 DEF ScreenInv, CursorInv
  <1>5. r \in Screens /\ Due(r.pos) /\ Settled(r.pos)
    <2>1. CASE CanStepBack(s, idx)
      BY <2>1, <1>2, BackspaceMoves
    <2>2. CASE ~CanStepBack(s, idx)
      BY <2>2, <1>2, <1>4, BackspaceMoves
    <2> QED
      BY <2>1, <2>2
  <1>6. Show(v, r) /\ HardwareCursorTruthful' /\ UNCHANGED re_echo
    BY UpdateCursorTruthful DEF KeyBackspace
  <1> HIDE DEF r, i
  <1> QED
    BY <1>1, <1>3, <1>5, <1>6, ReEchoUnchanged, ShowKeepsInv

LEMMA KeyLeftKeepsInv ==
  ASSUME ScreenInv, KeyLeft
  PROVE  ScreenInv'
  <1> DEFINE v == visible_terminal
             s == ScreenOf(v)
             idx == keyboard_cursor_idx[v]
             r == left_arrow(s, idx)
             i == idx - 1
  <1>1. ScreenTypeOK /\ v \in Terminals
    BY DEF ScreenInv, ScreenTypeOK
  <1>2. s \in Screens /\ s.pos = at[v]
    BY <1>1, ScreenOfType
  <1>3. i \in 0 .. KEYBOARD_BUFFER_SIZE - 1 /\ idx # 0
          /\ keyboard_cursor_idx' = [keyboard_cursor_idx EXCEPT ![v] = i]
    BY <1>1, ScreenAssumption DEF KeyLeft, SetLine, ScreenTypeOK
  <1>4. Due(s.pos) /\ Settled(s.pos)
    BY <1>1, <1>2, <1>3 DEF ScreenInv, CursorInv
  <1>5. r \in Screens /\ Due(r.pos) /\ Settled(r.pos)
    BY <1>2, <1>4, LeftArrowMoves
  <1>6. Show(v, r) /\ HardwareCursorTruthful' /\ UNCHANGED re_echo
    BY UpdateCursorTruthful DEF KeyLeft
  <1> HIDE DEF r, i
  <1> QED
    BY <1>1, <1>3, <1>5, <1>6, ReEchoUnchanged, ShowKeepsInv

LEMMA KeyRightKeepsInv ==
  ASSUME ScreenInv, KeyRight, at[visible_terminal].x # NUM_COLS - 1
  PROVE  ScreenInv'
  <1> DEFINE v == visible_terminal
             s == ScreenOf(v)
             idx == keyboard_cursor_idx[v]
             r == right_arrow(s, idx)
             i == idx + 1
  <1>1. ScreenTypeOK /\ v \in Terminals
    BY DEF ScreenInv, ScreenTypeOK
  <1>2. s \in Screens /\ s.pos = at[v]
    BY <1>1, ScreenOfType
  <1>3. idx \in 0 .. KEYBOARD_BUFFER_SIZE - 1 /\ idx < KEYBOARD_BUFFER_SIZE - 1
    BY <1>1 DEF KeyRight, ScreenTypeOK
  <1>4. idx # KEYBOARD_BUFFER_SIZE - 1 /\ i \in 0 .. KEYBOARD_BUFFER_SIZE - 1
    BY <1>3, ScreenAssumption
  <1>5. r \in Screens /\ r # s /\ Due(r.pos) /\ Settled(r.pos)
    BY <1>2, <1>4, RightArrowMoves
  <1>6. keyboard_cursor_idx' = [keyboard_cursor_idx EXCEPT ![v] = i]
    BY <1>5 DEF KeyRight, SetLine
  <1>7. Show(v, r) /\ HardwareCursorTruthful' /\ UNCHANGED re_echo
    BY UpdateCursorTruthful DEF KeyRight
  <1> HIDE DEF r, i
  <1> QED
    BY <1>1, <1>4, <1>5, <1>6, <1>7, ReEchoUnchanged, ShowKeepsInv

LEMMA KeyCtrlLKeepsInv ==
  ASSUME ScreenInv, KeyCtrlL
  PROVE  ScreenInv'
  <1> DEFINE v == visible_terminal
             r == clear(ScreenOf(v))
  <1>1. ScreenTypeOK /\ v \in Terminals
    BY DEF ScreenInv, ScreenTypeOK
  <1>2. ScreenOf(v) \in Screens
    BY <1>1, ScreenOfType
  <1>3. r \in Screens /\ Due(r.pos)
    BY <1>2, ClearMoves
  <1>4. Show(v, r) /\ HardwareCursorTruthful'
    BY UpdateCursorTruthful DEF KeyCtrlL
  <1>5. 0 \in 0 .. KEYBOARD_BUFFER_SIZE - 1
          /\ keyboard_cursor_idx' = [keyboard_cursor_idx EXCEPT ![v] = 0]
    BY ScreenAssumption DEF KeyCtrlL, SetLine
  <1>6. re_echo' \in [Terminals -> 0 .. KEYBOARD_BUFFER_SIZE - 1]
    BY <1>1 DEF KeyCtrlL, ScreenTypeOK
  <1> HIDE DEF r
  <1> QED
    BY <1>1, <1>3, <1>4, <1>5, <1>6, ShowKeepsInv

LEMMA ReEchoKeepsInv ==
  ASSUME ScreenInv, NEW t \in Terminals, ReEcho(t)
  PROVE  ScreenInv'
  <1> DEFINE s == ScreenOf(t)
             n == re_echo[t]
  <1>1. ScreenTypeOK
    BY DEF ScreenInv
  <1>2. s \in Screens
    BY <1>1, ScreenOfType
  <1>3. n \in 0 .. KEYBOARD_BUFFER_SIZE - 1 /\ n \in Nat /\ n # 0
    BY <1>1, ScreenAssumption DEF ScreenTypeOK, ReEcho
  <1>4. PICK saved \in [1 .. n -> Chars] :
          Show(t, (CHOOSE g : IsWriting(g, s, n, saved))[n])
    BY DEF ReEcho, IsWriting
  <1> DEFINE g == CHOOSE h : IsWriting(h, s, n, saved)
  <1>5. IsWriting(g, s, n, saved)
    BY <1>3, WritingExists
  <1>6. Show(t, g[n])
    BY <1>4
  <1> HIDE DEF g
  <1>7. g[n] \in Screens /\ Due(g[n].pos) /\ Settled(g[n].pos)
    BY <1>2, <1>3, <1>5, WritingMoves
  <1>8. HardwareCursorTruthful'
    BY UpdateCursorTruthful DEF ReEcho
  <1>9. keyboard_cursor_idx' = [keyboard_cursor_idx EXCEPT ![t] = n]
    BY DEF ReEcho, SetLine
  <1>10. re_echo' \in [Terminals -> 0 .. KEYBOARD_BUFFER_SIZE - 1]
    BY <1>1, ScreenAssumption DEF ReEcho, ScreenTypeOK
  <1> HIDE DEF n
  <1> QED
    BY <1>3, <1>6, <1>7, <1>8, <1>9, <1>10, ShowKeepsInv

LEMMA WriteTerminalKeepsInv ==
  ASSUME ScreenInv, NEW t \in Terminals, NEW c \in Chars \cup {NEWLINE},
         WriteTerminal(t, c)
  PROVE  ScreenInv'
  <1> DEFINE r == putc(ScreenOf(t), c)
             idx == keyboard_cursor_idx[t]
  <1>1. ScreenTypeOK
    BY DEF ScreenInv
  <1>2. ScreenOf(t) \in Screens
    BY <1>1, ScreenOfType
  <1>3. r \in Screens /\ Due(r.pos) /\ Settled(r.pos)
    BY <1>2, PutcMoves
  <1>4. Show(t, r) /\ HardwareCursorTruthful' /\ UNCHANGED re_echo
    BY UpdateCursorTruthful DEF WriteTerminal
  <1>5. idx \in 0 .. KEYBOARD_BUFFER_SIZE - 1
          /\ keyboard_cursor_idx' = [keyboard_cursor_idx EXCEPT ![t] = idx]
    BY <1>1 DEF WriteTerminal, ScreenTypeOK
  <1> HIDE DEF r, idx
  <1> QED
    BY <1>3, <1>4, <1>5, ReEchoUnchanged, ShowKeepsInv

LEMMA SwitchKeepsInv ==
  ASSUME ScreenInv, NEW t \in Terminals, switch_terminal(t)
  PROVE  ScreenInv'
  <1>1. ScreenTypeOK'
    BY DEF ScreenInv, ScreenTypeOK, switch_terminal
  <1>2. CursorInv'
    BY DEF ScreenInv, CursorInv, switch_terminal
  <1>3. HardwareCursorTruthful'
    BY UpdateCursorTruthful DEF switch_terminal
  <1> QED
    BY <1>1, <1>2, <1>3 DEF ScreenInv

LEMMA ScreenInvInit ==
  ASSUME ScreenInit
  PROVE  ScreenInv
  <1>1. [x |-> 0, y |-> 0, forward_next |-> 1, backward_next |-> NUM_COLS] \in Cursors
    BY ScreenAssumption DEF Cursors
  <1>2. EmptyPage \in Texts
    BY DEF EmptyPage, Texts, Cells
  <1>3. 0 \in Terminals /\ 0 \in 0 .. KEYBOARD_BUFFER_SIZE - 1
    BY ScreenAssumption DEF Terminals
  <1>4. ScreenTypeOK
    BY <1>1, <1>2, <1>3 DEF ScreenInit, ScreenTypeOK
  <1>5. CursorInv
    BY ScreenAssumption DEF ScreenInit, CursorInv, Due, Settled
  <1>6. HardwareCursorTruthful
    BY <1>3, ScreenAssumption DEF ScreenInit, HardwareCursorTruthful, Place
  <1> QED
    BY <1>4, <1>5, <1>6 DEF ScreenInv

LEMMA ScreenInvStep ==
  ASSUME ScreenInv, [RowNext]_svars
  PROVE  ScreenInv'
  <1>1. CASE UNCHANGED svars
    BY <1>1 DEF svars, ScreenInv, ScreenTypeOK, CursorInv, HardwareCursorTruthful
  <1>2. CASE PressKey /\ StaysInRow
    <2>1. ASSUME NEW c \in Chars, KeyChar(c) PROVE ScreenInv'
      BY <2>1, KeyCharKeepsInv
    <2>2. CASE KeyRight
      BY <1>2, <2>2, KeyRightKeepsInv DEF StaysInRow
    <2> QED
      BY <1>2, <2>1, <2>2, KeyCharFullKeepsInv, KeyEnterKeepsInv, KeyBackspaceKeepsInv,
         KeyLeftKeepsInv, KeyCtrlLKeepsInv DEF PressKey
  <1>3. CASE OtherStep
    BY <1>3, WriteTerminalKeepsInv, ReEchoKeepsInv, SwitchKeepsInv DEF OtherStep
  <1> QED
    BY <1>1, <1>2, <1>3 DEF RowNext

LEMMA ScreenInvariant == RowSpec => []ScreenInv
  BY ScreenInvInit, ScreenInvStep, PTL DEF RowSpec

-----------------------------------------------------------------------------
\* The cursor of every terminal stays on its screen: putc, wraparound and
\* scroll_down bring it back whatever is typed and written.
THEOREM CursorsStayOnScreen == RowSpec => []CursorOnScreen
  <1>1. ASSUME ScreenInv PROVE CursorOnScreen
    BY <1>1 DEF ScreenInv, ScreenTypeOK, Cursors, CursorOnScreen
  <1> QED
    BY <1>1, ScreenInvariant, PTL

\* The hardware cursor is where the visible terminal's next character goes, also
\* after the calls of wraparound and scroll_down that do not update it.
THEOREM CursorTruthful == RowSpec => []HardwareCursorTruthful
  <1>1. ASSUME ScreenInv PROVE HardwareCursorTruthful
    BY <1>1 DEF ScreenInv
  <1> QED
    BY <1>1, ScreenInvariant, PTL

\* From every reachable screen, backspace takes back the character just typed.
THEOREM KeysUndone == RowSpec => []BackspaceUndoesKey
  <1>1. ASSUME ScreenInv PROVE BackspaceUndoesKey
    <2> DEFINE v == visible_terminal
               s == ScreenOf(v)
               idx == keyboard_cursor_idx[v]
               scrolls == s.pos.x = NUM_COLS - 1 /\ s.pos.y = NUM_ROWS - 1
    <2> SUFFICES ASSUME NEW c \in Chars
                 PROVE  Place(backspace(Echoed(s, c), idx + 1).pos)
                          = Place(s.pos) - (IF scrolls THEN NUM_COLS ELSE 0)
      BY DEF BackspaceUndoesKey
    <2> DEFINE e == Echoed(s, c)
    <2>1. ScreenTypeOK /\ v \in Terminals
      BY <1>1 DEF ScreenInv, ScreenTypeOK
    <2>2. s \in Screens /\ s.pos = at[v]
      BY <2>1, ScreenOfType
    <2>3. s.pos.x \in 0 .. NUM_COLS - 1 /\ s.pos.y \in 0 .. NUM_ROWS - 1 /\ Due(s.pos)
      BY <1>1, <2>1, <2>2 DEF Screens, Cursors, ScreenInv, CursorInv
    <2>4. c # NEWLINE
      BY ScreenAssumption
    <2>5. idx + 1 # 0
      BY <2>1 DEF ScreenTypeOK
    <2>6. /\ s.pos.x < NUM_COLS - 1 => e.pos.x = s.pos.x + 1 /\ e.pos.y = s.pos.y
          /\ s.pos.x = NUM_COLS - 1 =>
               /\ e.pos.x = 0
               /\ e.pos.y = IF s.pos.y = NUM_ROWS - 1 THEN NUM_ROWS - 1
                                                      ELSE s.pos.y + 1
          /\ e \in Screens
      BY <2>2, <2>3, <2>4, EchoedMoves, PutcMoves, SMTT(20)
    <2> HIDE DEF s, e, idx
    <2>7. CanStepBack(e, idx + 1)
      BY <2>3, <2>5, <2>6, ScreenAssumption DEF CanStepBack
    <2>8. Place(backspace(e, idx + 1).pos) = Place(e.pos) - 1
      BY <2>6, <2>7, BackspaceMoves
    <2>9. Place(e.pos) - 1 = Place(s.pos) - (IF scrolls THEN NUM_COLS ELSE 0)
      <3>1. /\ s.pos.y * NUM_COLS \in Int
            /\ (s.pos.y + 1) * NUM_COLS = s.pos.y * NUM_COLS + NUM_COLS
        BY <2>3, ScreenAssumption
      <3>2. CASE s.pos.x < NUM_COLS - 1
        <4>1. ~scrolls
          BY <3>2, <2>3, ScreenAssumption
        <4>2. e.pos.x = s.pos.x + 1 /\ e.pos.y = s.pos.y
          BY <3>2, <2>6
        <4>3. Place(e.pos) - 1 = Place(s.pos)
          BY <3>1, <4>2, <2>3, ScreenAssumption DEF Place
        <4>4. Place(s.pos) - 0 = Place(s.pos)
          BY <3>1, <2>3, ScreenAssumption DEF Place
        <4> QED
          BY <4>1, <4>3, <4>4
      <3>3. CASE s.pos.x = NUM_COLS - 1 /\ s.pos.y # NUM_ROWS - 1
        BY <3>1, <3>3, <2>3, <2>6, ScreenAssumption DEF Place
      <3>4. CASE s.pos.x = NUM_COLS - 1 /\ s.pos.y = NUM_ROWS - 1
        BY <3>1, <3>4, <2>3, <2>6, ScreenAssumption DEF Place
      <3> QED
        BY <3>2, <3>3, <3>4, <2>3, ScreenAssumption
    <2> QED
      BY <2>8, <2>9 DEF e
  <1> QED
    BY <1>1, ScreenInvariant, PTL

-----------------------------------------------------------------------------
(* The screens of the terminals, whatever keys are pressed.                 *)

BuffersInv ==
  /\ visible_terminal \in Terminals
  /\ at = [t \in Terminals |-> at[t]]
  /\ video_buf = [t \in Terminals |-> video_buf[t]]

\* Every step but a switch shows the screen of one terminal.
ShowsOne == \E t \in Terminals : \E s : Show(t, s)

LEMMA StepsShowOne ==
  ASSUME BuffersInv, ScreenNext
  PROVE  ShowsOne \/ \E t \in Terminals : switch_terminal(t)
  <1>1. ASSUME PressKey PROVE ShowsOne
    BY <1>1 DEF BuffersInv, PressKey, KeyChar, KeyCharFull, KeyEnter, KeyBackspace,
                KeyLeft, KeyRight, KeyCtrlL, ShowsOne
  <1>2. ASSUME NEW t \in Terminals, NEW c, WriteTerminal(t, c) PROVE ShowsOne
    BY <1>2 DEF WriteTerminal, ShowsOne
  <1>3. ASSUME NEW t \in Terminals, ReEcho(t) PROVE ShowsOne
    BY <1>3 DEF ReEcho, ShowsOne
  <1> QED
    BY <1>1, <1>2, <1>3 DEF ScreenNext, OtherStep

LEMMA BuffersStep ==
  ASSUME BuffersInv, [ScreenNext]_svars
  PROVE  BuffersInv'
  <1>1. CASE UNCHANGED svars
    BY <1>1 DEF svars, BuffersInv
  <1>2. ASSUME NEW t \in Terminals, NEW s, Show(t, s) PROVE BuffersInv'
    <2>1. at' = [u \in Terminals |-> IF u = t THEN s.pos ELSE at[u]]
            /\ visible_terminal' = visible_terminal
      BY <1>2 DEF Show, BuffersInv
    <2>2. video_buf' = video_buf
            \/ video_buf' = [u \in Terminals |-> IF u = t THEN s.text ELSE video_buf[u]]
      BY <1>2 DEF Show, BuffersInv
    <2> QED
      BY <2>1, <2>2 DEF BuffersInv
  <1>3. ASSUME NEW t \in Terminals, switch_terminal(t) PROVE BuffersInv'
    <2>1. video_buf' = [u \in Terminals |->
                          IF u = visible_terminal THEN VIDEO ELSE video_buf[u]]
      BY <1>3 DEF switch_terminal, BuffersInv
    <2> QED
      BY <1>3, <2>1 DEF switch_terminal, BuffersInv
  <1> QED
    BY <1>1, <1>2, <1>3, StepsShowOne DEF ShowsOne

\* Output and keys change one terminal's screen, and switch_terminal none: what
\* is in video memory and what is in the buffers is never mixed up.
THEOREM ScreensApart == ScreenSpec => ScreensSeparate
  <1>1. ASSUME ScreenInit PROVE BuffersInv
    BY <1>1, ScreenAssumption DEF ScreenInit, BuffersInv, Terminals
  <1>2. ASSUME BuffersInv, [ScreenNext]_svars
        PROVE  [\A t \in Terminals :
                  ScreenOf(t)' # ScreenOf(t) =>
                    /\ visible_terminal' = visible_terminal
                    /\ \A u \in Terminals \ {t} : ScreenOf(u)' = ScreenOf(u)]_svars
    <2>1. ASSUME NEW t \in Terminals, NEW s, Show(t, s)
          PROVE  /\ visible_terminal' = visible_terminal
                 /\ \A u \in Terminals \ {t} : ScreenOf(u)' = ScreenOf(u)
      <3>1. visible_terminal' = visible_terminal
        BY <2>1 DEF Show
      <3>2. ASSUME NEW u \in Terminals \ {t} PROVE ScreenOf(u)' = ScreenOf(u)
        <4>1. at'[u] = at[u]
          BY <2>1, <3>2, <1>2 DEF Show, BuffersInv
        <4>2. Text(u)' = Text(u)
          BY <2>1, <3>2, <1>2 DEF Show, BuffersInv, Text
        <4> QED
          BY <4>1, <4>2 DEF ScreenOf
      <3> QED
        BY <3>1, <3>2
    <2>2. ASSUME NEW t \in Terminals, switch_terminal(t), NEW u \in Terminals
          PROVE  ScreenOf(u)' = ScreenOf(u)
      <3>1. at'[u] = at[u]
        BY <2>2 DEF switch_terminal
      <3>2. Text(u)' = Text(u)
        <4>1. video_buf' = [w \in Terminals |->
                              IF w = visible_terminal THEN VIDEO ELSE video_buf[w]]
          BY <2>2, <1>2 DEF switch_terminal, BuffersInv
        <4>2. VIDEO' = video_buf[t] /\ visible_terminal' = t /\ t # visible_terminal
          BY <2>2 DEF switch_terminal
        <4> QED
          BY <4>1, <4>2 DEF Text
      <3> QED
        BY <3>1, <3>2 DEF ScreenOf
    <2>3. CASE UNCHANGED svars
      BY <2>3
    <2>4. CASE ShowsOne
      BY <2>4, <2>1 DEF ShowsOne
    <2>5. CASE \E t \in Terminals : switch_terminal(t)
      BY <2>5, <2>2
    <2> QED
      BY <1>2, <2>3, <2>4, <2>5, StepsShowOne
  <1> QED
    BY <1>1, <1>2, BuffersStep, PTL DEF ScreenSpec, ScreensSeparate
=============================================================================
