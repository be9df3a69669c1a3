----------------------------- MODULE LineProofs -----------------------------
(***************************************************************************)
(* Proofs about the line discipline, for any number of terminals and any   *)
(* length of a line: the indices stay within bounds however the user       *)
(* types, and for users who type while a process reads the cursor is in    *)
(* its line, no length is negative, characters are echoed exactly if they  *)
(* are stored, and every step is one of LineEditor or none.                *)
(***************************************************************************)
EXTENDS LineRefinement, SequenceTheorems, WellFoundedInduction, TLAPS

\* Lines of at most n cells.
Lines(n) == {s \in Seq(Cells) : Len(s) <= n}

\* Cursor i, end e and distance d of one line.  The end lags behind the cursor
\* by less than a row, and only if it once was in front of it by that much.
IndexOK(i, e, d) ==
  /\ i \in 0 .. KEYBOARD_BUFFER_SIZE
  /\ e \in 1 - KEYBOARD_BUFFER_SIZE .. KEYBOARD_BUFFER_SIZE
  /\ d \in Nat
  /\ i = KEYBOARD_BUFFER_SIZE => e = KEYBOARD_BUFFER_SIZE
  /\ e <= i + d
  /\ e < 0 => i + d - e <= KEYBOARD_BUFFER_SIZE - 1

IndexInv ==
  /\ keyboard_cursor_idx \in [Terminals -> Int]
  /\ keyboard_buffer_end_idx \in [Terminals -> Int]
  /\ distance_from_right \in [Terminals -> Nat]
  /\ \A t \in Terminals :
       IndexOK(keyboard_cursor_idx[t], keyboard_buffer_end_idx[t],
               distance_from_right[t])

BufferInv ==
  /\ temp_kbd_buf \in [Terminals -> Lines(KEYBOARD_BUFFER_SIZE)]
  /\ last_buf \in [Terminals -> Lines(KEYBOARD_BUFFER_SIZE - 1)]
  /\ current_buf \in [Terminals -> Lines(KEYBOARD_BUFFER_SIZE)]

MemoryInv ==
  visible_terminal \in Terminals /\ keyboard_buffer \in [Addresses -> Cells]

LineInv == IndexInv /\ BufferInv /\ MemoryInv

-----------------------------------------------------------------------------
(* The rows of keyboard_buffer.                                             *)

\* A row, with the byte behind it, is in the modelled memory.
LEMMA AddrInMemory ==
  ASSUME NEW t \in Terminals, NEW i \in 0 .. KEYBOARD_BUFFER_SIZE
  PROVE  Addr(t, i) \in Addresses /\ Addr(t, i) \in Int
  <1>1. t * KEYBOARD_BUFFER_SIZE \in Nat
    BY LineAssumption DEF Terminals
  <1>2. t * KEYBOARD_BUFFER_SIZE + KEYBOARD_BUFFER_SIZE
          = (t + 1) * KEYBOARD_BUFFER_SIZE
    BY LineAssumption DEF Terminals
  <1>3. (t + 1) * KEYBOARD_BUFFER_SIZE <= NUM_TERMINALS * KEYBOARD_BUFFER_SIZE
    <2>1. t + 1 <= NUM_TERMINALS /\ t + 1 \in Nat /\ NUM_TERMINALS \in Nat
            /\ KEYBOARD_BUFFER_SIZE \in Nat
      BY LineAssumption DEF Terminals
    <2>2. \A a, b, c \in Nat : a <= b => a * c <= b * c
      OBVIOUS
    <2> QED
      BY <2>1, <2>2
  <1>4. NUM_TERMINALS * KEYBOARD_BUFFER_SIZE \in Nat
    BY LineAssumption
  <1> QED
    BY <1>1, <1>2, <1>3, <1>4, LineAssumption DEF Addr, Addresses

LEMMA RowIsLine ==
  ASSUME NEW kb \in [Addresses -> Cells], NEW t \in Terminals,
         NEW n \in 0 .. KEYBOARD_BUFFER_SIZE
  PROVE  /\ Row(kb, t, n) \in Lines(n)
         /\ Len(Row(kb, t, n)) = n
         /\ \A i \in 1 .. n : Row(kb, t, n)[i] = kb[Addr(t, i - 1)]
  <1>1. \A i \in 1 .. n : kb[Addr(t, i - 1)] \in Cells
    <2> TAKE i \in 1 .. n
    <2>1. i - 1 \in 0 .. KEYBOARD_BUFFER_SIZE
      BY LineAssumption
    <2> QED
      BY <2>1, AddrInMemory
  <1>2. n \in Nat
    OBVIOUS
  <1>3. Row(kb, t, n) = [i \in 1 .. n |-> kb[Addr(t, i - 1)]]
    BY DEF Row
  <1>4. Row(kb, t, n) \in Seq(Cells) /\ Len(Row(kb, t, n)) = n
    BY <1>1, <1>2, <1>3
  <1> QED
    BY <1>2, <1>3, <1>4 DEF Lines

LEMMA MemsetType ==
  ASSUME NEW kb \in [Addresses -> Cells], NEW t, NEW n
  PROVE  Memset(kb, t, n) \in [Addresses -> Cells]
  BY DEF Memset, Cells

LEMMA MemcpyType ==
  ASSUME NEW kb \in [Addresses -> Cells], NEW t \in Terminals,
         NEW s \in Lines(KEYBOARD_BUFFER_SIZE)
  PROVE  Memcpy(kb, t, s) \in [Addresses -> Cells]
  <1>1. s \in Seq(Cells) /\ Len(s) \in 0 .. KEYBOARD_BUFFER_SIZE
          /\ Len(s) \in Nat
    BY DEF Lines
  <1>2. Addr(t, 0) \in Int /\ Addr(t, Len(s)) = Addr(t, 0) + Len(s)
    BY <1>1, LineAssumption DEF Addr, Terminals
  <1>3. ASSUME NEW a \in Addresses, a \in Addr(t, 0) .. Addr(t, Len(s)) - 1
        PROVE  s[a - Addr(t, 0) + 1] \in Cells
    <2>1. a - Addr(t, 0) + 1 \in 1 .. Len(s)
      BY <1>1, <1>2, <1>3
    <2> QED
      BY <1>1, <2>1
  <1> QED
    BY <1>3 DEF Memcpy

LEMMA EmptyUpTo ==
  ASSUME NEW stop
  PROVE  Len(UpTo(<< >>, stop)) = 0
  <1> DEFINE P(m) == /\ \A i \in 1 .. m : << >>[i] \notin stop
                     /\ m < Len(<< >>) => << >>[m + 1] \in stop
             n == CHOOSE m \in 0 .. Len(<< >>) : P(m)
  <1>1. 0 \in 0 .. Len(<< >>) /\ P(0)
    OBVIOUS
  <1>2. n \in 0 .. Len(<< >>)
    <2> HIDE DEF P
    <2> QED
      BY <1>1
  <1>3. n = 0
    BY <1>2
  <1>4. UpTo(<< >>, stop) = SubSeq(<< >>, 1, n)
    BY DEF UpTo
  <1> QED
    BY <1>3, <1>4

-----------------------------------------------------------------------------
(* The actions keep the bounds.                                             *)

\* A step that leaves one line's indices in order keeps them all in order.
LEMMA IndexStep ==
  ASSUME IndexInv, NEW v \in Terminals, NEW i, NEW e, NEW d, IndexOK(i, e, d),
         keyboard_cursor_idx' = [keyboard_cursor_idx EXCEPT ![v] = i],
         keyboard_buffer_end_idx' = [keyboard_buffer_end_idx EXCEPT ![v] = e],
         distance_from_right' = [distance_from_right EXCEPT ![v] = d]
  PROVE  IndexInv'
  <1>1. i \in Int /\ e \in Int /\ d \in Nat
    BY LineAssumption DEF IndexOK
  <1>2. /\ keyboard_cursor_idx' \in [Terminals -> Int]
        /\ keyboard_buffer_end_idx' \in [Terminals -> Int]
        /\ distance_from_right' \in [Terminals -> Nat]
    BY <1>1 DEF IndexInv
  <1>3. ASSUME NEW t \in Terminals
        PROVE  IndexOK(keyboard_cursor_idx'[t], keyboard_buffer_end_idx'[t],
                       distance_from_right'[t])
    <2>1. CASE t = v
      BY <2>1 DEF IndexInv
    <2>2. CASE t # v
      BY <2>2 DEF IndexInv
    <2> QED
      BY <2>1, <2>2
  <1> QED
    BY <1>2, <1>3 DEF IndexInv

LEMMA IndicesOf ==
  ASSUME IndexInv, NEW t \in Terminals
  PROVE  /\ IndexOK(keyboard_cursor_idx[t], keyboard_buffer_end_idx[t],
                    distance_from_right[t])
         /\ keyboard_cursor_idx' = keyboard_cursor_idx =>
              keyboard_cursor_idx' = [keyboard_cursor_idx EXCEPT ![t] = keyboard_cursor_idx[t]]
         /\ keyboard_buffer_end_idx' = keyboard_buffer_end_idx =>
              keyboard_buffer_end_idx' =
                [keyboard_buffer_end_idx EXCEPT ![t] = keyboard_buffer_end_idx[t]]
         /\ distance_from_right' = distance_from_right =>
              distance_from_right' = [distance_from_right EXCEPT ![t] = distance_from_right[t]]
  BY DEF IndexInv

\* The lines the code puts in place of another one.
LEMMA ReplacedIndex ==
  ASSUME NEW n \in 0 .. KEYBOARD_BUFFER_SIZE, NEW d \in Nat
  PROVE  IndexOK(n, n, d)
  BY LineAssumption DEF IndexOK

LEMMA ReplaceLineKeepsInv ==
  ASSUME LineInv, NEW v \in Terminals, NEW s \in Lines(KEYBOARD_BUFFER_SIZE),
         NEW n, ReplaceLine(v, s, n),
         UNCHANGED <<visible_terminal, temp_kbd_buf, last_buf, current_buf>>
  PROVE  LineInv'
  <1>1. Len(s) \in 0 .. KEYBOARD_BUFFER_SIZE /\ 0 \in Nat
    BY DEF Lines
  <1>2. IndexInv'
    BY <1>1, ReplacedIndex, IndexStep DEF LineInv, ReplaceLine
  <1>3. MemoryInv'
    BY MemsetType, MemcpyType DEF LineInv, MemoryInv, ReplaceLine
  <1> QED
    BY <1>2, <1>3 DEF LineInv, BufferInv

LEMMA UpDownKeepInv ==
  ASSUME LineInv, NEW v \in Terminals, PressUp(v) \/ PressDown(v)
  PROVE  LineInv'
  <1>1. last_buf[v] \in Lines(KEYBOARD_BUFFER_SIZE)
          /\ current_buf[v] \in Lines(KEYBOARD_BUFFER_SIZE)
    BY LineAssumption DEF LineInv, BufferInv, Lines
  <1>2. CASE PressUp(v)
    BY <1>1, <1>2, ReplaceLineKeepsInv DEF PressUp, tempVars
  <1>3. CASE PressDown(v)
    BY <1>1, <1>3, ReplaceLineKeepsInv DEF PressDown, tempVars
  <1> QED
    BY <1>2, <1>3

LEMMA EraseTypedKeeps ==
  ASSUME BufferInv, NEW v \in Terminals, EraseTyped(v)
  PROVE  temp_kbd_buf' \in [Terminals -> Lines(KEYBOARD_BUFFER_SIZE)]
  <1>1. CASE temp_kbd_buf[v] # << >>
    <2> DEFINE s == temp_kbd_buf[v]
               r == SubSeq(s, 1, Len(s) - 1)
    <2>1. s \in Seq(Cells) /\ Len(s) <= KEYBOARD_BUFFER_SIZE /\ Len(s) \in Nat /\ s # << >>
      BY <1>1 DEF BufferInv, Lines
    <2> HIDE DEF s
    <2>2. r \in Lines(KEYBOARD_BUFFER_SIZE)
      BY <2>1, LineAssumption DEF Lines
    <2> HIDE DEF r
    <2> QED
      BY <2>2 DEF BufferInv, EraseTyped, s, r
  <1>2. CASE temp_kbd_buf[v] = << >>
    BY <1>2 DEF BufferInv, EraseTyped
  <1> QED
    BY <1>1, <1>2

LEMMA BackspaceKeepsInv ==
  ASSUME LineInv, NEW v \in Terminals, PressBackspace(v)
  PROVE  LineInv'
  <1> DEFINE i == keyboard_cursor_idx[v]
             e == keyboard_buffer_end_idx[v]
             d == distance_from_right[v]
  <1>1. IndexOK(i, e, d)
    BY IndicesOf DEF LineInv
  <1>2. temp_kbd_buf' \in [Terminals -> Lines(KEYBOARD_BUFFER_SIZE)]
    BY EraseTypedKeeps DEF LineInv, PressBackspace, BackspaceAtEnd, BackspaceInside,
       BackspaceAtStart
  <1>3. UNCHANGED <<visible_terminal, last_buf, current_buf>>
    BY DEF PressBackspace, BackspaceAtEnd, BackspaceInside, BackspaceAtStart, historyVars
  <1>4. keyboard_buffer' \in [Addresses -> Cells]
    BY DEF PressBackspace, BackspaceAtEnd, BackspaceInside, BackspaceAtStart, lineVars,
       LineInv, MemoryInv, Cells
  <1>5. BufferInv' /\ MemoryInv'
    BY <1>2, <1>3, <1>4 DEF LineInv, BufferInv, MemoryInv
  <1>6. IndexInv'
    <2>1. CASE BackspaceAtEnd(v)
      <3>1. /\ keyboard_cursor_idx' = [keyboard_cursor_idx EXCEPT ![v] = i - 1]
            /\ keyboard_buffer_end_idx' = [keyboard_buffer_end_idx EXCEPT ![v] = e - 1]
            /\ distance_from_right' = [distance_from_right EXCEPT ![v] = d]
            /\ i > 0 /\ d = 0
        BY <2>1, IndicesOf DEF BackspaceAtEnd, LineInv
      <3> HIDE DEF i, e, d
      <3>2. IndexOK(i - 1, e - 1, d)
        BY <1>1, <3>1, LineAssumption DEF IndexOK
      <3> QED
        BY <3>1, <3>2, IndexStep DEF LineInv
    <2>2. CASE BackspaceInside(v)
      <3>1. /\ keyboard_cursor_idx' = [keyboard_cursor_idx EXCEPT ![v] = i - 1]
            /\ keyboard_buffer_end_idx' = [keyboard_buffer_end_idx EXCEPT ![v] = e]
            /\ distance_from_right' = [distance_from_right EXCEPT ![v] = d + 1]
            /\ i > 0
        BY <2>2, IndicesOf DEF BackspaceInside, LineInv
      <3> HIDE DEF i, e, d
      <3>2. IndexOK(i - 1, e, d + 1)
        BY <1>1, <3>1, LineAssumption DEF IndexOK
      <3> QED
        BY <3>1, <3>2, IndexStep DEF LineInv
    <2>3. CASE BackspaceAtStart(v)
      BY <2>3 DEF BackspaceAtStart, lineVars, LineInv, IndexInv
    <2> QED
      BY <2>1, <2>2, <2>3 DEF PressBackspace
  <1> QED
    BY <1>5, <1>6 DEF LineInv

LEMMA ArrowsKeepInv ==
  ASSUME LineInv, NEW v \in Terminals, PressLeft(v) \/ PressRight(v)
  PROVE  LineInv'
  <1> DEFINE i == keyboard_cursor_idx[v]
             e == keyboard_buffer_end_idx[v]
             d == distance_from_right[v]
  <1>1. IndexOK(i, e, d)
    BY IndicesOf DEF LineInv
  <1>2. UNCHANGED <<visible_terminal, temp_kbd_buf, last_buf, current_buf,
                    keyboard_buffer, keyboard_buffer_end_idx>>
    BY DEF PressLeft, PressRight, tempVars, historyVars
  <1>3. BufferInv' /\ MemoryInv'
    BY <1>2 DEF LineInv, BufferInv, MemoryInv
  <1>4. keyboard_buffer_end_idx' = [keyboard_buffer_end_idx EXCEPT ![v] = e]
    BY <1>2, IndicesOf DEF LineInv
  <1>5. IndexInv'
    <2>1. CASE PressLeft(v)
      <3>1. /\ keyboard_cursor_idx' = [keyboard_cursor_idx EXCEPT ![v] = i - 1]
            /\ distance_from_right' = [distance_from_right EXCEPT ![v] = d + 1]
            /\ i > 0
        BY <2>1 DEF PressLeft
      <3> HIDE DEF i, e, d
      <3>2. IndexOK(i - 1, e, d + 1)
        BY <1>1, <3>1, LineAssumption DEF IndexOK
      <3> QED
        BY <1>4, <3>1, <3>2, IndexStep DEF LineInv
    <2>2. CASE PressRight(v)
      <3>1. PICK r \in {0, 1} :
              /\ distance_from_right' = [distance_from_right EXCEPT ![v] = d - r]
              /\ keyboard_cursor_idx' = [keyboard_cursor_idx EXCEPT ![v] = i + r]
        BY <2>2 DEF PressRight
      <3>2. d > 0 /\ i < KEYBOARD_BUFFER_SIZE - 1
        BY <2>2 DEF PressRight, CanMoveRight
      <3> HIDE DEF i, e, d
      <3>3. IndexOK(i + r, e, d - r)
        BY <1>1, <3>2, LineAssumption DEF IndexOK
      <3> QED
        BY <1>4, <3>1, <3>3, IndexStep DEF LineInv
    <2> QED
      BY <2>1, <2>2
  <1> QED
    BY <1>3, <1>5 DEF LineInv

LEMMA CtrlLKeepsInv ==
  ASSUME LineInv, NEW v \in Terminals, PressCtrlL(v)
  PROVE  LineInv'
  <1> DEFINE i == keyboard_cursor_idx[v]
             d == distance_from_right[v]
             r == Row(keyboard_buffer, v, i)
  <1>1. i \in 0 .. KEYBOARD_BUFFER_SIZE /\ d \in Nat
    BY IndicesOf DEF LineInv, IndexOK
  <1>2. r \in Lines(KEYBOARD_BUFFER_SIZE)
    BY <1>1, RowIsLine DEF LineInv, MemoryInv, Lines
  <1>3. temp_kbd_buf' = [temp_kbd_buf EXCEPT ![v] = r]
    BY DEF PressCtrlL
  <1> HIDE DEF r
  <1>4. BufferInv'
    BY <1>2, <1>3 DEF LineInv, BufferInv, PressCtrlL, historyVars
  <1>5. MemoryInv'
    BY MemsetType DEF LineInv, MemoryInv, PressCtrlL
  <1>6. IndexOK(0, 0, d)
    BY <1>1, ReplacedIndex, LineAssumption
  <1>7. IndexInv'
    BY <1>6, IndicesOf, IndexStep DEF LineInv, PressCtrlL
  <1> QED
    BY <1>4, <1>5, <1>7 DEF LineInv

LEMMA SaveTypedKeeps ==
  ASSUME BufferInv, NEW v \in Terminals, NEW c \in Cells, SaveTyped(v, c)
  PROVE  temp_kbd_buf' \in [Terminals -> Lines(KEYBOARD_BUFFER_SIZE)]
  <1> DEFINE s == temp_kbd_buf[v]
  <1>1. s \in Seq(Cells) /\ Len(s) \in Nat
    BY DEF BufferInv, Lines
  <1>2. CASE TempHasRoom(v)
    <2>1. Len(s) < KEYBOARD_BUFFER_SIZE
      BY <1>2 DEF TempHasRoom
    <2> HIDE DEF s
    <2>2. Append(s, c) \in Lines(KEYBOARD_BUFFER_SIZE)
      BY <1>1, <2>1, LineAssumption DEF Lines
    <2> QED
      BY <2>2 DEF BufferInv, SaveTyped, s
  <1>3. CASE ~TempHasRoom(v)
    BY <1>3 DEF BufferInv, SaveTyped
  <1> QED
    BY <1>2, <1>3

LEMMA SaveCurrentKeeps ==
  ASSUME BufferInv, NEW v \in Terminals, SaveCurrent(v),
         keyboard_buffer' \in [Addresses -> Cells],
         keyboard_cursor_idx'[v] \in 0 .. KEYBOARD_BUFFER_SIZE
  PROVE  current_buf' \in [Terminals -> Lines(KEYBOARD_BUFFER_SIZE)]
  <1> DEFINE r == Row(keyboard_buffer', v, keyboard_cursor_idx'[v])
  <1>1. r \in Lines(KEYBOARD_BUFFER_SIZE)
    BY RowIsLine DEF Lines
  <1>2. current_buf' = IF not_in_prev_cmd_flag' THEN [current_buf EXCEPT ![v] = r]
                                                ELSE current_buf
    BY DEF SaveCurrent
  <1> HIDE DEF r
  <1> QED
    BY <1>1, <1>2 DEF BufferInv

LEMMA CharKeepsInv ==
  ASSUME LineInv, NEW v \in Terminals, NEW c \in Chars, PressChar(v, c)
  PROVE  LineInv'
  <1> DEFINE i == keyboard_cursor_idx[v]
             e == keyboard_buffer_end_idx[v]
             d == distance_from_right[v]
  <1>1. IndexOK(i, e, d)
    BY IndicesOf DEF LineInv
  <1>2. c \in Cells
    BY DEF Cells
  <1>3. keyboard_buffer' \in [Addresses -> Cells]
    <2>1. CASE HasRoom(v)
      BY <1>2, <2>1 DEF PressChar, LineInv, MemoryInv
    <2>2. CASE ~HasRoom(v)
      BY <2>2 DEF PressChar, LineInv, MemoryInv, lineVars
    <2> QED
      BY <2>1, <2>2
  <1>4. IndexInv'
    <2>1. CASE HasRoom(v) /\ d = 0
      <3>1. /\ keyboard_cursor_idx' = [keyboard_cursor_idx EXCEPT ![v] = i + 1]
            /\ keyboard_buffer_end_idx' = [keyboard_buffer_end_idx EXCEPT ![v] = e + 1]
            /\ distance_from_right' = [distance_from_right EXCEPT ![v] = 0]
            /\ i < KEYBOARD_BUFFER_SIZE - 1
        BY <2>1 DEF PressChar, HasRoom
      <3> HIDE DEF i, e, d
      <3>2. IndexOK(i + 1, e + 1, 0)
        BY <1>1, <2>1, <3>1, LineAssumption DEF IndexOK
      <3> QED
        BY <3>1, <3>2, IndexStep DEF LineInv
    <2>2. CASE HasRoom(v) /\ d # 0
      <3>1. d > 0
        BY <2>2, <1>1 DEF IndexOK
      <3>2. /\ keyboard_cursor_idx' = [keyboard_cursor_idx EXCEPT ![v] = i + 1]
            /\ keyboard_buffer_end_idx' = [keyboard_buffer_end_idx EXCEPT ![v] = e]
            /\ distance_from_right' = [distance_from_right EXCEPT ![v] = d - 1]
            /\ i < KEYBOARD_BUFFER_SIZE - 1
        BY <2>2, <3>1 DEF PressChar, HasRoom
      <3> HIDE DEF i, e, d
      <3>3. IndexOK(i + 1, e, d - 1)
        BY <1>1, <3>1, <3>2, LineAssumption DEF IndexOK
      <3> QED
        BY <3>2, <3>3, IndexStep DEF LineInv
    <2>3. CASE ~HasRoom(v)
      BY <2>3 DEF PressChar, lineVars, LineInv, IndexInv
    <2> QED
      BY <2>1, <2>2, <2>3
  <1>5. keyboard_cursor_idx'[v] \in 0 .. KEYBOARD_BUFFER_SIZE
    BY <1>4 DEF IndexInv, IndexOK
  <1>6. current_buf' \in [Terminals -> Lines(KEYBOARD_BUFFER_SIZE)]
    BY <1>3, <1>5, SaveCurrentKeeps DEF LineInv, PressChar
  <1>7. temp_kbd_buf' \in [Terminals -> Lines(KEYBOARD_BUFFER_SIZE)]
    BY <1>2, SaveTypedKeeps DEF LineInv, PressChar
  <1> QED
    BY <1>3, <1>4, <1>6, <1>7 DEF LineInv, BufferInv, MemoryInv, PressChar

LEMMA EnterKeepsInv ==
  ASSUME LineInv, NEW v \in Terminals, PressEnter(v)
  PROVE  LineInv'
  <1> DEFINE e == keyboard_buffer_end_idx[v]
             full == e >= KEYBOARD_BUFFER_SIZE
             cur == IF full THEN e ELSE e + 1
             r == Row(keyboard_buffer', v, cur - 1)
  <1>1. e \in 1 - KEYBOARD_BUFFER_SIZE .. KEYBOARD_BUFFER_SIZE
    BY IndicesOf DEF LineInv, IndexOK
  <1>2. keyboard_buffer' \in [Addresses -> Cells]
    BY DEF PressEnter, LineInv, MemoryInv, Cells
  <1>3. IndexInv'
    <2>1. IndexOK(0, 0, 0)
      BY ReplacedIndex, LineAssumption
    <2> QED
      BY <2>1, IndexStep DEF LineInv, PressEnter
  <1>4. keyboard_cursor_idx'[v] \in 0 .. KEYBOARD_BUFFER_SIZE
    BY <1>3 DEF IndexInv, IndexOK
  <1>5. current_buf' \in [Terminals -> Lines(KEYBOARD_BUFFER_SIZE)]
    BY <1>2, <1>4, SaveCurrentKeeps DEF LineInv, PressEnter
  <1>6. temp_kbd_buf' \in [Terminals -> Lines(KEYBOARD_BUFFER_SIZE)]
    BY SaveTypedKeeps DEF LineInv, PressEnter, Cells
  <1>7. last_buf' \in [Terminals -> Lines(KEYBOARD_BUFFER_SIZE - 1)]
    <2>1. CASE ~shell_flag[v]
      BY <2>1 DEF PressEnter, LineInv, BufferInv
    <2>2. CASE shell_flag[v]
      <3>1. ~(e < 0)
        BY <2>2 DEF PressEnter, NegativeLength
      <3>2. cur - 1 \in 0 .. KEYBOARD_BUFFER_SIZE - 1
        <4> HIDE DEF e
        <4> QED
          BY <1>1, <3>1, LineAssumption
      <3>3. last_buf' = [last_buf EXCEPT ![v] = r]
        BY <2>2 DEF PressEnter
      <3> HIDE DEF cur
      <3>4. cur - 1 \in 0 .. KEYBOARD_BUFFER_SIZE
        BY <3>2, LineAssumption
      <3>5. r \in Lines(cur - 1)
        BY <1>2, <3>4, RowIsLine
      <3> HIDE DEF r
      <3>6. r \in Lines(KEYBOARD_BUFFER_SIZE - 1)
        BY <3>2, <3>5, LineAssumption DEF Lines
      <3> QED
        BY <3>3, <3>6 DEF LineInv, BufferInv
    <2> QED
      BY <2>1, <2>2
  <1> QED
    BY <1>2, <1>3, <1>5, <1>6, <1>7 DEF LineInv, BufferInv, MemoryInv, PressEnter

LEMMA ReadTerminalKeepsInv ==
  ASSUME LineInv, NEW t \in Terminals, NEW n, ReadTerminal(t, n)
  PROVE  LineInv'
  <1> DEFINE typed == temp_kbd_buf[t]
             cleared == Memset(keyboard_buffer, t, KEYBOARD_BUFFER_SIZE)
             kb == Memcpy(cleared, t, typed)
             i == Len(UpTo(typed, {NEWLINE}))
             cur == EchoedCursor(kb, t, i, Len(typed))
             d == distance_from_right[t]
  <1>1. typed \in Lines(KEYBOARD_BUFFER_SIZE) /\ Len(typed) \in 0 .. KEYBOARD_BUFFER_SIZE
          /\ typed \in Seq(Cells)
    BY DEF LineInv, BufferInv, Lines
  <1>2. cleared \in [Addresses -> Cells]
    BY MemsetType DEF LineInv, MemoryInv
  <1>3. kb \in [Addresses -> Cells]
    <2> HIDE DEF cleared, typed
    <2> QED
      BY <1>1, <1>2, MemcpyType
  <1>4. d \in Nat /\ distance_from_right' = [distance_from_right EXCEPT ![t] = d]
    BY IndicesOf DEF LineInv, IndexInv, ReadTerminal
  <1>5. CASE re_echo_flag[t] \/ (shell_flag[t] /\ temp_kbd_buf[t] # << >>)
    <2>1. EchoTyped(t)
      BY <1>5 DEF ReadTerminal
    <2>2. cur \in 0 .. KEYBOARD_BUFFER_SIZE
      <3>1. CASE Len(typed) = 0
        <4>1. typed = << >>
          BY <1>1, <3>1
        <4>2. i = 0
          BY <4>1, EmptyUpTo
        <4>3. Addr(t, 0) \in Addresses /\ Addr(t, 0) \in Int
                /\ Addr(t, KEYBOARD_BUFFER_SIZE) = Addr(t, 0) + KEYBOARD_BUFFER_SIZE
          BY AddrInMemory, LineAssumption DEF Addr, Terminals
        <4>4. cleared[Addr(t, 0)] = NUL
          BY <4>3, LineAssumption DEF Memset, LineInv, MemoryInv
        <4>5. kb[Addr(t, 0)] = NUL
          <5> HIDE DEF cleared, typed
          <5> QED
            BY <1>2, <3>1, <4>3, <4>4 DEF Memcpy
        <4> HIDE DEF kb, i
        <4>6. cur = Len(typed)
          BY <4>2, <4>5, LineAssumption DEF EchoedCursor
        <4> QED
          BY <4>6, <1>1
      <3>2. CASE Len(typed) # 0
        <4> HIDE DEF kb, i, typed
        <4> QED
          BY <1>1, <3>2, LineAssumption DEF EchoedCursor
      <3> QED
        BY <3>1, <3>2
    <2>3. /\ keyboard_buffer' = kb
          /\ keyboard_cursor_idx' = [keyboard_cursor_idx EXCEPT ![t] = cur]
          /\ keyboard_buffer_end_idx' = [keyboard_buffer_end_idx EXCEPT ![t] = cur]
          /\ current_buf' = [current_buf EXCEPT ![t] = Row(kb, t, cur)]
          /\ temp_kbd_buf' = [temp_kbd_buf EXCEPT ![t] = << >>]
      BY <2>1 DEF EchoTyped
    <2>4. UNCHANGED <<visible_terminal, last_buf>>
      BY DEF ReadTerminal
    <2> HIDE DEF kb, cur, d, i, typed
    <2>5. IndexInv'
      BY <1>4, <2>2, <2>3, ReplacedIndex, IndexStep DEF LineInv
    <2>6. Row(kb, t, cur) \in Lines(KEYBOARD_BUFFER_SIZE)
      BY <1>3, <2>2, RowIsLine DEF Lines
    <2>7. << >> \in Lines(KEYBOARD_BUFFER_SIZE)
      BY LineAssumption DEF Lines
    <2>8. BufferInv'
      <3> HIDE DEF Lines
      <3> QED
        BY <2>3, <2>4, <2>6, <2>7 DEF LineInv, BufferInv
    <2> QED
      BY <2>3, <2>4, <2>5, <2>8, <1>3 DEF LineInv, MemoryInv
  <1>6. CASE ~(re_echo_flag[t] \/ (shell_flag[t] /\ temp_kbd_buf[t] # << >>))
    <2>1. /\ keyboard_buffer' = cleared
          /\ UNCHANGED <<keyboard_cursor_idx, keyboard_buffer_end_idx, distance_from_right,
                         current_buf, temp_kbd_buf, visible_terminal, last_buf>>
      BY <1>6 DEF ReadTerminal
    <2> QED
      BY <2>1, <1>2 DEF LineInv, IndexInv, BufferInv, MemoryInv
  <1> QED
    BY <1>5, <1>6

\* What a step of the keyboard handler or of a process can be.
LineStep ==
  \/ Key(visible_terminal)
  \/ PressCtrlL(visible_terminal)
  \/ Overrun(visible_terminal)
  \/ \E t \in Terminals : SwitchTerminal(t)
  \/ \E t \in Terminals : Process(t)

LEMMA LineInvStep ==
  ASSUME LineInv, LineStep \/ UNCHANGED lvars
  PROVE  LineInv'
  <1>1. visible_terminal \in Terminals
    BY DEF LineInv, MemoryInv
  <1>2. CASE Key(visible_terminal)
    BY <1>1, <1>2, EnterKeepsInv, BackspaceKeepsInv, ArrowsKeepInv, UpDownKeepInv,
       CharKeepsInv DEF Key, EditKey
  <1>3. CASE PressCtrlL(visible_terminal)
    BY <1>1, <1>3, CtrlLKeepsInv
  <1>4. ASSUME NEW t \in Terminals, NEW n, ReadTerminal(t, n) PROVE LineInv'
    BY <1>4, ReadTerminalKeepsInv
  <1>5. ASSUME UNCHANGED <<lineVars, temp_kbd_buf, last_buf, current_buf>>,
               visible_terminal' \in Terminals
        PROVE  LineInv'
    BY <1>5 DEF lineVars, LineInv, IndexInv, BufferInv, MemoryInv
  <1>6. CASE Overrun(visible_terminal)
    BY <1>1, <1>5, <1>6 DEF Overrun, tempVars, historyVars
  <1>7. ASSUME NEW t \in Terminals, SwitchTerminal(t) PROVE LineInv'
    BY <1>5, <1>7 DEF SwitchTerminal, tempVars, historyVars
  <1>8. ASSUME NEW t \in Terminals, ReadReturns(t) PROVE LineInv'
    BY <1>1, <1>5, <1>8 DEF ReadReturns, tempVars, historyVars
  <1>9. ASSUME NEW t \in Terminals, ChangeProgram(t) PROVE LineInv'
    BY <1>1, <1>5, <1>9 DEF ChangeProgram, Halt, Execute, tempVars, historyVars
  <1>10. CASE UNCHANGED lvars
    BY <1>1, <1>5, <1>10 DEF lvars, tempVars, historyVars
  <1> QED
    BY <1>2, <1>3, <1>4, <1>6, <1>7, <1>8, <1>9, <1>10 DEF LineStep, Process

LEMMA LineInvInit ==
  ASSUME LineInit
  PROVE  LineInv
  <1>1. 0 \in Terminals
    BY LineAssumption DEF Terminals
  <1>2. << >> \in Lines(KEYBOARD_BUFFER_SIZE) /\ << >> \in Lines(KEYBOARD_BUFFER_SIZE - 1)
    BY LineAssumption DEF Lines
  <1>3. IndexOK(0, 0, 0)
    BY ReplacedIndex, LineAssumption
  <1>4. IndexInv
    BY <1>3 DEF LineInit, IndexInv
  <1>5. BufferInv
    <2> HIDE DEF Lines
    <2> QED
      BY <1>2 DEF LineInit, BufferInv
  <1>6. MemoryInv
    BY <1>1 DEF LineInit, MemoryInv, Cells
  <1> QED
    BY <1>4, <1>5, <1>6 DEF LineInv

\* However the user types, the indices of keyboard_interrupt stay within a row
\* and its neighbours, and no saved line is longer than its buffer.
THEOREM IndicesStayBounded == LineSpec => []IndicesBounded
  <1>1. ASSUME LineInv, [LineNext]_lvars PROVE LineInv'
    BY <1>1, LineInvStep DEF LineNext, LineStep
  <1>2. ASSUME LineInv PROVE IndicesBounded
    <2> SUFFICES ASSUME NEW t \in Terminals
                 PROVE  /\ keyboard_cursor_idx[t] \in 0 .. KEYBOARD_BUFFER_SIZE
                        /\ keyboard_buffer_end_idx[t]
                             \in 1 - KEYBOARD_BUFFER_SIZE .. KEYBOARD_BUFFER_SIZE
                        /\ Len(temp_kbd_buf[t]) <= KEYBOARD_BUFFER_SIZE
                        /\ Len(last_buf[t]) < KEYBOARD_BUFFER_SIZE
                        /\ Len(current_buf[t]) <= KEYBOARD_BUFFER_SIZE
      BY DEF IndicesBounded
    <2>1. /\ keyboard_cursor_idx[t] \in 0 .. KEYBOARD_BUFFER_SIZE
          /\ keyboard_buffer_end_idx[t] \in 1 - KEYBOARD_BUFFER_SIZE .. KEYBOARD_BUFFER_SIZE
      BY <1>2, IndicesOf DEF LineInv, IndexOK
    <2>2. /\ temp_kbd_buf[t] \in Lines(KEYBOARD_BUFFER_SIZE)
          /\ last_buf[t] \in Lines(KEYBOARD_BUFFER_SIZE - 1)
          /\ current_buf[t] \in Lines(KEYBOARD_BUFFER_SIZE)
      BY <1>2 DEF LineInv, BufferInv
    <2>3. /\ Len(temp_kbd_buf[t]) <= KEYBOARD_BUFFER_SIZE
          /\ Len(last_buf[t]) < KEYBOARD_BUFFER_SIZE
          /\ Len(current_buf[t]) <= KEYBOARD_BUFFER_SIZE
      BY <2>2, LineAssumption DEF Lines
    <2> QED
      BY <2>1, <2>3
  <1> QED
    BY <1>1, <1>2, LineInvInit, PTL DEF LineSpec

-----------------------------------------------------------------------------
(* Users who type while the process on the screen reads.                    *)

\* What can be in a line, and the lines that fit into a row with their newline.
Clean == Cells \ {NUL, NEWLINE}
CleanLines == {s \in Seq(Clean) : Len(s) < KEYBOARD_BUFFER_SIZE}

RowClean(kb, t, n) == \A i \in 0 .. n - 1 : kb[Addr(t, i)] \in Clean

\* While a process reads, its line is the start of the row, and nothing is saved
\* to be put on the line later; otherwise there is no line, and what is saved is
\* a line cleared by Ctrl-L or the newline that ended another program's read.
PoliteLine(t) ==
  /\ temp_kbd_buf[t] \in CleanLines \cup {<<NEWLINE>>}
  /\ last_buf[t] \in CleanLines
  /\ current_buf[t] \in CleanLines
  /\ ~sys_read_flag[t] =>
       /\ keyboard_cursor_idx[t] = 0
       /\ keyboard_buffer_end_idx[t] = 0
       /\ distance_from_right[t] = 0
  /\ sys_read_flag[t] =>
       /\ reading[t] /\ ~re_echo_flag[t] /\ temp_kbd_buf[t] = << >>
       /\ keyboard_cursor_idx[t] + distance_from_right[t] = keyboard_buffer_end_idx[t]
       /\ keyboard_buffer_end_idx[t] < KEYBOARD_BUFFER_SIZE
       /\ RowClean(keyboard_buffer, t, keyboard_buffer_end_idx[t])

FlagsType ==
  /\ reading \in [Terminals -> BOOLEAN]
  /\ sys_read_flag \in [Terminals -> BOOLEAN]
  /\ re_echo_flag \in [Terminals -> BOOLEAN]

PoliteInv ==
  /\ LineInv
  /\ FlagsType
  /\ \A t \in Terminals : PoliteLine(t)
  /\ ~lost

\* No byte belongs to the rows of two terminals.
LEMMA RowsDisjoint ==
  ASSUME NEW t \in Terminals, NEW u \in Terminals, t # u,
         NEW i \in 0 .. KEYBOARD_BUFFER_SIZE - 1, NEW j \in 0 .. KEYBOARD_BUFFER_SIZE - 1
  PROVE  Addr(t, i) # Addr(u, j)
  <1>1. ASSUME NEW a \in Nat, NEW b \in Nat, NEW c \in Nat, a < b
        PROVE  a * c + c <= b * c
    <2>1. a * c + c = (a + 1) * c
      OBVIOUS
    <2>2. (a + 1) * c <= b * c
      BY <1>1
    <2> QED
      BY <2>1, <2>2
  <1>2. t \in Nat /\ u \in Nat /\ KEYBOARD_BUFFER_SIZE \in Nat
    BY LineAssumption DEF Terminals
  <1>3. t * KEYBOARD_BUFFER_SIZE \in Nat /\ u * KEYBOARD_BUFFER_SIZE \in Nat
    BY <1>2
  <1>4. CASE t < u
    <2>1. t * KEYBOARD_BUFFER_SIZE + KEYBOARD_BUFFER_SIZE <= u * KEYBOARD_BUFFER_SIZE
      BY <1>1, <1>2, <1>4
    <2> QED
      BY <2>1, <1>3, <1>2 DEF Addr
  <1>5. CASE u < t
    <2>1. u * KEYBOARD_BUFFER_SIZE + KEYBOARD_BUFFER_SIZE <= t * KEYBOARD_BUFFER_SIZE
      BY <1>1, <1>2, <1>5
    <2> QED
      BY <2>1, <1>3, <1>2 DEF Addr
  <1> QED
    BY <1>2, <1>4, <1>5

LEMMA AddrOffset ==
  ASSUME NEW t \in Terminals, NEW i \in Int
  PROVE  Addr(t, 0) \in Int /\ Addr(t, i) = Addr(t, 0) + i
  <1>1. t * KEYBOARD_BUFFER_SIZE \in Int
    BY LineAssumption DEF Terminals
  <1> QED
    BY <1>1 DEF Addr

\* The bytes of a row from its start.
LEMMA RowRange ==
  ASSUME NEW t \in Terminals, NEW n \in 0 .. KEYBOARD_BUFFER_SIZE, NEW u \in Terminals,
         NEW j \in 0 .. KEYBOARD_BUFFER_SIZE - 1
  PROVE  Addr(u, j) \in Addr(t, 0) .. Addr(t, n) - 1 <=> u = t /\ j < n
  <1>1. Addr(t, 0) \in Int /\ Addr(t, n) = Addr(t, 0) + n
    BY AddrOffset
  <1>2. Addr(u, 0) \in Int /\ Addr(u, j) = Addr(u, 0) + j
    BY AddrOffset
  <1>3. CASE u = t
    BY <1>1, <1>2, <1>3, LineAssumption
  <1>4. CASE u # t
    <2> SUFFICES ASSUME Addr(u, j) \in Addr(t, 0) .. Addr(t, n) - 1
                 PROVE  FALSE
      BY <1>4
    <2> DEFINE i == Addr(u, j) - Addr(t, 0)
    <2>1. i \in 0 .. KEYBOARD_BUFFER_SIZE - 1 /\ i \in Int
      BY <1>1, <1>2, LineAssumption
    <2>2. Addr(t, i) = Addr(t, 0) + i
      BY <2>1, AddrOffset
    <2>3. Addr(t, i) = Addr(u, j)
      BY <2>2, <1>1, <1>2
    <2> HIDE DEF i
    <2> QED
      BY <2>1, <2>3, <1>4, RowsDisjoint
  <1> QED
    BY <1>3, <1>4

LEMMA AddrInRow ==
  ASSUME NEW t \in Terminals, NEW j \in 0 .. KEYBOARD_BUFFER_SIZE - 1
  PROVE  Addr(t, j) \in Addresses /\ j \in 0 .. KEYBOARD_BUFFER_SIZE
  BY AddrInMemory, LineAssumption

\* What memset and memcpy leave in the rows.
LEMMA MemsetRows ==
  ASSUME NEW kb \in [Addresses -> Cells], NEW t \in Terminals,
         NEW n \in 0 .. KEYBOARD_BUFFER_SIZE, NEW u \in Terminals,
         NEW j \in 0 .. KEYBOARD_BUFFER_SIZE - 1
  PROVE  Memset(kb, t, n)[Addr(u, j)] = IF u = t /\ j < n THEN NUL ELSE kb[Addr(u, j)]
  <1>1. Addr(u, j) \in Addresses
    BY AddrInRow
  <1>2. Addr(u, j) \in Addr(t, 0) .. Addr(t, n) - 1 <=> u = t /\ j < n
    BY RowRange
  <1> QED
    BY <1>1, <1>2 DEF Memset

LEMMA MemcpyRows ==
  ASSUME NEW kb \in [Addresses -> Cells], NEW t \in Terminals,
         NEW s \in Lines(KEYBOARD_BUFFER_SIZE), NEW u \in Terminals,
         NEW j \in 0 .. KEYBOARD_BUFFER_SIZE - 1
  PROVE  Memcpy(kb, t, s)[Addr(u, j)] =
           IF u = t /\ j < Len(s) THEN s[j + 1] ELSE kb[Addr(u, j)]
  <1>1. Addr(u, j) \in Addresses
    BY AddrInRow
  <1>2. Len(s) \in 0 .. KEYBOARD_BUFFER_SIZE
    BY DEF Lines
  <1>3. Addr(u, j) \in Addr(t, 0) .. Addr(t, Len(s)) - 1 <=> u = t /\ j < Len(s)
    BY <1>2, RowRange
  <1>4. u = t => Addr(u, j) - Addr(t, 0) + 1 = j + 1
    BY AddrOffset
  <1> QED
    BY <1>1, <1>3, <1>4 DEF Memcpy

LEMMA StoreRows ==
  ASSUME NEW kb \in [Addresses -> Cells], NEW t \in Terminals,
         NEW i \in 0 .. KEYBOARD_BUFFER_SIZE - 1, NEW c, NEW u \in Terminals,
         NEW j \in 0 .. KEYBOARD_BUFFER_SIZE - 1,
         NEW stored, stored = [kb EXCEPT ![Addr(t, i)] = c]
  PROVE  stored[Addr(u, j)] =
           IF u = t /\ j = i THEN c ELSE kb[Addr(u, j)]
  <1>1. Addr(u, j) \in Addresses
    BY AddrInRow
  <1>2. Addr(u, j) = Addr(t, i) <=> u = t /\ j = i
    <2>1. CASE u = t
      BY <2>1, AddrOffset
    <2>2. CASE u # t
      BY <2>2, RowsDisjoint
    <2> QED
      BY <2>1, <2>2
  <1> QED
    BY <1>1, <1>2

LEMMA CleanRow ==
  ASSUME NEW kb \in [Addresses -> Cells], NEW t \in Terminals,
         NEW n \in 0 .. KEYBOARD_BUFFER_SIZE - 1, RowClean(kb, t, n)
  PROVE  Row(kb, t, n) \in CleanLines
  <1>1. n \in Nat /\ n < KEYBOARD_BUFFER_SIZE
    BY LineAssumption
  <1>2. \A i \in 1 .. n : kb[Addr(t, i - 1)] \in Clean
    BY <1>1 DEF RowClean
  <1> QED
    BY <1>1, <1>2 DEF Row, CleanLines

LEMMA CleanAreLines ==
  ASSUME NEW s \in CleanLines
  PROVE  /\ s \in Lines(KEYBOARD_BUFFER_SIZE)
         /\ Len(s) \in 0 .. KEYBOARD_BUFFER_SIZE - 1
         /\ \A i \in 1 .. Len(s) : s[i] \in Clean
  <1>1. s \in Seq(Clean) /\ Len(s) < KEYBOARD_BUFFER_SIZE /\ Len(s) \in Nat
    BY DEF CleanLines
  <1>2. \A i \in 1 .. Len(s) : s[i] \in Clean
    BY <1>1
  <1>3. s \in Seq(Cells)
    BY <1>1 DEF Clean
  <1> QED
    BY <1>1, <1>2, <1>3, LineAssumption DEF Lines

LEMMA EmptyIsClean == << >> \in CleanLines
  BY LineAssumption DEF CleanLines

\* A set of numbers has a least one.
LEMMA LeastNumber ==
  ASSUME NEW S \in SUBSET Nat, S # {}
  PROVE  \E k \in S : \A j \in S : ~(j < k)
  <1>1. PICK k \in S : \A j \in S : <<j, k>> \notin OpToRel(<, Nat)
    BY NatLessThanWellFounded, WFMin
  <1>2. \A j \in S : ~(j < k)
    BY <1>1 DEF OpToRel
  <1> QED
    BY <1>2

\* UpTo cuts a line at the first of its cells to stop at, if there is one.
LEMMA UpToCuts ==
  ASSUME NEW S, NEW s \in Seq(S), NEW stop
  PROVE  /\ Len(UpTo(s, stop)) \in 0 .. Len(s)
         /\ \A i \in 1 .. Len(UpTo(s, stop)) : s[i] \notin stop
         /\ Len(UpTo(s, stop)) < Len(s) => s[Len(UpTo(s, stop)) + 1] \in stop
  <1> DEFINE P(m) == /\ \A i \in 1 .. m : s[i] \notin stop
                     /\ m < Len(s) => s[m + 1] \in stop
             n == CHOOSE m \in 0 .. Len(s) : P(m)
             Stops == {k \in Nat : k \in 1 .. Len(s) /\ s[k] \in stop}
  <1>1. Len(s) \in Nat
    OBVIOUS
  <1>2. \E m \in 0 .. Len(s) : P(m)
    <2>1. CASE Stops = {}
      <3>1. P(Len(s)) /\ Len(s) \in 0 .. Len(s)
        BY <1>1, <2>1
      <3> QED
        BY <3>1
    <2>2. CASE Stops # {}
      <3>1. PICK k \in Stops : \A j \in Stops : ~(j < k)
        BY <2>2, LeastNumber
      <3>2. k - 1 \in 0 .. Len(s) /\ k \in 1 .. Len(s) /\ s[k] \in stop
        BY <3>1, <1>1
      <3>3. \A i \in 1 .. k - 1 : s[i] \notin stop
        BY <3>1, <3>2, <1>1
      <3>4. P(k - 1)
        BY <3>2, <3>3, <1>1
      <3> QED
        BY <3>2, <3>4
    <2> QED
      BY <2>1, <2>2
  <1>3. n \in 0 .. Len(s) /\ P(n)
    <2> HIDE DEF P
    <2> QED
      BY <1>2
  <1>4. UpTo(s, stop) = SubSeq(s, 1, n)
    BY DEF UpTo
  <1> HIDE DEF n
  <1>5. Len(SubSeq(s, 1, n)) = n
    BY <1>1, <1>3
  <1> QED
    BY <1>3, <1>4, <1>5

\* Another terminal's line, as far as it goes, is as it was.
SameLine(u) ==
  /\ reading'[u] = reading[u]
  /\ sys_read_flag'[u] = sys_read_flag[u]
  /\ re_echo_flag'[u] = re_echo_flag[u]
  /\ keyboard_cursor_idx'[u] = keyboard_cursor_idx[u]
  /\ keyboard_buffer_end_idx'[u] = keyboard_buffer_end_idx[u]
  /\ distance_from_right'[u] = distance_from_right[u]
  /\ temp_kbd_buf'[u] = temp_kbd_buf[u]
  /\ last_buf'[u] = last_buf[u]
  /\ current_buf'[u] = current_buf[u]
  /\ \A j \in 0 .. keyboard_buffer_end_idx[u] - 1 :
       keyboard_buffer'[Addr(u, j)] = keyboard_buffer[Addr(u, j)]

LEMMA SameLineStaysPolite ==
  ASSUME NEW u, PoliteLine(u), SameLine(u)
  PROVE  PoliteLine(u)'
  BY DEF PoliteLine, SameLine, RowClean

\* The line of a terminal that no process reads is empty, one that is read fits.
LEMMA PoliteEnds ==
  ASSUME PoliteInv, NEW u \in Terminals
  PROVE  /\ PoliteLine(u)
         /\ keyboard_buffer_end_idx[u] \in 0 .. KEYBOARD_BUFFER_SIZE - 1
         /\ keyboard_cursor_idx[u] \in 0 .. keyboard_buffer_end_idx[u]
         /\ distance_from_right[u] = keyboard_buffer_end_idx[u] - keyboard_cursor_idx[u]
  <1>1. PoliteLine(u)
    BY DEF PoliteInv
  <1>2. IndexOK(keyboard_cursor_idx[u], keyboard_buffer_end_idx[u], distance_from_right[u])
    BY IndicesOf DEF PoliteInv, LineInv
  <1> DEFINE i == keyboard_cursor_idx[u]
             e == keyboard_buffer_end_idx[u]
             d == distance_from_right[u]
  <1>3. i + d = e /\ e < KEYBOARD_BUFFER_SIZE
    <2>1. CASE sys_read_flag[u]
      BY <1>1, <2>1 DEF PoliteLine
    <2>2. CASE ~sys_read_flag[u]
      BY <1>1, <2>2, LineAssumption DEF PoliteLine
    <2> QED
      BY <2>1, <2>2
  <1>4. i \in Nat /\ d \in Nat
    BY <1>2, LineAssumption DEF IndexOK
  <1> HIDE DEF i, e, d
  <1>5. e \in 0 .. KEYBOARD_BUFFER_SIZE - 1 /\ i \in 0 .. e /\ d = e - i
    BY <1>3, <1>4, LineAssumption
  <1> QED
    BY <1>1, <1>5 DEF i, e, d

\* The rows of the other terminals, when a step writes only that of v.
LEMMA OtherRows ==
  ASSUME PoliteInv, NEW v \in Terminals, NEW u \in Terminals \ {v},
         \A j \in 0 .. KEYBOARD_BUFFER_SIZE - 1 :
           keyboard_buffer'[Addr(u, j)] = keyboard_buffer[Addr(u, j)]
  PROVE  \A j \in 0 .. keyboard_buffer_end_idx[u] - 1 :
           keyboard_buffer'[Addr(u, j)] = keyboard_buffer[Addr(u, j)]
  <1>1. keyboard_buffer_end_idx[u] \in 0 .. KEYBOARD_BUFFER_SIZE - 1
    BY PoliteEnds
  <1> QED
    BY <1>1, LineAssumption

LEMMA PoliteStepInv ==
  ASSUME PoliteInv, NEW v \in Terminals, LineInv', FlagsType', ~lost',
         PoliteLine(v)', \A u \in Terminals \ {v} : SameLine(u)
  PROVE  PoliteInv'
  BY SameLineStaysPolite DEF PoliteInv

-----------------------------------------------------------------------------
(* The keys, while a process reads.                                         *)

LEMMA CleanCharKeeps ==
  ASSUME PoliteInv, NUL \notin Chars, NEW v \in Terminals, sys_read_flag[v],
         NEW c \in Chars, PressChar(v, c), LineInv'
  PROVE  PoliteInv'
  <1> DEFINE i == keyboard_cursor_idx[v]
             e == keyboard_buffer_end_idx[v]
             d == distance_from_right[v]
             N == KEYBOARD_BUFFER_SIZE
  <1>1. /\ PoliteLine(v) /\ e \in 0 .. N - 1 /\ i \in 0 .. e /\ d = e - i
    BY PoliteEnds
  <1>2. /\ keyboard_buffer \in [Addresses -> Cells]
        /\ keyboard_buffer' \in [Addresses -> Cells]
    BY DEF PoliteInv, LineInv, MemoryInv
  <1>3. c \in Clean
    BY LineAssumption DEF Clean, Cells
  <1>4. UNCHANGED <<reading, sys_read_flag, re_echo_flag, last_buf, lost>>
    BY DEF PressChar, processVars
  <1>5. UNCHANGED temp_kbd_buf
    BY <1>4 DEF PressChar, SaveTyped
  <1>6. /\ keyboard_cursor_idx'[v] + distance_from_right'[v] = keyboard_buffer_end_idx'[v]
        /\ keyboard_buffer_end_idx'[v] \in 0 .. N - 1
        /\ keyboard_cursor_idx'[v] \in 0 .. keyboard_buffer_end_idx'[v]
        /\ RowClean(keyboard_buffer', v, keyboard_buffer_end_idx'[v])
        /\ \A u \in Terminals \ {v} : \A j \in 0 .. N - 1 :
             keyboard_buffer'[Addr(u, j)] = keyboard_buffer[Addr(u, j)]
        /\ \A u \in Terminals \ {v} :
             /\ keyboard_cursor_idx'[u] = keyboard_cursor_idx[u]
             /\ keyboard_buffer_end_idx'[u] = keyboard_buffer_end_idx[u]
             /\ distance_from_right'[u] = distance_from_right[u]
    <2>1. CASE HasRoom(v)
      <3>1. i < N - 1 /\ i \in 0 .. N - 1
        BY <2>1, <1>1, LineAssumption DEF HasRoom
      <3>2. keyboard_buffer' = [keyboard_buffer EXCEPT ![Addr(v, i)] = c]
        BY <2>1 DEF PressChar
      <3>3. \A u \in Terminals : \A j \in 0 .. N - 1 :
              keyboard_buffer'[Addr(u, j)] =
                IF u = v /\ j = i THEN c ELSE keyboard_buffer[Addr(u, j)]
        <4> HIDE DEF i
        <4> TAKE u \in Terminals
        <4> TAKE j \in 0 .. N - 1
        <4> QED
          BY <1>2, <3>1, <3>2, StoreRows
      <3>4. /\ keyboard_cursor_idx'[v] = i + 1
            /\ keyboard_buffer_end_idx'[v] = IF d = 0 THEN e + 1 ELSE e
            /\ distance_from_right'[v] = IF d > 0 THEN d - 1 ELSE 0
            /\ \A u \in Terminals \ {v} :
                 /\ keyboard_cursor_idx'[u] = keyboard_cursor_idx[u]
                 /\ keyboard_buffer_end_idx'[u] = keyboard_buffer_end_idx[u]
                 /\ distance_from_right'[u] = distance_from_right[u]
        BY <2>1 DEF PressChar, PoliteInv, LineInv, IndexInv
      <3>5. RowClean(keyboard_buffer, v, e)
        BY <1>1 DEF PoliteLine
      <3> HIDE DEF i, e, d
      <3>6. RowClean(keyboard_buffer', v, keyboard_buffer_end_idx'[v])
        <4> SUFFICES ASSUME NEW j \in 0 .. keyboard_buffer_end_idx'[v] - 1
                     PROVE  keyboard_buffer'[Addr(v, j)] \in Clean
          BY DEF RowClean
        <4>1. j \in 0 .. N - 1 /\ (j = i \/ j \in 0 .. e - 1)
          BY <1>1, <3>1, <3>4, LineAssumption
        <4>2. CASE j = i
          BY <4>1, <4>2, <3>3, <1>3
        <4>3. CASE j # i
          BY <4>1, <4>3, <3>3, <3>5 DEF RowClean
        <4> QED
          BY <4>2, <4>3
      <3>7. /\ keyboard_cursor_idx'[v] + distance_from_right'[v] = keyboard_buffer_end_idx'[v]
            /\ keyboard_buffer_end_idx'[v] \in 0 .. N - 1
            /\ keyboard_cursor_idx'[v] \in 0 .. keyboard_buffer_end_idx'[v]
        BY <1>1, <3>1, <3>4, LineAssumption
      <3>8. \A u \in Terminals \ {v} : \A j \in 0 .. N - 1 :
              keyboard_buffer'[Addr(u, j)] = keyboard_buffer[Addr(u, j)]
        BY <3>3
      <3> QED
        BY <3>4, <3>6, <3>7, <3>8
    <2>2. CASE ~HasRoom(v)
      BY <2>2, <1>1 DEF PressChar, lineVars, PoliteLine
    <2> QED
      BY <2>1, <2>2
  <1>7. current_buf'[v] \in CleanLines
          /\ \A u \in Terminals \ {v} : current_buf'[u] = current_buf[u]
    <2> DEFINE n == keyboard_cursor_idx'[v]
               r == Row(keyboard_buffer', v, n)
    <2>1. n \in 0 .. N - 1 /\ RowClean(keyboard_buffer', v, n)
      BY <1>6, LineAssumption DEF RowClean
    <2>2. r \in CleanLines
      BY <1>2, <2>1, CleanRow
    <2>3. current_buf' = IF not_in_prev_cmd_flag' THEN [current_buf EXCEPT ![v] = r]
                                                  ELSE current_buf
      BY DEF PressChar, SaveCurrent
    <2> HIDE DEF r
    <2> QED
      BY <2>2, <2>3, <1>1 DEF PoliteInv, LineInv, BufferInv, PoliteLine
  <1>8. PoliteLine(v)'
    BY <1>1, <1>4, <1>5, <1>6, <1>7, LineAssumption DEF PoliteLine
  <1>9. ASSUME NEW u \in Terminals \ {v} PROVE SameLine(u)
    <2>1. \A j \in 0 .. keyboard_buffer_end_idx[u] - 1 :
            keyboard_buffer'[Addr(u, j)] = keyboard_buffer[Addr(u, j)]
      BY <1>6, OtherRows
    <2> QED
      BY <2>1, <1>4, <1>5, <1>6, <1>7 DEF SameLine
  <1>10. FlagsType' /\ ~lost'
    BY <1>4 DEF PoliteInv, FlagsType
  <1> QED
    BY <1>8, <1>9, <1>10, PoliteStepInv

\* Storing c in cell i of the row of v, and what the rows hold after it.
StoreCell(v, i, c) == keyboard_buffer' = [keyboard_buffer EXCEPT ![Addr(v, i)] = c]
CellStored(v, i, c) ==
  /\ \A u \in Terminals \ {v} : \A j \in 0 .. KEYBOARD_BUFFER_SIZE - 1 :
       keyboard_buffer'[Addr(u, j)] = keyboard_buffer[Addr(u, j)]
  /\ \A j \in 0 .. KEYBOARD_BUFFER_SIZE - 1 :
       keyboard_buffer'[Addr(v, j)] = IF j = i THEN c ELSE keyboard_buffer[Addr(v, j)]

\* keyboard_buf_handler stores into one cell of one row: no other cell changes.
LEMMA RowsStored ==
  ASSUME PoliteInv, NEW v \in Terminals, NEW i \in 0 .. KEYBOARD_BUFFER_SIZE - 1, NEW c,
         StoreCell(v, i, c)
  PROVE  CellStored(v, i, c)
  <1>1. keyboard_buffer \in [Addresses -> Cells]
    BY DEF PoliteInv, LineInv, MemoryInv
  <1> DEFINE kb == keyboard_buffer'
  <1>2. kb = [keyboard_buffer EXCEPT ![Addr(v, i)] = c]
    BY DEF StoreCell
  <1> HIDE DEF kb
  <1>3. ASSUME NEW u \in Terminals, NEW j \in 0 .. KEYBOARD_BUFFER_SIZE - 1
        PROVE  kb[Addr(u, j)] = IF u = v /\ j = i THEN c ELSE keyboard_buffer[Addr(u, j)]
    <2>1. Addr(u, j) \in Addresses
      BY AddrInRow
    <2>2. Addr(u, j) = Addr(v, i) <=> u = v /\ j = i
      <3>1. CASE u = v
        BY <3>1, AddrOffset
      <3>2. CASE u # v
        BY <3>2, RowsDisjoint
      <3> QED
        BY <3>1, <3>2
    <2> QED
      BY <1>1, <1>2, <2>1, <2>2
  <1> QED
    BY <1>3 DEF kb, CellStored

\* What the other rows hold up to their ends is as it was, too.
LEMMA LinesStored ==
  ASSUME PoliteInv, NEW v \in Terminals, NEW i, NEW c, CellStored(v, i, c)
  PROVE  \A u \in Terminals \ {v} : \A j \in 0 .. keyboard_buffer_end_idx[u] - 1 :
           keyboard_buffer'[Addr(u, j)] = keyboard_buffer[Addr(u, j)]
  <1> SUFFICES ASSUME NEW u \in Terminals \ {v}
               PROVE  \A j \in 0 .. keyboard_buffer_end_idx[u] - 1 :
                        keyboard_buffer'[Addr(u, j)] = keyboard_buffer[Addr(u, j)]
    OBVIOUS
  <1>1. \A j \in 0 .. KEYBOARD_BUFFER_SIZE - 1 :
          keyboard_buffer'[Addr(u, j)] = keyboard_buffer[Addr(u, j)]
    BY DEF CellStored
  <1> QED
    BY <1>1, OtherRows

\* A whole line is put in place of another one, by Up, Down or a read.
LEMMA CopyInRow ==
  ASSUME PoliteInv, NEW v \in Terminals, NEW n \in 0 .. KEYBOARD_BUFFER_SIZE,
         NEW s \in Lines(KEYBOARD_BUFFER_SIZE),
         keyboard_buffer' = Memcpy(Memset(keyboard_buffer, v, n), v, s)
  PROVE  /\ \A u \in Terminals \ {v} : \A j \in 0 .. keyboard_buffer_end_idx[u] - 1 :
              keyboard_buffer'[Addr(u, j)] = keyboard_buffer[Addr(u, j)]
         /\ \A j \in 0 .. KEYBOARD_BUFFER_SIZE - 1 :
              keyboard_buffer'[Addr(v, j)] =
                IF j < Len(s) THEN s[j + 1]
                ELSE IF j < n THEN NUL ELSE keyboard_buffer[Addr(v, j)]
  <1> DEFINE cleared == Memset(keyboard_buffer, v, n)
  <1>1. keyboard_buffer \in [Addresses -> Cells]
    BY DEF PoliteInv, LineInv, MemoryInv
  <1>2. cleared \in [Addresses -> Cells]
    BY <1>1, MemsetType
  <1>3. \A u \in Terminals : \A j \in 0 .. KEYBOARD_BUFFER_SIZE - 1 :
          cleared[Addr(u, j)] = IF u = v /\ j < n THEN NUL ELSE keyboard_buffer[Addr(u, j)]
    BY <1>1, MemsetRows
  <1>4. keyboard_buffer' = Memcpy(cleared, v, s)
    OBVIOUS
  <1> HIDE DEF cleared
  <1>5. \A u \in Terminals : \A j \in 0 .. KEYBOARD_BUFFER_SIZE - 1 :
          keyboard_buffer'[Addr(u, j)] =
            IF u = v /\ j < Len(s) THEN s[j + 1] ELSE cleared[Addr(u, j)]
    BY <1>2, <1>4, MemcpyRows
  <1> QED
    BY <1>3, <1>5, OtherRows

LEMMA CopiedIsClean ==
  ASSUME PoliteInv, NEW v \in Terminals, NEW n \in 0 .. KEYBOARD_BUFFER_SIZE,
         NEW s \in CleanLines,
         keyboard_buffer' = Memcpy(Memset(keyboard_buffer, v, n), v, s)
  PROVE  RowClean(keyboard_buffer', v, Len(s))
  <1>1. /\ s \in Lines(KEYBOARD_BUFFER_SIZE)
        /\ Len(s) \in 0 .. KEYBOARD_BUFFER_SIZE - 1
        /\ \A i \in 1 .. Len(s) : s[i] \in Clean
    BY CleanAreLines
  <1>2. ASSUME NEW j \in 0 .. Len(s) - 1
        PROVE  keyboard_buffer'[Addr(v, j)] \in Clean
    <2>1. j \in 0 .. KEYBOARD_BUFFER_SIZE - 1 /\ j < Len(s) /\ j + 1 \in 1 .. Len(s)
      BY <1>1, LineAssumption
    <2>2. keyboard_buffer'[Addr(v, j)] = s[j + 1]
      BY <1>1, <2>1, CopyInRow
    <2> QED
      BY <1>1, <2>1, <2>2
  <1> QED
    BY <1>2 DEF RowClean

LEMMA UpDownStayPolite ==
  ASSUME PoliteInv, NEW v \in Terminals, sys_read_flag[v], PressUp(v) \/ PressDown(v),
         LineInv'
  PROVE  PoliteInv'
  <1>1. PoliteLine(v) /\ keyboard_buffer_end_idx[v] \in 0 .. KEYBOARD_BUFFER_SIZE - 1
    BY PoliteEnds
  <1>2. PICK s \in CleanLines : \E n \in 0 .. KEYBOARD_BUFFER_SIZE : ReplaceLine(v, s, n)
    <2>1. CASE PressUp(v)
      <3>1. keyboard_buffer_end_idx[v] \in 0 .. KEYBOARD_BUFFER_SIZE
        BY <1>1, LineAssumption
      <3> QED
        BY <1>1, <2>1, <3>1 DEF PressUp, PoliteLine
    <2>2. CASE PressDown(v)
      <3>1. KEYBOARD_BUFFER_SIZE \in 0 .. KEYBOARD_BUFFER_SIZE
        BY LineAssumption
      <3> QED
        BY <1>1, <2>2, <3>1 DEF PressDown, PoliteLine
    <2> QED
      BY <2>1, <2>2
  <1>3. PICK n \in 0 .. KEYBOARD_BUFFER_SIZE : ReplaceLine(v, s, n)
    BY <1>2
  <1>4. keyboard_buffer' = Memcpy(Memset(keyboard_buffer, v, n), v, s)
    BY <1>3 DEF ReplaceLine
  <1>5. s \in Lines(KEYBOARD_BUFFER_SIZE) /\ Len(s) \in 0 .. KEYBOARD_BUFFER_SIZE - 1
    BY CleanAreLines
  <1>6. RowClean(keyboard_buffer', v, Len(s))
    BY <1>4, CopiedIsClean
  <1>7. UNCHANGED <<reading, sys_read_flag, re_echo_flag, temp_kbd_buf, last_buf,
                    current_buf, lost>>
    BY DEF PressUp, PressDown, processVars, tempVars
  <1>8. /\ keyboard_cursor_idx'[v] = Len(s) /\ keyboard_buffer_end_idx'[v] = Len(s)
        /\ distance_from_right'[v] = 0
        /\ \A u \in Terminals \ {v} :
             /\ keyboard_cursor_idx'[u] = keyboard_cursor_idx[u]
             /\ keyboard_buffer_end_idx'[u] = keyboard_buffer_end_idx[u]
             /\ distance_from_right'[u] = distance_from_right[u]
    BY <1>3 DEF ReplaceLine, PoliteInv, LineInv, IndexInv
  <1>9. PoliteLine(v)'
    BY <1>1, <1>5, <1>6, <1>7, <1>8, LineAssumption DEF PoliteLine
  <1>10. ASSUME NEW u \in Terminals \ {v} PROVE SameLine(u)
    <2>1. \A j \in 0 .. keyboard_buffer_end_idx[u] - 1 :
            keyboard_buffer'[Addr(u, j)] = keyboard_buffer[Addr(u, j)]
      BY <1>4, <1>5, CopyInRow
    <2> QED
      BY <2>1, <1>7, <1>8 DEF SameLine
  <1>11. FlagsType' /\ ~lost'
    BY <1>7 DEF PoliteInv, FlagsType
  <1> QED
    BY <1>9, <1>10, <1>11, PoliteStepInv

LEMMA BackspaceStaysPolite ==
  ASSUME PoliteInv, NEW v \in Terminals, sys_read_flag[v], PressBackspace(v), LineInv'
  PROVE  PoliteInv'
  <1> DEFINE i == keyboard_cursor_idx[v]
             e == keyboard_buffer_end_idx[v]
             d == distance_from_right[v]
             N == KEYBOARD_BUFFER_SIZE
  <1>1. PoliteLine(v) /\ e \in 0 .. N - 1 /\ i \in 0 .. e /\ d = e - i
    BY PoliteEnds
  <1>2. RowClean(keyboard_buffer, v, e) /\ temp_kbd_buf[v] = << >>
    BY <1>1 DEF PoliteLine
  <1>3. UNCHANGED <<reading, sys_read_flag, re_echo_flag, last_buf, current_buf, lost>>
    BY DEF PressBackspace, BackspaceAtEnd, BackspaceInside, BackspaceAtStart, processVars,
       historyVars
  <1>4. UNCHANGED temp_kbd_buf
    BY <1>2 DEF PressBackspace, BackspaceAtEnd, BackspaceInside, BackspaceAtStart, EraseTyped
  <1>5. /\ keyboard_cursor_idx'[v] + distance_from_right'[v] = keyboard_buffer_end_idx'[v]
        /\ keyboard_buffer_end_idx'[v] < N
        /\ RowClean(keyboard_buffer', v, keyboard_buffer_end_idx'[v])
        /\ \A u \in Terminals \ {v} :
             /\ keyboard_cursor_idx'[u] = keyboard_cursor_idx[u]
             /\ keyboard_buffer_end_idx'[u] = keyboard_buffer_end_idx[u]
             /\ distance_from_right'[u] = distance_from_right[u]
             /\ \A j \in 0 .. keyboard_buffer_end_idx[u] - 1 :
                  keyboard_buffer'[Addr(u, j)] = keyboard_buffer[Addr(u, j)]
    <2>1. CASE BackspaceAtEnd(v)
      <3>1. /\ keyboard_buffer' = [keyboard_buffer EXCEPT ![Addr(v, i)] = NUL]
            /\ i > 0 /\ d = 0
        BY <2>1 DEF BackspaceAtEnd
      <3>2. /\ keyboard_cursor_idx'[v] = i - 1 /\ keyboard_buffer_end_idx'[v] = e - 1
            /\ distance_from_right'[v] = d
            /\ \A u \in Terminals \ {v} :
                 /\ keyboard_cursor_idx'[u] = keyboard_cursor_idx[u]
                 /\ keyboard_buffer_end_idx'[u] = keyboard_buffer_end_idx[u]
                 /\ distance_from_right'[u] = distance_from_right[u]
        BY <2>1 DEF BackspaceAtEnd, PoliteInv, LineInv, IndexInv
      <3> HIDE DEF i, e, d
      <3>3. i \in 0 .. N - 1
        BY <1>1, LineAssumption
      <3>4. /\ \A u \in Terminals \ {v} : \A j \in 0 .. keyboard_buffer_end_idx[u] - 1 :
                 keyboard_buffer'[Addr(u, j)] = keyboard_buffer[Addr(u, j)]
            /\ \A j \in 0 .. N - 1 :
                 keyboard_buffer'[Addr(v, j)]
                   = IF j = i THEN NUL ELSE keyboard_buffer[Addr(v, j)]
        <4>1. PoliteInv /\ i \in 0 .. N - 1
          BY <3>3
        <4>2. StoreCell(v, i, NUL)
          BY <3>1 DEF StoreCell
        <4>3. CellStored(v, i, NUL)
          BY <4>1, <4>2, RowsStored
        <4>4. \A u \in Terminals \ {v} : \A j \in 0 .. keyboard_buffer_end_idx[u] - 1 :
                keyboard_buffer'[Addr(u, j)] = keyboard_buffer[Addr(u, j)]
          BY <4>1, <4>3, LinesStored
        <4> QED
          BY <4>3, <4>4 DEF CellStored
      <3>5. RowClean(keyboard_buffer', v, e - 1)
        <4> SUFFICES ASSUME NEW j \in 0 .. e - 1 - 1
                     PROVE  keyboard_buffer'[Addr(v, j)] \in Clean
          BY DEF RowClean
        <4>1. j \in 0 .. N - 1 /\ j # i /\ j \in 0 .. e - 1
          BY <1>1, <3>1, LineAssumption
        <4> QED
          BY <4>1, <3>4, <1>2 DEF RowClean
      <3>6. i - 1 + d = e - 1 /\ e - 1 < N
        BY <1>1, <3>1, LineAssumption
      <3> QED
        BY <3>2, <3>4, <3>5, <3>6
    <2>2. CASE BackspaceInside(v)
      <3>1. /\ keyboard_buffer' = [keyboard_buffer EXCEPT ![Addr(v, i - 1)] = BLANK]
            /\ i > 0
        BY <2>2 DEF BackspaceInside
      <3>2. /\ keyboard_cursor_idx'[v] = i - 1 /\ keyboard_buffer_end_idx'[v] = e
            /\ distance_from_right'[v] = d + 1
            /\ \A u \in Terminals \ {v} :
                 /\ keyboard_cursor_idx'[u] = keyboard_cursor_idx[u]
                 /\ keyboard_buffer_end_idx'[u] = keyboard_buffer_end_idx[u]
                 /\ distance_from_right'[u] = distance_from_right[u]
        BY <2>2 DEF BackspaceInside, PoliteInv, LineInv, IndexInv
      <3> HIDE DEF i, e, d
      <3>3. i - 1 \in 0 .. N - 1
        BY <1>1, <3>1, LineAssumption
      <3>4. /\ \A u \in Terminals \ {v} : \A j \in 0 .. keyboard_buffer_end_idx[u] - 1 :
                 keyboard_buffer'[Addr(u, j)] = keyboard_buffer[Addr(u, j)]
            /\ \A j \in 0 .. N - 1 :
                 keyboard_buffer'[Addr(v, j)]
                   = IF j = i - 1 THEN BLANK ELSE keyboard_buffer[Addr(v, j)]
        <4> DEFINE k == i - 1
        <4>1. PoliteInv /\ k \in 0 .. N - 1
          BY <3>3
        <4>2. StoreCell(v, k, BLANK)
          BY <3>1 DEF StoreCell
        <4> HIDE DEF k
        <4>3. CellStored(v, k, BLANK)
          BY <4>1, <4>2, RowsStored
        <4>4. \A u \in Terminals \ {v} : \A j \in 0 .. keyboard_buffer_end_idx[u] - 1 :
                keyboard_buffer'[Addr(u, j)] = keyboard_buffer[Addr(u, j)]
          BY <4>1, <4>3, LinesStored
        <4> QED
          BY <4>3, <4>4 DEF CellStored, k
      <3>5. BLANK \in Clean
        BY LineAssumption DEF Clean, Cells
      <3>6. RowClean(keyboard_buffer', v, e)
        <4> SUFFICES ASSUME NEW j \in 0 .. e - 1
                     PROVE  keyboard_buffer'[Addr(v, j)] \in Clean
          BY DEF RowClean
        <4>1. j \in 0 .. N - 1
          BY <1>1, LineAssumption
        <4> QED
          BY <4>1, <3>4, <3>5, <1>2 DEF RowClean
      <3>7. i - 1 + (d + 1) = e /\ e < N
        BY <1>1, <3>1, LineAssumption
      <3> QED
        BY <3>2, <3>4, <3>6, <3>7
    <2>3. CASE BackspaceAtStart(v)
      BY <2>3, <1>1, <1>2 DEF BackspaceAtStart, lineVars, PoliteLine
    <2> QED
      BY <2>1, <2>2, <2>3 DEF PressBackspace
  <1>6. PoliteLine(v)'
    BY <1>1, <1>3, <1>4, <1>5 DEF PoliteLine
  <1>7. \A u \in Terminals \ {v} : SameLine(u)
    BY <1>3, <1>4, <1>5 DEF SameLine
  <1>8. FlagsType' /\ ~lost'
    BY <1>3 DEF PoliteInv, FlagsType
  <1> QED
    BY <1>6, <1>7, <1>8, PoliteStepInv

LEMMA ArrowsStayPolite ==
  ASSUME PoliteInv, NEW v \in Terminals, sys_read_flag[v], PressLeft(v) \/ PressRight(v),
         LineInv'
  PROVE  PoliteInv'
  <1> DEFINE i == keyboard_cursor_idx[v]
             e == keyboard_buffer_end_idx[v]
             d == distance_from_right[v]
  <1>1. PoliteLine(v) /\ e \in 0 .. KEYBOARD_BUFFER_SIZE - 1 /\ i \in 0 .. e /\ d = e - i
    BY PoliteEnds
  <1>2. UNCHANGED <<reading, sys_read_flag, re_echo_flag, temp_kbd_buf, last_buf, current_buf,
                    lost, keyboard_buffer, keyboard_buffer_end_idx>>
    BY DEF PressLeft, PressRight, processVars, tempVars, historyVars
  <1>3. /\ keyboard_cursor_idx'[v] + distance_from_right'[v] = e
        /\ \A u \in Terminals \ {v} :
             /\ keyboard_cursor_idx'[u] = keyboard_cursor_idx[u]
             /\ distance_from_right'[u] = distance_from_right[u]
    <2>1. PICK r \in {0, 1, -1} :
            /\ distance_from_right' = [distance_from_right EXCEPT ![v] = d - r]
            /\ keyboard_cursor_idx' = [keyboard_cursor_idx EXCEPT ![v] = i + r]
      <3>1. CASE PressLeft(v)
        <4>1. -1 \in Int /\ d - (-1) = d + 1 /\ i + (-1) = i - 1
          BY <1>1
        <4> QED
          BY <3>1, <4>1 DEF PressLeft
      <3>2. CASE PressRight(v)
        BY <3>2 DEF PressRight
      <3> QED
        BY <3>1, <3>2
    <2>2. keyboard_cursor_idx'[v] = i + r /\ distance_from_right'[v] = d - r
            /\ \A u \in Terminals \ {v} :
                 /\ keyboard_cursor_idx'[u] = keyboard_cursor_idx[u]
                 /\ distance_from_right'[u] = distance_from_right[u]
      BY <2>1 DEF PoliteInv, LineInv, IndexInv
    <2> HIDE DEF i, e, d
    <2>3. (i + r) + (d - r) = e
      BY <1>1
    <2> QED
      BY <2>2, <2>3
  <1>4. PoliteLine(v)'
    BY <1>1, <1>2, <1>3 DEF PoliteLine
  <1>5. \A u \in Terminals \ {v} : SameLine(u)
    BY <1>2, <1>3 DEF SameLine
  <1>6. FlagsType' /\ ~lost'
    BY <1>2 DEF PoliteInv, FlagsType
  <1> QED
    BY <1>4, <1>5, <1>6, PoliteStepInv

\* Enter puts the newline behind the line, and copies the line for Up.
LEMMA EnteredLine ==
  ASSUME PoliteInv, NEW v \in Terminals, PressEnter(v)
  PROVE  LET e == keyboard_buffer_end_idx[v]
         IN  /\ keyboard_buffer' = [keyboard_buffer EXCEPT ![Addr(v, e)] = NEWLINE]
             /\ last_buf' = IF shell_flag[v]
                              THEN [last_buf EXCEPT ![v] = Row(keyboard_buffer', v, e)]
                              ELSE last_buf
  <1> DEFINE e == keyboard_buffer_end_idx[v]
             N == KEYBOARD_BUFFER_SIZE
             full == e >= N
             cur == IF full THEN e ELSE e + 1
  <1>1. e \in 0 .. N - 1
    BY PoliteEnds
  <1>2. ~full
    BY <1>1, LineAssumption
  <1>3. cur - 1 = e
    <2> HIDE DEF full, e
    <2>1. cur = e + 1
      BY <1>2
    <2> HIDE DEF cur
    <2> QED
      BY <2>1, <1>1
  <1>4. /\ keyboard_buffer' =
             IF full THEN keyboard_buffer
                     ELSE [keyboard_buffer EXCEPT ![Addr(v, e)] = NEWLINE]
        /\ last_buf' = IF shell_flag[v]
                         THEN [last_buf EXCEPT ![v] = Row(keyboard_buffer', v, cur - 1)]
                         ELSE last_buf
    BY DEF PressEnter
  <1> HIDE DEF full, cur
  <1> QED
    BY <1>2, <1>3, <1>4, Zenon

LEMMA EnterStaysPolite ==
  ASSUME PoliteInv, NEW v \in Terminals, sys_read_flag[v], PressEnter(v), LineInv'
  PROVE  PoliteInv'
  <1> DEFINE e == keyboard_buffer_end_idx[v]
             N == KEYBOARD_BUFFER_SIZE
  <1>1. PoliteLine(v) /\ e \in 0 .. N - 1
    BY PoliteEnds
  <1>2. RowClean(keyboard_buffer, v, e) /\ temp_kbd_buf[v] = << >>
    BY <1>1 DEF PoliteLine
  <1>3. ~(e >= N) /\ e + 1 - 1 = e
    BY <1>1, LineAssumption
  <1>4. /\ keyboard_buffer' = [keyboard_buffer EXCEPT ![Addr(v, e)] = NEWLINE]
        /\ last_buf' = IF shell_flag[v]
                         THEN [last_buf EXCEPT ![v] = Row(keyboard_buffer', v, e)]
                         ELSE last_buf
    BY EnteredLine
  <1>5. /\ sys_read_flag' = [sys_read_flag EXCEPT ![v] = FALSE]
        /\ keyboard_cursor_idx' = [keyboard_cursor_idx EXCEPT ![v] = 0]
        /\ keyboard_buffer_end_idx' = [keyboard_buffer_end_idx EXCEPT ![v] = 0]
        /\ distance_from_right' = [distance_from_right EXCEPT ![v] = 0]
        /\ SaveCurrent(v) /\ SaveTyped(v, NEWLINE)
        /\ UNCHANGED <<lost, reading, re_echo_flag>>
    BY DEF PressEnter, processVars
  <1>6. keyboard_buffer' \in [Addresses -> Cells]
    BY DEF LineInv, MemoryInv
  <1> HIDE DEF e
  <1>7. /\ \A u \in Terminals \ {v} : \A j \in 0 .. keyboard_buffer_end_idx[u] - 1 :
             keyboard_buffer'[Addr(u, j)] = keyboard_buffer[Addr(u, j)]
        /\ \A j \in 0 .. N - 1 :
             keyboard_buffer'[Addr(v, j)]
               = IF j = e THEN NEWLINE ELSE keyboard_buffer[Addr(v, j)]
    <2>1. PoliteInv /\ e \in 0 .. N - 1
      BY <1>1
    <2>2. StoreCell(v, e, NEWLINE)
      BY <1>4 DEF StoreCell
    <2>3. CellStored(v, e, NEWLINE)
      BY <2>1, <2>2, RowsStored
    <2>4. \A u \in Terminals \ {v} : \A j \in 0 .. keyboard_buffer_end_idx[u] - 1 :
            keyboard_buffer'[Addr(u, j)] = keyboard_buffer[Addr(u, j)]
      BY <2>1, <2>3, LinesStored
    <2> QED
      BY <2>3, <2>4 DEF CellStored
  <1>8. RowClean(keyboard_buffer', v, e)
    <2> SUFFICES ASSUME NEW j \in 0 .. e - 1
                 PROVE  keyboard_buffer'[Addr(v, j)] \in Clean
      BY DEF RowClean
    <2>1. j \in 0 .. N - 1 /\ j # e
      BY <1>1, LineAssumption
    <2> QED
      BY <2>1, <1>7, <1>2 DEF RowClean
  <1>9. last_buf'[v] \in CleanLines
          /\ \A u \in Terminals \ {v} : last_buf'[u] = last_buf[u]
    <2> DEFINE r == Row(keyboard_buffer', v, e)
    <2>1. r \in CleanLines
      BY <1>1, <1>6, <1>8, CleanRow
    <2>2. last_buf' = IF shell_flag[v] THEN [last_buf EXCEPT ![v] = r] ELSE last_buf
      BY <1>4
    <2> HIDE DEF r
    <2> QED
      BY <2>1, <2>2, <1>1 DEF PoliteInv, LineInv, BufferInv, PoliteLine
  <1>10. current_buf'[v] \in CleanLines
           /\ \A u \in Terminals \ {v} : current_buf'[u] = current_buf[u]
    <2> DEFINE r == Row(keyboard_buffer', v, keyboard_cursor_idx'[v])
    <2>1. keyboard_cursor_idx'[v] = 0 /\ 0 \in 0 .. N - 1 /\ RowClean(keyboard_buffer', v, 0)
      BY <1>5, LineAssumption DEF PoliteInv, LineInv, IndexInv, RowClean
    <2>2. r \in CleanLines
      BY <2>1, <1>6, CleanRow
    <2>3. current_buf' = IF not_in_prev_cmd_flag' THEN [current_buf EXCEPT ![v] = r]
                                                  ELSE current_buf
      BY <1>5 DEF SaveCurrent
    <2> HIDE DEF r
    <2> QED
      BY <2>2, <2>3, <1>1 DEF PoliteInv, LineInv, BufferInv, PoliteLine
  <1>11. temp_kbd_buf'[v] \in CleanLines \cup {<<NEWLINE>>}
           /\ \A u \in Terminals \ {v} : temp_kbd_buf'[u] = temp_kbd_buf[u]
    <2>1. Append(<< >>, NEWLINE) = <<NEWLINE>>
      OBVIOUS
    <2>2. CASE UNCHANGED temp_kbd_buf
      BY <2>2, <1>1 DEF PoliteLine
    <2>3. CASE temp_kbd_buf' = [temp_kbd_buf EXCEPT ![v] = Append(@, NEWLINE)]
      <3>1. temp_kbd_buf' = [temp_kbd_buf EXCEPT ![v] = <<NEWLINE>>]
        BY <2>1, <2>3, <1>2
      <3>2. temp_kbd_buf \in [Terminals -> Lines(N)]
        BY DEF PoliteInv, LineInv, BufferInv
      <3> QED
        BY <3>1, <3>2
    <2> QED
      BY <2>2, <2>3, <1>5 DEF SaveTyped
  <1>12. /\ ~sys_read_flag'[v] /\ keyboard_cursor_idx'[v] = 0
         /\ keyboard_buffer_end_idx'[v] = 0 /\ distance_from_right'[v] = 0
         /\ \A u \in Terminals \ {v} :
              /\ sys_read_flag'[u] = sys_read_flag[u]
              /\ keyboard_cursor_idx'[u] = keyboard_cursor_idx[u]
              /\ keyboard_buffer_end_idx'[u] = keyboard_buffer_end_idx[u]
              /\ distance_from_right'[u] = distance_from_right[u]
    BY <1>5 DEF PoliteInv, FlagsType, LineInv, IndexInv
  <1>13. PoliteLine(v)'
    BY <1>9, <1>10, <1>11, <1>12 DEF PoliteLine
  <1>14. \A u \in Terminals \ {v} : SameLine(u)
    BY <1>5, <1>7, <1>9, <1>10, <1>11, <1>12 DEF SameLine
  <1>15. FlagsType' /\ ~lost'
    BY <1>5 DEF PoliteInv, FlagsType
  <1> QED
    BY <1>13, <1>14, <1>15, PoliteStepInv

\* A row without text has a cell that ends it in front.
LEMMA EmptyText ==
  ASSUME LineInv, NEW t \in Terminals, Text(t) = << >>
  PROVE  keyboard_buffer[Addr(t, 0)] \notin Clean
  <1> DEFINE r == Row(keyboard_buffer, t, KEYBOARD_BUFFER_SIZE)
             stop == {NUL, NEWLINE}
  <1>1. KEYBOARD_BUFFER_SIZE \in 0 .. KEYBOARD_BUFFER_SIZE /\ KEYBOARD_BUFFER_SIZE > 0
    BY LineAssumption
  <1>2. /\ r \in Lines(KEYBOARD_BUFFER_SIZE) /\ Len(r) = KEYBOARD_BUFFER_SIZE
        /\ \A i \in 1 .. KEYBOARD_BUFFER_SIZE : r[i] = keyboard_buffer[Addr(t, i - 1)]
    BY <1>1, RowIsLine DEF LineInv, MemoryInv
  <1>3. r \in Seq(Cells)
    BY <1>2 DEF Lines
  <1>4. UpTo(r, stop) = << >> /\ Len(UpTo(r, stop)) = 0
    BY DEF Text
  <1> HIDE DEF r, stop
  <1>5. r[0 + 1] \in stop
    BY <1>1, <1>2, <1>3, <1>4, UpToCuts
  <1>6. r[1] = keyboard_buffer[Addr(t, 0)]
    <2>1. 1 \in 1 .. KEYBOARD_BUFFER_SIZE /\ 1 - 1 = 0
      BY <1>1, LineAssumption
    <2> QED
      BY <1>2, <2>1
  <1> QED
    BY <1>5, <1>6 DEF stop, Clean

LEMMA CtrlLStaysPolite ==
  ASSUME PoliteInv, NEW v \in Terminals, sys_read_flag[v], PressCtrlL(v),
         HarmlessClear(v), LineInv'
  PROVE  PoliteInv'
  <1> DEFINE i == keyboard_cursor_idx[v]
             e == keyboard_buffer_end_idx[v]
             N == KEYBOARD_BUFFER_SIZE
             r == Row(keyboard_buffer, v, i)
             once == Memset(keyboard_buffer, 0, N)
  <1>1. /\ PoliteLine(v) /\ e \in 0 .. N - 1 /\ i \in 0 .. e
        /\ distance_from_right[v] = e - i
    BY PoliteEnds
  <1>2. distance_from_right[v] = 0
    BY DEF HarmlessClear
  <1>3. i = e /\ i \in 0 .. N - 1
    BY <1>1, <1>2
  <1>4. keyboard_buffer \in [Addresses -> Cells]
    BY DEF PoliteInv, LineInv, MemoryInv
  <1>5. r \in CleanLines
    BY <1>1, <1>3, <1>4, CleanRow DEF PoliteLine
  <1>6. /\ temp_kbd_buf' = [temp_kbd_buf EXCEPT ![v] = r]
        /\ keyboard_buffer' = Memset(once, v, N)
        /\ sys_read_flag' = [sys_read_flag EXCEPT ![v] = FALSE]
        /\ re_echo_flag' = [re_echo_flag EXCEPT ![v] = TRUE]
        /\ keyboard_cursor_idx' = [keyboard_cursor_idx EXCEPT ![v] = 0]
        /\ keyboard_buffer_end_idx' = [keyboard_buffer_end_idx EXCEPT ![v] = 0]
        /\ UNCHANGED <<lost, reading, distance_from_right, last_buf, current_buf>>
    BY DEF PressCtrlL, processVars, historyVars
  <1> HIDE DEF r
  <1>7. /\ temp_kbd_buf'[v] = r /\ ~sys_read_flag'[v]
        /\ keyboard_cursor_idx'[v] = 0 /\ keyboard_buffer_end_idx'[v] = 0
        /\ \A u \in Terminals \ {v} :
             /\ sys_read_flag'[u] = sys_read_flag[u]
             /\ re_echo_flag'[u] = re_echo_flag[u]
             /\ keyboard_cursor_idx'[u] = keyboard_cursor_idx[u]
             /\ keyboard_buffer_end_idx'[u] = keyboard_buffer_end_idx[u]
             /\ temp_kbd_buf'[u] = temp_kbd_buf[u]
    BY <1>6 DEF PoliteInv, FlagsType, LineInv, IndexInv, BufferInv
  <1>8. PoliteLine(v)'
    BY <1>1, <1>2, <1>5, <1>6, <1>7 DEF PoliteLine
  <1>9. N \in 0 .. N /\ 0 \in Terminals /\ once \in [Addresses -> Cells]
    BY <1>4, MemsetType, LineAssumption DEF Terminals
  <1>10. ASSUME NEW u \in Terminals \ {v}
         PROVE  \A j \in 0 .. keyboard_buffer_end_idx[u] - 1 :
                  keyboard_buffer'[Addr(u, j)] = keyboard_buffer[Addr(u, j)]
    <2>1. CASE u # 0
      <3>1. \A j \in 0 .. N - 1 : once[Addr(u, j)] = keyboard_buffer[Addr(u, j)]
        BY <1>4, <1>9, <2>1, MemsetRows
      <3> HIDE DEF once
      <3>2. \A j \in 0 .. N - 1 : keyboard_buffer'[Addr(u, j)] = once[Addr(u, j)]
        BY <1>6, <1>9, MemsetRows
      <3> QED
        BY <3>1, <3>2, OtherRows
    <2>2. CASE u = 0
      <3>1. Text(0) = << >>
        BY <2>2 DEF HarmlessClear
      <3>2. keyboard_buffer[Addr(0, 0)] \notin Clean
        BY <3>1, <1>9, EmptyText DEF PoliteInv
      <3>3. keyboard_buffer_end_idx[0] \in 0 .. N - 1 /\ PoliteLine(0)
        BY <1>9, PoliteEnds
      <3>4. keyboard_buffer_end_idx[0] = 0
        <4> SUFFICES ASSUME keyboard_buffer_end_idx[0] # 0
                     PROVE  FALSE
          OBVIOUS
        <4>1. RowClean(keyboard_buffer, 0, keyboard_buffer_end_idx[0])
          BY <3>3 DEF PoliteLine
        <4>2. 0 \in 0 .. keyboard_buffer_end_idx[0] - 1
          BY <3>3
        <4> QED
          BY <4>1, <4>2, <3>2 DEF RowClean
      <3> QED
        BY <2>2, <3>4
    <2> QED
      BY <2>1, <2>2
  <1>11. \A u \in Terminals \ {v} : SameLine(u)
    BY <1>6, <1>7, <1>10 DEF SameLine
  <1>12. FlagsType' /\ ~lost'
    BY <1>6 DEF PoliteInv, FlagsType
  <1> QED
    BY <1>8, <1>11, <1>12, PoliteStepInv

-----------------------------------------------------------------------------
(* The processes.                                                           *)

\* What _sys_read_terminal puts on the line again is the line Ctrl-L cleared,
\* and not the newline that ended another program's read.
LEMMA EchoedIsClean ==
  ASSUME PoliteInv, NEW t \in Terminals, EchoTyped(t)
  PROVE  \E n \in 0 .. KEYBOARD_BUFFER_SIZE - 1 :
           /\ keyboard_cursor_idx' = [keyboard_cursor_idx EXCEPT ![t] = n]
           /\ keyboard_buffer_end_idx' = [keyboard_buffer_end_idx EXCEPT ![t] = n]
           /\ RowClean(keyboard_buffer', t, n)
           /\ current_buf' = [current_buf EXCEPT ![t] = Row(keyboard_buffer', t, n)]
           /\ n = IF temp_kbd_buf[t] = <<NEWLINE>> THEN 0 ELSE Len(temp_kbd_buf[t])
  <1> DEFINE N == KEYBOARD_BUFFER_SIZE
             typed == temp_kbd_buf[t]
             kb == Memcpy(Memset(keyboard_buffer, t, N), t, typed)
             i == Len(UpTo(typed, {NEWLINE}))
             cur == EchoedCursor(kb, t, i, Len(typed))
  <1>1. typed \in CleanLines \cup {<<NEWLINE>>}
    BY DEF PoliteInv, PoliteLine
  <1>2. typed \in Lines(N) /\ typed \in Seq(Cells) /\ Len(typed) \in Nat
    BY DEF PoliteInv, LineInv, BufferInv, Lines
  <1>3. /\ keyboard_buffer' = kb
        /\ keyboard_cursor_idx' = [keyboard_cursor_idx EXCEPT ![t] = cur]
        /\ keyboard_buffer_end_idx' = [keyboard_buffer_end_idx EXCEPT ![t] = cur]
        /\ current_buf' = [current_buf EXCEPT ![t] = Row(kb, t, cur)]
    BY DEF EchoTyped
  <1>4. N \in 0 .. N /\ N > 0 /\ NUL # NEWLINE
    BY LineAssumption
  <1>5. /\ i \in 0 .. Len(typed)
        /\ \A k \in 1 .. i : typed[k] \notin {NEWLINE}
        /\ i < Len(typed) => typed[i + 1] \in {NEWLINE}
    BY <1>2, UpToCuts
  <1>6. kb = Memcpy(Memset(keyboard_buffer, t, N), t, typed)
    OBVIOUS
  <1> HIDE DEF typed, i, kb
  <1>7. \A j \in 0 .. N - 1 :
          kb[Addr(t, j)] = IF j < Len(typed) THEN typed[j + 1] ELSE NUL
    <2> SUFFICES ASSUME NEW j \in 0 .. N - 1
                 PROVE  kb[Addr(t, j)] = IF j < Len(typed) THEN typed[j + 1] ELSE NUL
      OBVIOUS
    <2>1. j < N
      BY LineAssumption
    <2> QED
      BY <1>2, <1>3, <1>4, <1>6, <2>1, CopyInRow
  <1>8. CASE typed \in CleanLines
    <2>1. Len(typed) \in 0 .. N - 1 /\ \A k \in 1 .. Len(typed) : typed[k] \in Clean
      BY <1>8, CleanAreLines
    <2>2. i = Len(typed)
      <3>1. ASSUME i < Len(typed) PROVE FALSE
        <4>1. i + 1 \in 1 .. Len(typed)
          BY <3>1, <1>2, <1>5
        <4> QED
          BY <4>1, <3>1, <1>5, <2>1 DEF Clean
      <3> QED
        BY <3>1, <1>2, <1>5
    <2>3. kb[Addr(t, i)] = NUL
      BY <2>1, <2>2, <1>2, <1>7
    <2>4. cur = Len(typed)
      BY <2>3, <1>4 DEF EchoedCursor
    <2>5. RowClean(kb, t, Len(typed))
      <3> SUFFICES ASSUME NEW j \in 0 .. Len(typed) - 1
                   PROVE  kb[Addr(t, j)] \in Clean
        BY DEF RowClean
      <3>1. j \in 0 .. N - 1 /\ j < Len(typed) /\ j + 1 \in 1 .. Len(typed)
        BY <2>1, LineAssumption
      <3> QED
        BY <3>1, <1>7, <2>1
    <2>6. typed # <<NEWLINE>>
      <3> SUFFICES ASSUME typed = <<NEWLINE>> PROVE FALSE
        OBVIOUS
      <3>1. 1 \in 1 .. Len(typed) /\ typed[1] = NEWLINE
        OBVIOUS
      <3> QED
        BY <3>1, <2>1 DEF Clean
    <2> HIDE DEF cur
    <2> QED
      BY <1>3, <2>1, <2>4, <2>5, <2>6 DEF typed
  <1>9. CASE typed = <<NEWLINE>>
    <2>1. Len(typed) = 1 /\ typed[1] = NEWLINE
      BY <1>9
    <2>2. i = 0
      BY <2>1, <1>5
    <2>3. kb[Addr(t, 0)] = NEWLINE
      <3>1. 0 \in 0 .. N - 1 /\ 0 < Len(typed) /\ 0 + 1 = 1
        BY <2>1, LineAssumption
      <3> QED
        BY <3>1, <2>1, <1>7
    <2>4. cur = 0
      BY <2>1, <2>2, <2>3 DEF EchoedCursor
    <2>5. RowClean(kb, t, 0) /\ 0 \in 0 .. N - 1
      BY LineAssumption DEF RowClean
    <2> HIDE DEF cur
    <2> QED
      BY <1>3, <1>9, <2>4, <2>5 DEF typed
  <1> QED
    BY <1>1, <1>8, <1>9

LEMMA ReadStaysPolite ==
  ASSUME PoliteInv, NEW t \in Terminals, NEW m, ReadTerminal(t, m),
         shell_flag[t] \/ re_echo_flag[t] \/ temp_kbd_buf[t] = << >>, LineInv'
  PROVE  PoliteInv'
  <1> DEFINE N == KEYBOARD_BUFFER_SIZE
  <1>1. PoliteLine(t) /\ ~sys_read_flag[t]
    BY DEF PoliteInv, PoliteLine, ReadTerminal
  <1>2. /\ keyboard_cursor_idx[t] = 0 /\ keyboard_buffer_end_idx[t] = 0
        /\ distance_from_right[t] = 0
    BY <1>1 DEF PoliteLine
  <1>3. /\ sys_read_flag' = [sys_read_flag EXCEPT ![t] = TRUE]
        /\ reading' = [reading EXCEPT ![t] = TRUE]
        /\ UNCHANGED <<lost, distance_from_right, last_buf>>
    BY DEF ReadTerminal
  <1>4. /\ sys_read_flag'[t] /\ reading'[t]
        /\ \A u \in Terminals \ {t} :
             sys_read_flag'[u] = sys_read_flag[u] /\ reading'[u] = reading[u]
    BY <1>3 DEF PoliteInv, FlagsType
  <1>5. N \in 0 .. N /\ keyboard_buffer \in [Addresses -> Cells]
          /\ keyboard_buffer' \in [Addresses -> Cells]
    BY LineAssumption DEF PoliteInv, LineInv, MemoryInv
  <1>6. CASE re_echo_flag[t] \/ (shell_flag[t] /\ temp_kbd_buf[t] # << >>)
    <2>1. EchoTyped(t)
      BY <1>6 DEF ReadTerminal
    <2>2. PICK n \in 0 .. N - 1 :
            /\ keyboard_cursor_idx' = [keyboard_cursor_idx EXCEPT ![t] = n]
            /\ keyboard_buffer_end_idx' = [keyboard_buffer_end_idx EXCEPT ![t] = n]
            /\ RowClean(keyboard_buffer', t, n)
            /\ current_buf' = [current_buf EXCEPT ![t] = Row(keyboard_buffer', t, n)]
      BY <2>1, EchoedIsClean
    <2>3. /\ re_echo_flag' = [re_echo_flag EXCEPT ![t] = FALSE]
          /\ temp_kbd_buf' = [temp_kbd_buf EXCEPT ![t] = << >>]
          /\ keyboard_buffer'
               = Memcpy(Memset(keyboard_buffer, t, N), t, temp_kbd_buf[t])
      BY <2>1 DEF EchoTyped
    <2> DEFINE r == Row(keyboard_buffer', t, n)
    <2>4. r \in CleanLines
      BY <1>5, <2>2, CleanRow
    <2> HIDE DEF r
    <2>5. /\ keyboard_cursor_idx'[t] = n /\ keyboard_buffer_end_idx'[t] = n
          /\ current_buf'[t] = r /\ ~re_echo_flag'[t] /\ temp_kbd_buf'[t] = << >>
          /\ \A u \in Terminals \ {t} :
               /\ keyboard_cursor_idx'[u] = keyboard_cursor_idx[u]
               /\ keyboard_buffer_end_idx'[u] = keyboard_buffer_end_idx[u]
               /\ current_buf'[u] = current_buf[u]
               /\ re_echo_flag'[u] = re_echo_flag[u]
               /\ temp_kbd_buf'[u] = temp_kbd_buf[u]
      BY <2>2, <2>3 DEF PoliteInv, FlagsType, LineInv, IndexInv, BufferInv, r
    <2>6. temp_kbd_buf[t] \in Lines(N)
      BY DEF PoliteInv, LineInv, BufferInv
    <2>7. \A u \in Terminals \ {t} : \A j \in 0 .. keyboard_buffer_end_idx[u] - 1 :
            keyboard_buffer'[Addr(u, j)] = keyboard_buffer[Addr(u, j)]
      BY <1>5, <2>3, <2>6, CopyInRow
    <2>8. n + 0 = n /\ n < N
      BY LineAssumption
    <2>9. PoliteLine(t)'
      BY <1>1, <1>2, <1>3, <1>4, <2>2, <2>4, <2>5, <2>8, EmptyIsClean DEF PoliteLine
    <2>10. \A u \in Terminals \ {t} : SameLine(u)
      BY <1>3, <1>4, <2>5, <2>7 DEF SameLine
    <2>11. FlagsType' /\ ~lost'
      BY <1>3, <2>3 DEF PoliteInv, FlagsType
    <2> QED
      BY <2>9, <2>10, <2>11, PoliteStepInv
  <1>7. CASE ~(re_echo_flag[t] \/ (shell_flag[t] /\ temp_kbd_buf[t] # << >>))
    <2>1. /\ keyboard_buffer' = Memset(keyboard_buffer, t, N)
          /\ UNCHANGED <<keyboard_cursor_idx, keyboard_buffer_end_idx, current_buf,
                         re_echo_flag, temp_kbd_buf>>
      BY <1>7 DEF ReadTerminal
    <2>2. temp_kbd_buf[t] = << >> /\ ~re_echo_flag[t]
      BY <1>7
    <2>3. ASSUME NEW u \in Terminals \ {t}
          PROVE  \A j \in 0 .. keyboard_buffer_end_idx[u] - 1 :
                   keyboard_buffer'[Addr(u, j)] = keyboard_buffer[Addr(u, j)]
      <3>1. \A j \in 0 .. N - 1 : keyboard_buffer'[Addr(u, j)] = keyboard_buffer[Addr(u, j)]
        BY <1>5, <2>1, MemsetRows
      <3> QED
        BY <3>1, OtherRows
    <2>4. RowClean(keyboard_buffer', t, 0) /\ 0 < N /\ 0 + 0 = 0
      BY LineAssumption DEF RowClean
    <2>5. PoliteLine(t)'
      BY <1>1, <1>2, <1>3, <1>4, <2>1, <2>2, <2>4 DEF PoliteLine
    <2>6. \A u \in Terminals \ {t} : SameLine(u)
      BY <1>3, <1>4, <2>1, <2>3 DEF SameLine
    <2>7. FlagsType' /\ ~lost'
      BY <1>3, <2>1 DEF PoliteInv, FlagsType
    <2> QED
      BY <2>5, <2>6, <2>7, PoliteStepInv
  <1> QED
    BY <1>6, <1>7

LEMMA ReadReturnsStaysPolite ==
  ASSUME PoliteInv, NEW t \in Terminals, ReadReturns(t), LineInv'
  PROVE  PoliteInv'
  <1>1. /\ reading' = [reading EXCEPT ![t] = FALSE] /\ ~sys_read_flag[t]
        /\ UNCHANGED <<lost, sys_read_flag, re_echo_flag, temp_kbd_buf, last_buf, current_buf,
                       keyboard_buffer, keyboard_cursor_idx, keyboard_buffer_end_idx,
                       distance_from_right>>
    BY DEF ReadReturns, lineVars, tempVars, historyVars
  <1>2. \A u \in Terminals \ {t} : reading'[u] = reading[u]
    BY <1>1 DEF PoliteInv, FlagsType
  <1>3. PoliteLine(t)'
    BY <1>1 DEF PoliteInv, PoliteLine
  <1>4. \A u \in Terminals \ {t} : SameLine(u)
    BY <1>1, <1>2 DEF SameLine
  <1>5. FlagsType' /\ ~lost'
    BY <1>1 DEF PoliteInv, FlagsType
  <1> QED
    BY <1>3, <1>4, <1>5, PoliteStepInv

LEMMA OtherStepsStayPolite ==
  ASSUME PoliteInv, LineInv',
         UNCHANGED <<lost, reading, sys_read_flag, re_echo_flag, temp_kbd_buf, last_buf,
                     current_buf, lineVars>>
  PROVE  PoliteInv'
  BY DEF PoliteInv, FlagsType, PoliteLine, RowClean, lineVars

LEMMA PoliteInvInit ==
  ASSUME LineInit
  PROVE  PoliteInv
  <1>1. FlagsType /\ ~lost
    BY DEF LineInit, FlagsType
  <1>2. \A t \in Terminals : PoliteLine(t)
    BY EmptyIsClean DEF LineInit, PoliteLine
  <1> QED
    BY <1>1, <1>2, LineInvInit DEF PoliteInv

LEMMA PoliteInvStep ==
  ASSUME NUL \notin Chars, PoliteInv, [PoliteNext]_lvars
  PROVE  PoliteInv'
  <1> DEFINE v == visible_terminal
  <1>1. v \in Terminals /\ LineInv
    BY DEF PoliteInv, LineInv, MemoryInv
  <1>2. LineInv'
    BY <1>1, LineInvStep DEF PoliteNext, LineStep, Process
  <1>3. CASE sys_read_flag[v] /\ Key(v)
    <2>1. ASSUME NEW c \in Chars, PressChar(v, c) PROVE PoliteInv'
      BY <1>1, <1>2, <1>3, <2>1, CleanCharKeeps
    <2> QED
      BY <1>1, <1>2, <1>3, <2>1, EnterStaysPolite, BackspaceStaysPolite, ArrowsStayPolite,
         UpDownStayPolite DEF Key, EditKey
  <1>4. CASE Overrun(v)
    <2>1. keyboard_buffer_end_idx[v] \in 0 .. KEYBOARD_BUFFER_SIZE - 1
      BY <1>1, PoliteEnds
    <2>2. ~(keyboard_buffer_end_idx[v] < 0)
      BY <2>1
    <2> QED
      BY <1>4, <2>2 DEF Overrun, NegativeLength
  <1>5. CASE sys_read_flag[v] /\ HarmlessClear(v) /\ PressCtrlL(v)
    BY <1>1, <1>2, <1>5, CtrlLStaysPolite
  <1>6. ASSUME NEW t \in Terminals, NEW n, ReadTerminal(t, n),
               shell_flag[t] \/ re_echo_flag[t] \/ temp_kbd_buf[t] = << >>
        PROVE  PoliteInv'
    BY <1>2, <1>6, ReadStaysPolite
  <1>7. ASSUME NEW t \in Terminals, ReadReturns(t) PROVE PoliteInv'
    BY <1>2, <1>7, ReadReturnsStaysPolite
  <1>8. ASSUME NEW t \in Terminals, ChangeProgram(t) PROVE PoliteInv'
    BY <1>2, <1>8, OtherStepsStayPolite DEF ChangeProgram, Halt, Execute, tempVars,
       historyVars
  <1>9. ASSUME NEW t \in Terminals, SwitchTerminal(t) PROVE PoliteInv'
    BY <1>2, <1>9, OtherStepsStayPolite DEF SwitchTerminal, processVars, tempVars,
       historyVars
  <1>10. CASE UNCHANGED lvars
    BY <1>2, <1>10, OtherStepsStayPolite DEF lvars, processVars, tempVars, historyVars
  <1> QED
    BY <1>3, <1>4, <1>5, <1>6, <1>7, <1>8, <1>9, <1>10 DEF PoliteNext

LEMMA PoliteInvariant ==
  ASSUME NUL \notin Chars
  PROVE  PoliteSpec => []PoliteInv
  BY PoliteInvInit, PoliteInvStep, PTL DEF PoliteSpec

\* For users who type while a process reads, and type no NUL: the cursor and the
\* characters to its right make up the line, which is the start of the row, so
\* every character of it reaches the reader.
THEOREM CursorStaysInLine ==
  ASSUME NUL \notin Chars
  PROVE  PoliteSpec => []CursorInLine
  <1>1. ASSUME PoliteInv PROVE CursorInLine
    <2> SUFFICES ASSUME NEW t \in Terminals, sys_read_flag[t]
                 PROVE  /\ keyboard_cursor_idx[t] + distance_from_right[t]
                             = keyboard_buffer_end_idx[t]
                        /\ keyboard_buffer_end_idx[t] < KEYBOARD_BUFFER_SIZE
                        /\ \A i \in 1 .. keyboard_buffer_end_idx[t] :
                             keyboard_buffer[Addr(t, i - 1)] \notin {NUL, NEWLINE}
      BY DEF CursorInLine
    <2>1. PoliteLine(t) /\ keyboard_buffer_end_idx[t] \in 0 .. KEYBOARD_BUFFER_SIZE - 1
      BY <1>1, PoliteEnds
    <2>2. RowClean(keyboard_buffer, t, keyboard_buffer_end_idx[t])
      BY <2>1 DEF PoliteLine
    <2>3. \A i \in 1 .. keyboard_buffer_end_idx[t] :
            keyboard_buffer[Addr(t, i - 1)] \notin {NUL, NEWLINE}
      BY <2>1, <2>2 DEF RowClean, Clean
    <2> QED
      BY <2>1, <2>3 DEF PoliteLine
  <1> QED
    BY <1>1, PoliteInvariant, PTL

\* For the same users memset and memcpy never get a negative length: no sequence
\* of keys makes keyboard_interrupt overwrite the kernel.
THEOREM LengthsStayCounts ==
  ASSUME NUL \notin Chars
  PROVE  PoliteSpec => []LengthsAreCounts
  <1>1. ASSUME PoliteInv PROVE LengthsAreCounts
    BY <1>1 DEF PoliteInv, LengthsAreCounts
  <1> QED
    BY <1>1, PoliteInvariant, PTL

-----------------------------------------------------------------------------
(* The echo.                                                                *)

\* Echo is off only behind a character that did not fit.
EchoInv ==
  /\ echo_flag \in [Terminals -> BOOLEAN]
  /\ \A t \in Terminals :
       echo_flag[t]
         \/ (sys_read_flag[t] /\ keyboard_cursor_idx[t] = KEYBOARD_BUFFER_SIZE - 1)

\* Every key but Up and Down that moves the cursor sets the flag again.
LEMMA EchoInvStep ==
  ASSUME "up" \notin EditKeys, "down" \notin EditKeys,
         PoliteInv, EchoInv, [PoliteNext]_lvars
  PROVE  EchoInv'
  <1> DEFINE v == visible_terminal
  <1>1. v \in Terminals /\ sys_read_flag \in [Terminals -> BOOLEAN]
          /\ keyboard_cursor_idx \in [Terminals -> Int]
    BY DEF PoliteInv, LineInv, MemoryInv, FlagsType, IndexInv
  <1>2. ASSUME echo_flag' = [echo_flag EXCEPT ![v] = TRUE],
               \A u \in Terminals \ {v} :
                 /\ sys_read_flag'[u] = sys_read_flag[u]
                 /\ keyboard_cursor_idx'[u] = keyboard_cursor_idx[u]
        PROVE  EchoInv'
    BY <1>1, <1>2 DEF EchoInv
  <1>3. ASSUME UNCHANGED <<echo_flag, sys_read_flag, keyboard_cursor_idx>>
        PROVE  EchoInv'
    BY <1>3 DEF EchoInv
  <1>4. CASE PressEnter(v)
    <2>1. /\ echo_flag' = [echo_flag EXCEPT ![v] = TRUE]
          /\ sys_read_flag' = [sys_read_flag EXCEPT ![v] = FALSE]
          /\ keyboard_cursor_idx' = [keyboard_cursor_idx EXCEPT ![v] = 0]
      BY <1>4 DEF PressEnter
    <2> QED
      BY <1>1, <1>2, <2>1
  <1>5. CASE PressBackspace(v)
    <2>1. CASE BackspaceAtStart(v)
      BY <1>3, <2>1 DEF BackspaceAtStart, lineVars
    <2>2. CASE BackspaceAtEnd(v) \/ BackspaceInside(v)
      <3>1. /\ echo_flag' = [echo_flag EXCEPT ![v] = TRUE]
            /\ UNCHANGED sys_read_flag
            /\ keyboard_cursor_idx' = [keyboard_cursor_idx EXCEPT ![v] = @ - 1]
        BY <2>2 DEF BackspaceAtEnd, BackspaceInside
      <3> QED
        BY <1>1, <1>2, <3>1
    <2> QED
      BY <1>5, <2>1, <2>2 DEF PressBackspace
  <1>6. CASE PressLeft(v)
    <2>1. /\ echo_flag' = [echo_flag EXCEPT ![v] = TRUE]
          /\ UNCHANGED sys_read_flag
          /\ keyboard_cursor_idx' = [keyboard_cursor_idx EXCEPT ![v] = @ - 1]
      BY <1>6 DEF PressLeft
    <2> QED
      BY <1>1, <1>2, <2>1
  <1>7. CASE PressRight(v)
    <2>1. PICK r \in {0, 1} :
            keyboard_cursor_idx' = [keyboard_cursor_idx EXCEPT ![v] = @ + r]
      BY <1>7 DEF PressRight
    <2>2. echo_flag' = [echo_flag EXCEPT ![v] = TRUE] /\ UNCHANGED sys_read_flag
      BY <1>7 DEF PressRight
    <2> QED
      BY <1>1, <1>2, <2>1, <2>2
  <1>8. CASE PressCtrlL(v)
    <2>1. /\ echo_flag' = [echo_flag EXCEPT ![v] = TRUE]
          /\ sys_read_flag' = [sys_read_flag EXCEPT ![v] = FALSE]
          /\ keyboard_cursor_idx' = [keyboard_cursor_idx EXCEPT ![v] = 0]
      BY <1>8 DEF PressCtrlL
    <2> QED
      BY <1>1, <1>2, <2>1
  <1>9. ASSUME NEW c \in Chars, PressChar(v, c), sys_read_flag[v] PROVE EchoInv'
    <2>1. UNCHANGED sys_read_flag
      BY <1>9 DEF PressChar
    <2>2. CASE keyboard_cursor_idx[v] = KEYBOARD_BUFFER_SIZE - 1
      <3>1. echo_flag' = [echo_flag EXCEPT ![v] = FALSE]
        BY <1>9, <2>2 DEF PressChar, EchoInv
      <3>2. ~HasRoom(v)
        BY <2>2, LineAssumption DEF HasRoom
      <3>3. UNCHANGED keyboard_cursor_idx
        BY <1>9, <3>2 DEF PressChar, lineVars
      <3> QED
        BY <1>1, <1>9, <2>1, <2>2, <3>1, <3>3 DEF EchoInv
    <2>3. CASE keyboard_cursor_idx[v] # KEYBOARD_BUFFER_SIZE - 1
      <3>1. echo_flag[v] = TRUE
        BY <1>1, <2>3 DEF EchoInv
      <3>2. echo_flag' = [echo_flag EXCEPT ![v] = TRUE]
        BY <1>9, <2>3, <3>1 DEF PressChar
      <3>3. \A u \in Terminals \ {v} : keyboard_cursor_idx'[u] = keyboard_cursor_idx[u]
        BY <1>1, <1>9 DEF PressChar, lineVars
      <3> QED
        BY <1>2, <2>1, <3>2, <3>3
    <2> QED
      BY <2>2, <2>3
  <1>10. ASSUME NEW t \in Terminals, NEW n, ReadTerminal(t, n) PROVE EchoInv'
    <2>1. ~sys_read_flag[t] /\ UNCHANGED echo_flag
      BY <1>10 DEF ReadTerminal, PoliteInv, PoliteLine
    <2>2. \A u \in Terminals \ {t} :
            /\ sys_read_flag'[u] = sys_read_flag[u]
            /\ keyboard_cursor_idx'[u] = keyboard_cursor_idx[u]
      BY <1>1, <1>10 DEF ReadTerminal, EchoTyped
    <2> QED
      BY <2>1, <2>2 DEF EchoInv
  <1>11. ASSUME NEW t \in Terminals,
                ReadReturns(t) \/ ChangeProgram(t) \/ SwitchTerminal(t)
         PROVE  EchoInv'
    BY <1>3, <1>11 DEF ReadReturns, ChangeProgram, Halt, Execute, SwitchTerminal, lineVars
  <1>12. CASE UNCHANGED lvars \/ Overrun(v)
    BY <1>3, <1>12 DEF lvars, Overrun, lineVars
  <1>13. CASE sys_read_flag[v] /\ Key(v)
    BY <1>4, <1>5, <1>6, <1>7, <1>9, <1>13 DEF Key, EditKey
  <1> QED
    BY <1>8, <1>10, <1>11, <1>12, <1>13 DEF PoliteNext

\* A character is echoed exactly if it is stored, full lines included; Up and
\* Down are left out, since they leave the flag off after a full line.
THEOREM EchoTruthful ==
  ASSUME NUL \notin Chars, "up" \notin EditKeys, "down" \notin EditKeys
  PROVE  PoliteSpec => EchoIffStored
  <1>1. ASSUME LineInit PROVE EchoInv
    BY <1>1 DEF LineInit, EchoInv
  <1>2. ASSUME PoliteInv, EchoInv, NEW c \in Chars, PressChar(visible_terminal, c)
        PROVE  echo_flag'[visible_terminal] <=> HasRoom(visible_terminal)
    <2> DEFINE v == visible_terminal
               i == keyboard_cursor_idx[v]
    <2>1. v \in Terminals
      BY <1>2 DEF PoliteInv, LineInv, MemoryInv
    <2>2. /\ keyboard_buffer_end_idx[v] \in 0 .. KEYBOARD_BUFFER_SIZE - 1
          /\ i \in 0 .. keyboard_buffer_end_idx[v]
      BY <1>2, <2>1, PoliteEnds
    <2>3. HasRoom(v) <=> i # KEYBOARD_BUFFER_SIZE - 1
      BY <2>2, LineAssumption DEF HasRoom
    <2>4. echo_flag'[v] <=> (echo_flag[v] /\ i # KEYBOARD_BUFFER_SIZE - 1)
      BY <1>2, <2>1 DEF PressChar, EchoInv
    <2>5. i # KEYBOARD_BUFFER_SIZE - 1 => echo_flag[v]
      BY <1>2, <2>1 DEF EchoInv
    <2> QED
      BY <2>3, <2>4, <2>5
  <1>3. ASSUME PoliteInv, EchoInv, [PoliteNext]_lvars
        PROVE  [\A c \in Chars :
                  PressChar(visible_terminal, c)
                    => (echo_flag'[visible_terminal] <=> HasRoom(visible_terminal))]_lvars
    BY <1>2, <1>3
  <1>4. PoliteSpec => []PoliteInv
    BY PoliteInvariant
  <1>5. ASSUME PoliteInv, EchoInv, [PoliteNext]_lvars PROVE EchoInv'
    BY <1>5, EchoInvStep
  <1> QED
    BY <1>1, <1>3, <1>4, <1>5, PTL DEF PoliteSpec, EchoIffStored

-----------------------------------------------------------------------------
(* The line editor.                                                         *)

\* What a read that ends relies on: it is long enough for a line, the row has
\* an end, and a line cleared by Ctrl-L is a line, its row empty.
ReaderOK(t) ==
  /\ reading[t] =>
       nbytes[t] \in {KEYBOARD_BUFFER_SIZE - 1, KEYBOARD_BUFFER_SIZE}
  /\ IF re_echo_flag[t] THEN temp_kbd_buf[t] \in CleanLines
                        ELSE temp_kbd_buf[t] \in {<< >>, <<NEWLINE>>}
  /\ reading[t] /\ ~sys_read_flag[t] =>
       \E e \in 0 .. KEYBOARD_BUFFER_SIZE - 1 : keyboard_buffer[Addr(t, e)] \notin Clean
  /\ reading[t] /\ ~sys_read_flag[t] /\ re_echo_flag[t] =>
       keyboard_buffer[Addr(t, 0)] \notin Clean

EditorInv ==
  /\ PoliteInv
  /\ nbytes \in [Terminals -> Nat]
  /\ buf \in [Terminals -> Seq(Cells)]
  /\ \A t \in Terminals : ReaderOK(t)

\* What the editor and ReaderOK read of terminal u is as it was.
Kept(u) ==
  /\ reading'[u] = reading[u]
  /\ nbytes'[u] = nbytes[u]
  /\ buf'[u] = buf[u]
  /\ sys_read_flag'[u] = sys_read_flag[u]
  /\ re_echo_flag'[u] = re_echo_flag[u]
  /\ keyboard_cursor_idx'[u] = keyboard_cursor_idx[u]
  /\ keyboard_buffer_end_idx'[u] = keyboard_buffer_end_idx[u]
  /\ temp_kbd_buf'[u] = temp_kbd_buf[u]
  /\ last_buf'[u] = last_buf[u]
  /\ \A j \in 0 .. KEYBOARD_BUFFER_SIZE - 1 :
       keyboard_buffer'[Addr(u, j)] = keyboard_buffer[Addr(u, j)]

\* The editor's terminal u is as it was.
SameView(u) ==
  /\ Mode(u)' = Mode(u)
  /\ EditedLine(u)' = EditedLine(u)
  /\ CursorPos(u)' = CursorPos(u)
  /\ last_buf'[u] = last_buf[u]
  /\ WithoutNewline(buf'[u]) = WithoutNewline(buf[u])

\* A terminal of which nothing is stored keeps its line, and its reader its promise.
LEMMA KeptView ==
  ASSUME EditorInv, NEW u \in Terminals, Kept(u)
  PROVE  SameView(u) /\ ReaderOK(u)'
  <1>1. keyboard_buffer_end_idx[u] \in 0 .. KEYBOARD_BUFFER_SIZE - 1 /\ ReaderOK(u)
    BY PoliteEnds DEF EditorInv
  <1>2. ASSUME NEW n \in 0 .. KEYBOARD_BUFFER_SIZE
        PROVE  Row(keyboard_buffer', u, n) = Row(keyboard_buffer, u, n)
    <2>1. \A i \in 1 .. n : i - 1 \in 0 .. KEYBOARD_BUFFER_SIZE - 1
      BY LineAssumption
    <2> QED
      BY <2>1 DEF Row, Kept
  <1>3. Text(u)' = Text(u)
    <2>1. KEYBOARD_BUFFER_SIZE \in 0 .. KEYBOARD_BUFFER_SIZE
      BY LineAssumption
    <2> QED
      BY <2>1, <1>2 DEF Text
  <1>4. Line(u)' = Line(u)
    <2>1. keyboard_buffer_end_idx[u] \in 0 .. KEYBOARD_BUFFER_SIZE
      BY <1>1, LineAssumption
    <2>2. Row(keyboard_buffer', u, keyboard_buffer_end_idx'[u])
            = Row(keyboard_buffer, u, keyboard_buffer_end_idx[u])
      BY <2>1, <1>2 DEF Kept
    <2> QED
      BY <2>2 DEF Line, Kept
  <1>5. Mode(u)' = Mode(u)
    BY DEF Mode, Kept
  <1>6. EditedLine(u)' = EditedLine(u)
    BY <1>3, <1>4, <1>5 DEF EditedLine
  <1>7. CursorPos(u)' = CursorPos(u)
    BY DEF CursorPos, Kept
  <1>8. 0 \in 0 .. KEYBOARD_BUFFER_SIZE - 1
    BY LineAssumption
  <1>9. ReaderOK(u)'
    BY <1>1, <1>8 DEF ReaderOK, Kept
  <1> QED
    BY <1>5, <1>6, <1>7, <1>9 DEF SameView, Kept

\* A step that changes only what the editor of terminal v is.
LEMMA StepBecomes ==
  ASSUME NEW v \in Terminals, \A u \in Terminals \ {v} : SameView(u),
         last_buf = [t \in Terminals |-> last_buf[t]],
         last_buf' = [t \in Terminals |-> last_buf'[t]],
         NEW l, NEW p,
         Mode(v) = "editing", Mode(v)' = "editing", EditedLine(v)' = l,
         CursorPos(v)' = p, last_buf'[v] = last_buf[v], buf'[v] = buf[v]
  PROVE  Editor!Become(v, l, p)
  <1>1. [t \in Terminals |-> Mode(t)]' = [t \in Terminals |-> Mode(t)]
    BY DEF SameView
  <1>2. [t \in Terminals |-> EditedLine(t)]'
          = [[t \in Terminals |-> EditedLine(t)] EXCEPT ![v] = l]
    BY DEF SameView
  <1>3. [t \in Terminals |-> CursorPos(t)]'
          = [[t \in Terminals |-> CursorPos(t)] EXCEPT ![v] = p]
    BY DEF SameView
  <1>4. [t \in Terminals |-> WithoutNewline(buf[t])]'
          = [t \in Terminals |-> WithoutNewline(buf[t])]
    BY DEF SameView
  <1>5. last_buf' = last_buf
    BY DEF SameView
  <1> QED
    BY <1>1, <1>2, <1>3, <1>4, <1>5 DEF Editor!Become

\* The view of a terminal whose process reads, waits, or has been cleared.
LEMMA EditingView ==
  ASSUME EditorInv, NEW v \in Terminals, sys_read_flag[v]
  PROVE  /\ Mode(v) = "editing"
         /\ EditedLine(v) = Row(keyboard_buffer, v, keyboard_buffer_end_idx[v])
         /\ CursorPos(v) = keyboard_cursor_idx[v]
  <1>1. reading[v] /\ ~re_echo_flag[v]
    BY DEF EditorInv, PoliteInv, PoliteLine
  <1>2. Mode(v) = "editing"
    BY <1>1 DEF Mode
  <1>3. "editing" # "submitted"
    OBVIOUS
  <1> QED
    BY <1>1, <1>2, <1>3 DEF EditedLine, Line, CursorPos

\* The same after the step.
LEMMA EditingViewAfter ==
  ASSUME NEW v \in Terminals, sys_read_flag'[v], reading'[v], ~re_echo_flag'[v]
  PROVE  /\ Mode(v)' = "editing"
         /\ EditedLine(v)' = Row(keyboard_buffer', v, keyboard_buffer_end_idx'[v])
         /\ CursorPos(v)' = keyboard_cursor_idx'[v]
  <1>2. Mode(v)' = "editing"
    BY DEF Mode
  <1>3. "editing" # "submitted"
    OBVIOUS
  <1> QED
    BY <1>2, <1>3 DEF EditedLine, Line, CursorPos

\* Nothing is promised of a row while keys still edit it.
LEMMA ReadingOK ==
  ASSUME EditorInv, NEW v \in Terminals, sys_read_flag[v], nbytes'[v] = nbytes[v],
         sys_read_flag'[v], PoliteInv'
  PROVE  ReaderOK(v)'
  <1>1. reading[v] /\ ReaderOK(v) /\ ~re_echo_flag'[v] /\ temp_kbd_buf'[v] = << >>
    BY DEF EditorInv, PoliteInv, PoliteLine
  <1> QED
    BY <1>1 DEF ReaderOK

\* A key that edits the line of v: its step, given its new line and cursor.
EditStep(v) ==
  /\ UNCHANGED <<reading, nbytes, buf, sys_read_flag, re_echo_flag, temp_kbd_buf, last_buf>>
  /\ \A u \in Terminals \ {v} :
       /\ keyboard_cursor_idx'[u] = keyboard_cursor_idx[u]
       /\ keyboard_buffer_end_idx'[u] = keyboard_buffer_end_idx[u]
       /\ \A j \in 0 .. KEYBOARD_BUFFER_SIZE - 1 :
            keyboard_buffer'[Addr(u, j)] = keyboard_buffer[Addr(u, j)]

\* Such a step is the editor becoming the row that is now stored.
LEMMA EditStepView ==
  ASSUME EditorInv, NEW v \in Terminals, sys_read_flag[v], EditStep(v), PoliteInv'
  PROVE  /\ EditorInv'
         /\ Editor!Become(v, Row(keyboard_buffer', v, keyboard_buffer_end_idx'[v]),
                          keyboard_cursor_idx'[v])
  <1> DEFINE l == Row(keyboard_buffer', v, keyboard_buffer_end_idx'[v])
             p == keyboard_cursor_idx'[v]
  <1>1. /\ reading'[v] /\ sys_read_flag'[v] /\ ~re_echo_flag'[v]
        /\ nbytes'[v] = nbytes[v] /\ buf'[v] = buf[v] /\ last_buf'[v] = last_buf[v]
    BY DEF EditorInv, PoliteInv, PoliteLine, EditStep
  <1>2. \A u \in Terminals \ {v} : Kept(u)
    BY DEF EditStep, Kept
  <1>3. \A u \in Terminals \ {v} : SameView(u) /\ ReaderOK(u)'
    BY <1>2, KeptView
  <1>4. ReaderOK(v)'
    BY <1>1, ReadingOK
  <1>5. EditorInv'
    BY <1>3, <1>4 DEF EditorInv, EditStep
  <1>6. Mode(v) = "editing"
    BY EditingView
  <1>7. Mode(v)' = "editing" /\ EditedLine(v)' = l /\ CursorPos(v)' = p
    BY <1>1, EditingViewAfter
  <1>8. /\ last_buf = [t \in Terminals |-> last_buf[t]]
        /\ last_buf' = [t \in Terminals |-> last_buf'[t]]
    BY DEF EditorInv, PoliteInv, LineInv, BufferInv, EditStep
  <1> HIDE DEF l, p
  <1>9. Editor!Become(v, l, p)
    BY <1>1, <1>3, <1>6, <1>7, <1>8, StepBecomes
  <1> QED
    BY <1>5, <1>9 DEF l, p

\* Overtyping a sequence, or extending it at its end.
Overtypes(s, i, c, r) ==
  /\ Len(r) = IF i = Len(s) THEN Len(s) + 1 ELSE Len(s)
  /\ \A j \in 1 .. Len(r) : r[j] = IF j = i + 1 THEN c ELSE s[j]

LEMMA Overtyped ==
  ASSUME NEW S, NEW s \in Seq(S), NEW c \in S, NEW i \in 0 .. Len(s), NEW r \in Seq(S),
         Overtypes(s, i, c, r)
  PROVE  r = SubSeq(s, 1, i) \o <<c>> \o SubSeq(s, i + 2, Len(s))
  <1> DEFINE a == SubSeq(s, 1, i)
             z == SubSeq(s, i + 2, Len(s))
             w == a \o <<c>>
             x == w \o z
  <1>1. Len(s) \in Nat /\ i \in Nat /\ i <= Len(s)
    OBVIOUS
  <1>2. a \in Seq(S) /\ Len(a) = i /\ \A j \in 1 .. i : a[j] = s[j]
    BY <1>1
  <1>3. /\ z \in Seq(S)
        /\ Len(z) = IF i = Len(s) THEN 0 ELSE Len(s) - i - 1
        /\ \A j \in 1 .. Len(z) : z[j] = s[j + i + 1]
    <2>1. \A j \in i + 2 .. Len(s) : s[j] \in S
      BY <1>1
    <2>2. z \in Seq(S)
      BY <1>1, <2>1
    <2>3. Len(z) = IF i + 2 <= Len(s) THEN Len(s) - (i + 2) + 1 ELSE 0
      BY <1>1
    <2>4. Len(z) = IF i = Len(s) THEN 0 ELSE Len(s) - i - 1
      BY <1>1, <2>3
    <2>5. ASSUME NEW j \in 1 .. Len(z) PROVE z[j] = s[j + i + 1]
      <3>1. j \in 1 .. Len(s) - (i + 2) + 1 /\ (i + 2) + j - 1 = j + i + 1
        BY <1>1, <2>3
      <3>2. z[j] = s[(i + 2) + j - 1]
        BY <1>1, <3>1
      <3> QED
        BY <3>1, <3>2
    <2> QED
      BY <2>2, <2>4, <2>5
  <1> HIDE DEF a, z
  <1>4. /\ w \in Seq(S) /\ Len(w) = i + 1
        /\ \A j \in 1 .. i + 1 : w[j] = IF j = i + 1 THEN c ELSE s[j]
    BY <1>1, <1>2
  <1> HIDE DEF w
  <1>5. /\ x \in Seq(S) /\ Len(x) = i + 1 + Len(z)
        /\ \A j \in 1 .. Len(x) : x[j] = IF j <= i + 1 THEN w[j] ELSE z[j - (i + 1)]
    <2>1. w \in Seq(S) /\ z \in Seq(S) /\ Len(z) \in Nat /\ Len(w) = i + 1
      BY <1>3, <1>4
    <2>2. /\ w \o z \in Seq(S) /\ Len(w \o z) = Len(w) + Len(z)
          /\ \A j \in 1 .. Len(w) + Len(z) :
               (w \o z)[j] = IF j <= Len(w) THEN w[j] ELSE z[j - Len(w)]
      BY <2>1, ConcatProperties, Zenon
    <2>3. x = w \o z
      OBVIOUS
    <2> HIDE DEF x
    <2> QED
      BY <2>1, <2>2, <2>3, Zenon
  <1> HIDE DEF x
  <1>6. Len(x) = Len(r)
    <2> DEFINE l == Len(s)
               m == Len(z)
    <2>1. l \in Nat /\ i \in 0 .. l
      OBVIOUS
    <2>2. m = IF i = l THEN 0 ELSE l - i - 1
      BY <1>3
    <2>3. Len(x) = i + 1 + m
      BY <1>5
    <2>4. Len(r) = IF i = l THEN l + 1 ELSE l
      BY DEF Overtypes
    <2> HIDE DEF l, m
    <2> QED
      BY <2>1, <2>2, <2>3, <2>4
  <1>7. ASSUME NEW j \in 1 .. Len(r) PROVE x[j] = r[j]
    <2>1. CASE j <= i + 1
      BY <2>1, <1>1, <1>4, <1>5, <1>6 DEF Overtypes
    <2>2. CASE j > i + 1
      <3>1. /\ j - (i + 1) \in 1 .. Len(z) /\ j - (i + 1) + i + 1 = j /\ j # i + 1
            /\ ~(j <= i + 1)
        <4> DEFINE n == Len(z)
                   m == Len(r)
        <4>1. n \in Nat /\ m = i + 1 + n /\ j \in 1 .. m
          <5>1. n \in Nat
            BY <1>3
          <5>2. m = i + 1 + n
            BY <1>5, <1>6
          <5> QED
            BY <5>1, <5>2
        <4> HIDE DEF n, m
        <4>2. /\ j - (i + 1) \in 1 .. n /\ j - (i + 1) + i + 1 = j /\ j # i + 1
              /\ ~(j <= i + 1)
          BY <2>2, <1>1, <4>1
        <4> QED
          BY <4>2 DEF n
      <3>2. x[j] = z[j - (i + 1)]
        BY <3>1, <1>5, <1>6
      <3>3. z[j - (i + 1)] = s[j - (i + 1) + i + 1]
        BY <3>1, <1>3
      <3> QED
        BY <3>1, <3>2, <3>3 DEF Overtypes
    <2> QED
      BY <2>1, <2>2, <1>1
  <1>8. x = r
    BY <1>5, <1>6, <1>7
  <1> QED
    BY <1>8 DEF x, w, a, z

\* The cells of the edited line, before and after a step.
LEMMA LineCells ==
  ASSUME EditorInv, PoliteInv', NEW v \in Terminals
  PROVE  LET s == Row(keyboard_buffer, v, keyboard_buffer_end_idx[v])
             r == Row(keyboard_buffer', v, keyboard_buffer_end_idx'[v])
         IN  /\ s \in Seq(Cells) /\ Len(s) = keyboard_buffer_end_idx[v]
             /\ \A j \in 1 .. keyboard_buffer_end_idx[v] :
                  s[j] = keyboard_buffer[Addr(v, j - 1)]
             /\ r \in Seq(Cells) /\ Len(r) = keyboard_buffer_end_idx'[v]
             /\ \A j \in 1 .. keyboard_buffer_end_idx'[v] :
                  r[j] = keyboard_buffer'[Addr(v, j - 1)]
  <1>1. keyboard_buffer_end_idx[v] \in 0 .. KEYBOARD_BUFFER_SIZE
    BY PoliteEnds, LineAssumption DEF EditorInv
  <1>3. keyboard_buffer_end_idx'[v] \in 0 .. KEYBOARD_BUFFER_SIZE
    <2> DEFINE i == keyboard_cursor_idx'[v]
               e == keyboard_buffer_end_idx'[v]
               d == distance_from_right'[v]
    <2>1. IndexOK(i, e, d)
      BY DEF PoliteInv, LineInv, IndexInv
    <2>2. i \in Nat /\ d \in Nat /\ e <= KEYBOARD_BUFFER_SIZE
      BY <2>1, LineAssumption DEF IndexOK
    <2>3. i + d = e \/ e = 0
      BY DEF PoliteInv, PoliteLine
    <2> HIDE DEF i, e, d
    <2>4. e \in 0 .. KEYBOARD_BUFFER_SIZE
      BY <2>2, <2>3, LineAssumption
    <2> QED
      BY <2>4 DEF e
  <1>4. keyboard_buffer \in [Addresses -> Cells] /\ keyboard_buffer' \in [Addresses -> Cells]
    BY DEF EditorInv, PoliteInv, LineInv, MemoryInv
  <1> QED
    BY <1>1, <1>3, <1>4, RowIsLine DEF Lines

\* A character key is an insertion, or nothing if the line is full.
LEMMA CharIsInsert ==
  ASSUME EditorInv, PoliteInv', NEW v \in Terminals, sys_read_flag[v], NEW c \in Chars,
         PressChar(v, c)
  PROVE  EditorInv' /\ (Editor!Insert(v, c) \/ UNCHANGED Editor!evars)
  <1> DEFINE i == keyboard_cursor_idx[v]
             e == keyboard_buffer_end_idx[v]
             d == distance_from_right[v]
             N == KEYBOARD_BUFFER_SIZE
             s == Row(keyboard_buffer, v, e)
             r == Row(keyboard_buffer', v, keyboard_buffer_end_idx'[v])
  <1>1. e \in 0 .. N - 1 /\ i \in 0 .. e /\ d = e - i
    BY PoliteEnds DEF EditorInv
  <1>2. UNCHANGED <<reading, nbytes, buf, sys_read_flag, re_echo_flag, temp_kbd_buf, last_buf>>
    BY DEF PressChar, SaveTyped, processVars
  <1>3. CASE ~HasRoom(v)
    <2>1. \A u \in Terminals : Kept(u)
      BY <1>2, <1>3 DEF PressChar, lineVars, Kept
    <2>2. \A u \in Terminals : SameView(u) /\ ReaderOK(u)'
      BY <2>1, KeptView
    <2>3. EditorInv'
      BY <1>2, <2>2 DEF EditorInv
    <2>4. UNCHANGED Editor!evars
      BY <1>2, <2>2 DEF SameView, Editor!evars
    <2> QED
      BY <2>3, <2>4
  <1>4. CASE HasRoom(v)
    <2>1. /\ keyboard_buffer' = [keyboard_buffer EXCEPT ![Addr(v, i)] = c]
          /\ keyboard_cursor_idx' = [keyboard_cursor_idx EXCEPT ![v] = i + 1]
          /\ keyboard_buffer_end_idx' = [keyboard_buffer_end_idx EXCEPT
                                           ![v] = IF d = 0 THEN e + 1 ELSE e]
      BY <1>4 DEF PressChar
    <2>2. i \in 0 .. N - 1 /\ i < N - 1
      BY <1>1, <1>4, LineAssumption DEF HasRoom
    <2>3. /\ keyboard_cursor_idx'[v] = i + 1
          /\ keyboard_buffer_end_idx'[v] = IF i = e THEN e + 1 ELSE e
      BY <1>1, <2>1 DEF EditorInv, PoliteInv, LineInv, IndexInv
    <2>4. /\ \A u \in Terminals \ {v} : \A j \in 0 .. N - 1 :
               keyboard_buffer'[Addr(u, j)] = keyboard_buffer[Addr(u, j)]
          /\ \A j \in 0 .. N - 1 :
               keyboard_buffer'[Addr(v, j)]
                 = IF j = i THEN c ELSE keyboard_buffer[Addr(v, j)]
      <3>1. PoliteInv /\ i \in 0 .. N - 1
        BY <2>2 DEF EditorInv
      <3>2. StoreCell(v, i, c)
        BY <2>1 DEF StoreCell
      <3> HIDE DEF i
      <3>3. CellStored(v, i, c)
        BY <3>1, <3>2, RowsStored
      <3> QED
        BY <3>3 DEF CellStored
    <2>5. EditStep(v)
      BY <1>2, <2>1, <2>4 DEF EditStep, EditorInv, PoliteInv, LineInv, IndexInv
    <2>6. EditorInv' /\ Editor!Become(v, r, i + 1)
      BY <2>3, <2>5, EditStepView
    <2>7. /\ s \in Seq(Cells) /\ Len(s) = e
          /\ \A j \in 1 .. e : s[j] = keyboard_buffer[Addr(v, j - 1)]
          /\ r \in Seq(Cells) /\ Len(r) = keyboard_buffer_end_idx'[v]
          /\ \A j \in 1 .. Len(r) : r[j] = keyboard_buffer'[Addr(v, j - 1)]
      BY LineCells
    <2> HIDE DEF s, r, i, e, d
    <2>8. ASSUME NEW j \in 1 .. Len(r) PROVE r[j] = IF j = i + 1 THEN c ELSE s[j]
      <3>1. j - 1 \in 0 .. N - 1 /\ (j - 1 = i <=> j = i + 1) /\ (j # i + 1 => j \in 1 .. e)
        BY <1>1, <2>2, <2>3, <2>7, LineAssumption
      <3>2. r[j] = keyboard_buffer'[Addr(v, j - 1)]
        BY <2>7
      <3>3. keyboard_buffer'[Addr(v, j - 1)]
              = IF j - 1 = i THEN c ELSE keyboard_buffer[Addr(v, j - 1)]
        BY <3>1, <2>4
      <3> QED
        BY <3>1, <3>2, <3>3, <2>7
    <2>9. r = SubSeq(s, 1, i) \o <<c>> \o SubSeq(s, i + 2, Len(s))
      <3>1. i \in 0 .. Len(s) /\ Len(r) = IF i = Len(s) THEN Len(s) + 1 ELSE Len(s)
        BY <1>1, <2>3, <2>7
      <3>2. c \in Cells
        BY DEF Cells
      <3>3. Overtypes(s, i, c, r)
        BY <2>8, <3>1 DEF Overtypes
      <3> QED
        BY <2>7, <3>1, <3>2, <3>3, Overtyped
    <2>10. EditedLine(v) = s /\ CursorPos(v) = i
      BY EditingView DEF s, i, e
    <2>11. Editor!Insert(v, c)
      BY <2>2, <2>6, <2>9, <2>10 DEF Editor!Insert
    <2> QED
      BY <2>6, <2>11
  <1> QED
    BY <1>3, <1>4

\* A step that the editor does not see.
LEMMA StutterStep ==
  ASSUME EditorInv, PoliteInv', UNCHANGED <<nbytes, buf, last_buf>>,
         \A u \in Terminals : Kept(u)
  PROVE  EditorInv' /\ UNCHANGED Editor!evars
  <1>1. \A u \in Terminals : SameView(u) /\ ReaderOK(u)'
    BY KeptView
  <1>2. EditorInv'
    BY <1>1 DEF EditorInv
  <1>3. UNCHANGED Editor!evars
    BY <1>1 DEF SameView, Editor!evars
  <1> QED
    BY <1>2, <1>3

\* Backspace is an erasure, or nothing at the start of the line.
LEMMA BackspaceIsErase ==
  ASSUME EditorInv, PoliteInv', NEW v \in Terminals, sys_read_flag[v], PressBackspace(v)
  PROVE  EditorInv' /\ (Editor!Erase(v) \/ UNCHANGED Editor!evars)
  <1> DEFINE i == keyboard_cursor_idx[v]
             e == keyboard_buffer_end_idx[v]
             d == distance_from_right[v]
             N == KEYBOARD_BUFFER_SIZE
             s == Row(keyboard_buffer, v, e)
             r == Row(keyboard_buffer', v, keyboard_buffer_end_idx'[v])
  <1>1. e \in 0 .. N - 1 /\ i \in 0 .. e /\ d = e - i
    BY PoliteEnds DEF EditorInv
  <1>2. temp_kbd_buf[v] = << >>
    BY DEF EditorInv, PoliteInv, PoliteLine
  <1>3. UNCHANGED <<reading, nbytes, buf, sys_read_flag, re_echo_flag, temp_kbd_buf, last_buf>>
    BY <1>2 DEF PressBackspace, BackspaceAtEnd, BackspaceInside, BackspaceAtStart, EraseTyped,
       processVars, historyVars
  <1>4. CASE BackspaceAtStart(v)
    <2>1. \A u \in Terminals : Kept(u)
      BY <1>3, <1>4 DEF BackspaceAtStart, lineVars, Kept
    <2> QED
      BY <1>3, <2>1, StutterStep
  <1>5. /\ s \in Seq(Cells) /\ Len(s) = e
        /\ \A j \in 1 .. e : s[j] = keyboard_buffer[Addr(v, j - 1)]
        /\ r \in Seq(Cells) /\ Len(r) = keyboard_buffer_end_idx'[v]
        /\ \A j \in 1 .. Len(r) : r[j] = keyboard_buffer'[Addr(v, j - 1)]
    BY LineCells
  <1>6. EditedLine(v) = s /\ CursorPos(v) = i
    BY EditingView
  <1>7. CASE BackspaceAtEnd(v)
    <2>1. /\ i > 0 /\ d = 0
          /\ keyboard_buffer' = [keyboard_buffer EXCEPT ![Addr(v, i)] = NUL]
          /\ keyboard_cursor_idx' = [keyboard_cursor_idx EXCEPT ![v] = i - 1]
          /\ keyboard_buffer_end_idx' = [keyboard_buffer_end_idx EXCEPT ![v] = e - 1]
      BY <1>7 DEF BackspaceAtEnd
    <2>2. i \in 0 .. N - 1 /\ i = e
      BY <1>1, <2>1, LineAssumption
    <2>3. keyboard_cursor_idx'[v] = i - 1 /\ keyboard_buffer_end_idx'[v] = e - 1
      BY <2>1 DEF EditorInv, PoliteInv, LineInv, IndexInv
    <2>4. /\ \A u \in Terminals \ {v} : \A j \in 0 .. N - 1 :
               keyboard_buffer'[Addr(u, j)] = keyboard_buffer[Addr(u, j)]
          /\ \A j \in 0 .. N - 1 :
               keyboard_buffer'[Addr(v, j)]
                 = IF j = i THEN NUL ELSE keyboard_buffer[Addr(v, j)]
      <3>1. PoliteInv /\ i \in 0 .. N - 1
        BY <2>2 DEF EditorInv
      <3>2. StoreCell(v, i, NUL)
        BY <2>1 DEF StoreCell
      <3> HIDE DEF i
      <3>3. CellStored(v, i, NUL)
        BY <3>1, <3>2, RowsStored
      <3> QED
        BY <3>3 DEF CellStored
    <2>5. EditStep(v)
      BY <1>3, <2>1, <2>4 DEF EditStep, EditorInv, PoliteInv, LineInv, IndexInv
    <2>6. EditorInv' /\ Editor!Become(v, r, i - 1)
      BY <2>3, <2>5, EditStepView
    <2> HIDE DEF s, r, i, e, d
    <2>7. ASSUME NEW j \in 1 .. e - 1 PROVE r[j] = s[j]
      <3>1. j - 1 \in 0 .. N - 1 /\ j - 1 # i /\ j \in 1 .. e /\ j \in 1 .. Len(r)
        BY <1>1, <1>5, <2>2, <2>3, LineAssumption
      <3> QED
        BY <3>1, <2>4, <1>5
    <2>8. r = SubSeq(s, 1, i - 1)
      <3> DEFINE x == SubSeq(s, 1, i - 1)
      <3>1. x \in Seq(Cells) /\ Len(x) = e - 1 /\ \A j \in 1 .. e - 1 : x[j] = s[j]
        BY <1>1, <1>5, <2>1, <2>2
      <3>2. Len(r) = e - 1
        BY <1>5, <2>3
      <3> HIDE DEF x
      <3>3. r = x
        BY <3>1, <3>2, <2>7, <1>5
      <3> QED
        BY <3>3 DEF x
    <2>9. Editor!Erase(v)
      BY <1>5, <1>6, <2>1, <2>2, <2>6, <2>8 DEF Editor!Erase
    <2> QED
      BY <2>6, <2>9
  <1>8. CASE BackspaceInside(v)
    <2>1. /\ i > 0 /\ d \in 1 .. MaxDistance - 1
          /\ keyboard_buffer' = [keyboard_buffer EXCEPT ![Addr(v, i - 1)] = BLANK]
          /\ keyboard_cursor_idx' = [keyboard_cursor_idx EXCEPT ![v] = i - 1]
          /\ keyboard_buffer_end_idx' = keyboard_buffer_end_idx
      BY <1>8 DEF BackspaceInside
    <2>2. i - 1 \in 0 .. N - 1 /\ i # e /\ i \in 1 .. e
      BY <1>1, <2>1, LineAssumption
    <2>3. keyboard_cursor_idx'[v] = i - 1 /\ keyboard_buffer_end_idx'[v] = e
      BY <2>1 DEF EditorInv, PoliteInv, LineInv, IndexInv
    <2>4. /\ \A u \in Terminals \ {v} : \A j \in 0 .. N - 1 :
               keyboard_buffer'[Addr(u, j)] = keyboard_buffer[Addr(u, j)]
          /\ \A j \in 0 .. N - 1 :
               keyboard_buffer'[Addr(v, j)]
                 = IF j = i - 1 THEN BLANK ELSE keyboard_buffer[Addr(v, j)]
      <3> DEFINE k == i - 1
      <3>1. PoliteInv /\ k \in 0 .. N - 1
        BY <2>2 DEF EditorInv
      <3>2. StoreCell(v, k, BLANK)
        BY <2>1 DEF StoreCell
      <3> HIDE DEF k
      <3>3. CellStored(v, k, BLANK)
        BY <3>1, <3>2, RowsStored
      <3> QED
        BY <3>3 DEF k, CellStored
    <2>5. EditStep(v)
      BY <1>3, <2>1, <2>4 DEF EditStep, EditorInv, PoliteInv, LineInv, IndexInv
    <2>6. EditorInv' /\ Editor!Become(v, r, i - 1)
      BY <2>3, <2>5, EditStepView
    <2> HIDE DEF s, r, i, e, d
    <2>7. ASSUME NEW j \in 1 .. e PROVE r[j] = IF j = i THEN BLANK ELSE s[j]
      <3>1. j - 1 \in 0 .. N - 1 /\ (j - 1 = i - 1 <=> j = i) /\ j \in 1 .. Len(r)
        BY <1>1, <1>5, <2>2, <2>3, LineAssumption
      <3> QED
        BY <3>1, <2>4, <1>5
    <2>8. r = [s EXCEPT ![i] = BLANK]
      <3> DEFINE x == [s EXCEPT ![i] = BLANK]
      <3>1. /\ x \in Seq(Cells) /\ Len(x) = e
            /\ \A j \in 1 .. e : x[j] = IF j = i THEN BLANK ELSE s[j]
        BY <1>1, <1>5, <2>2 DEF Cells
      <3>2. Len(r) = e
        BY <1>5, <2>3
      <3> HIDE DEF x
      <3>3. r = x
        BY <3>1, <3>2, <2>7, <1>5
      <3> QED
        BY <3>3 DEF x
    <2>9. Editor!Erase(v)
      BY <1>5, <1>6, <2>1, <2>2, <2>6, <2>8 DEF Editor!Erase
    <2> QED
      BY <2>6, <2>9
  <1> QED
    BY <1>4, <1>7, <1>8 DEF PressBackspace

\* Left and right are moves of the cursor, or nothing at the ends.
LEMMA ArrowsAreMoves ==
  ASSUME EditorInv, PoliteInv', NEW v \in Terminals, sys_read_flag[v],
         PressLeft(v) \/ PressRight(v)
  PROVE  /\ EditorInv'
         /\ Editor!MoveLeft(v) \/ Editor!MoveRight(v) \/ UNCHANGED Editor!evars
  <1> DEFINE i == keyboard_cursor_idx[v]
             e == keyboard_buffer_end_idx[v]
             d == distance_from_right[v]
             s == Row(keyboard_buffer, v, e)
  <1>1. e \in 0 .. KEYBOARD_BUFFER_SIZE - 1 /\ i \in 0 .. e /\ d = e - i
    BY PoliteEnds DEF EditorInv
  <1>2. UNCHANGED <<reading, nbytes, buf, sys_read_flag, re_echo_flag, temp_kbd_buf, last_buf,
                    keyboard_buffer, keyboard_buffer_end_idx>>
    BY DEF PressLeft, PressRight, processVars, tempVars, historyVars
  <1>3. EditedLine(v) = s /\ CursorPos(v) = i /\ Len(s) = e
    BY EditingView, LineCells
  <1>4. ASSUME NEW p, keyboard_cursor_idx' = [keyboard_cursor_idx EXCEPT ![v] = p]
        PROVE  EditorInv' /\ Editor!Become(v, s, p)
    <2>1. EditStep(v) /\ keyboard_cursor_idx'[v] = p
      BY <1>2, <1>4 DEF EditStep, EditorInv, PoliteInv, LineInv, IndexInv
    <2>2. EditorInv' /\ Editor!Become(v, Row(keyboard_buffer', v, keyboard_buffer_end_idx'[v]), p)
      BY <2>1, EditStepView
    <2> QED
      BY <1>2, <2>2
  <1> HIDE DEF s
  <1>5. CASE PressLeft(v)
    <2>1. keyboard_cursor_idx' = [keyboard_cursor_idx EXCEPT ![v] = i - 1] /\ i > 0
      BY <1>5 DEF PressLeft
    <2>2. EditorInv' /\ Editor!Become(v, s, i - 1)
      BY <1>4, <2>1
    <2> QED
      BY <1>3, <2>1, <2>2 DEF Editor!MoveLeft
  <1>6. CASE PressRight(v)
    <2>1. PICK k \in {0, 1} : keyboard_cursor_idx' = [keyboard_cursor_idx EXCEPT ![v] = i + k]
      BY <1>6 DEF PressRight
    <2>2. d > 0
      BY <1>6 DEF PressRight, CanMoveRight
    <2>3. CASE k = 0
      <3>1. keyboard_cursor_idx' = keyboard_cursor_idx
        <4>1. i + 0 = i
          BY <1>1
        <4> QED
          BY <2>1, <2>3, <4>1 DEF EditorInv, PoliteInv, LineInv, IndexInv
      <3>2. \A u \in Terminals : Kept(u)
        BY <1>2, <3>1 DEF Kept
      <3> QED
        BY <1>2, <3>2, StutterStep
    <2>4. CASE k = 1
      <3>1. EditorInv' /\ Editor!Become(v, s, i + 1)
        BY <1>4, <2>1, <2>4
      <3>2. i < e
        BY <1>1, <2>2
      <3> QED
        BY <1>3, <3>1, <3>2 DEF Editor!MoveRight
    <2> QED
      BY <2>1, <2>3, <2>4
  <1> QED
    BY <1>5, <1>6

\* The memcpy of the up arrow changes cells of its own row only.
LEMMA RowsCopied ==
  ASSUME PoliteInv, NEW v \in Terminals, NEW n \in 0 .. KEYBOARD_BUFFER_SIZE,
         NEW s \in Lines(KEYBOARD_BUFFER_SIZE),
         keyboard_buffer' = Memcpy(Memset(keyboard_buffer, v, n), v, s)
  PROVE  \A u \in Terminals \ {v} : \A j \in 0 .. KEYBOARD_BUFFER_SIZE - 1 :
           keyboard_buffer'[Addr(u, j)] = keyboard_buffer[Addr(u, j)]
  <1> DEFINE cleared == Memset(keyboard_buffer, v, n)
  <1>1. keyboard_buffer \in [Addresses -> Cells]
    BY DEF PoliteInv, LineInv, MemoryInv
  <1>2. cleared \in [Addresses -> Cells]
    BY <1>1, MemsetType
  <1>3. \A u \in Terminals \ {v} : \A j \in 0 .. KEYBOARD_BUFFER_SIZE - 1 :
          cleared[Addr(u, j)] = keyboard_buffer[Addr(u, j)]
    BY <1>1, MemsetRows
  <1>4. keyboard_buffer' = Memcpy(cleared, v, s)
    OBVIOUS
  <1> HIDE DEF cleared
  <1> QED
    BY <1>2, <1>3, <1>4, MemcpyRows

\* The first cells of a row that s was copied to are s.
LEMMA CopiedRow ==
  ASSUME PoliteInv, NEW v \in Terminals, NEW n \in 0 .. KEYBOARD_BUFFER_SIZE,
         NEW s \in CleanLines, keyboard_buffer' \in [Addresses -> Cells],
         keyboard_buffer' = Memcpy(Memset(keyboard_buffer, v, n), v, s)
  PROVE  Row(keyboard_buffer', v, Len(s)) = s
  <1> DEFINE r == Row(keyboard_buffer', v, Len(s))
  <1>1. s \in Lines(KEYBOARD_BUFFER_SIZE) /\ Len(s) \in 0 .. KEYBOARD_BUFFER_SIZE - 1
    BY CleanAreLines
  <1>2. s \in Seq(Cells) /\ Len(s) \in 0 .. KEYBOARD_BUFFER_SIZE
    BY <1>1, LineAssumption DEF Lines
  <1>3. /\ r \in Lines(Len(s)) /\ Len(r) = Len(s)
        /\ \A j \in 1 .. Len(s) : r[j] = keyboard_buffer'[Addr(v, j - 1)]
    BY <1>2, RowIsLine
  <1> HIDE DEF r
  <1>4. ASSUME NEW j \in 1 .. Len(s) PROVE r[j] = s[j]
    <2>1. j - 1 \in 0 .. KEYBOARD_BUFFER_SIZE - 1 /\ j - 1 < Len(s) /\ (j - 1) + 1 = j
      BY <1>1, LineAssumption
    <2>2. keyboard_buffer'[Addr(v, j - 1)] = s[(j - 1) + 1]
      BY <1>1, <2>1, CopyInRow
    <2> QED
      BY <1>3, <2>1, <2>2
  <1>5. r \in Seq(Cells)
    BY <1>3 DEF Lines
  <1>6. r = s
    BY <1>2, <1>3, <1>4, <1>5
  <1> QED
    BY <1>6 DEF r

\* The up arrow, when it is enabled, is a recall of the last command.
LEMMA UpIsRecall ==
  ASSUME EditorInv, PoliteInv', NEW v \in Terminals, sys_read_flag[v], PressUp(v)
  PROVE  EditorInv' /\ Editor!Recall(v)
  <1> DEFINE s == last_buf[v]
             e == keyboard_buffer_end_idx[v]
  <1>1. s \in CleanLines /\ s # << >>
    BY DEF EditorInv, PoliteInv, PoliteLine, PressUp, CanRecall
  <1>2. e \in 0 .. KEYBOARD_BUFFER_SIZE
    BY PoliteEnds, LineAssumption DEF EditorInv
  <1>3. /\ keyboard_buffer' = Memcpy(Memset(keyboard_buffer, v, e), v, s)
        /\ keyboard_cursor_idx' = [keyboard_cursor_idx EXCEPT ![v] = Len(s)]
        /\ keyboard_buffer_end_idx' = [keyboard_buffer_end_idx EXCEPT ![v] = Len(s)]
    BY DEF PressUp, ReplaceLine
  <1>4. UNCHANGED <<reading, nbytes, buf, sys_read_flag, re_echo_flag, temp_kbd_buf, last_buf>>
    BY DEF PressUp, processVars, tempVars
  <1> HIDE DEF s, e
  <1>5. s \in Lines(KEYBOARD_BUFFER_SIZE)
    BY <1>1, CleanAreLines
  <1>6. keyboard_buffer' \in [Addresses -> Cells]
    BY DEF PoliteInv, LineInv, MemoryInv
  <1>7. Row(keyboard_buffer', v, Len(s)) = s
    BY <1>1, <1>2, <1>3, <1>6, CopiedRow DEF EditorInv
  <1>8. \A u \in Terminals \ {v} : \A j \in 0 .. KEYBOARD_BUFFER_SIZE - 1 :
          keyboard_buffer'[Addr(u, j)] = keyboard_buffer[Addr(u, j)]
    BY <1>2, <1>3, <1>5, RowsCopied DEF EditorInv
  <1>9. /\ EditStep(v)
        /\ keyboard_cursor_idx'[v] = Len(s) /\ keyboard_buffer_end_idx'[v] = Len(s)
    BY <1>3, <1>4, <1>8 DEF EditStep, EditorInv, PoliteInv, LineInv, IndexInv
  <1>10. EditorInv' /\ Editor!Become(v, s, Len(s))
    BY <1>7, <1>9, EditStepView
  <1> QED
    BY <1>1, <1>10 DEF Editor!Recall, s

\* Where UpTo cuts.
LEMMA UpToIs ==
  ASSUME NEW S, NEW s \in Seq(S), NEW stop, NEW n \in 0 .. Len(s),
         \A i \in 1 .. n : s[i] \notin stop, n < Len(s) => s[n + 1] \in stop
  PROVE  UpTo(s, stop) = SubSeq(s, 1, n)
  <1> DEFINE P(m) == /\ \A i \in 1 .. m : s[i] \notin stop
                     /\ m < Len(s) => s[m + 1] \in stop
             k == CHOOSE m \in 0 .. Len(s) : P(m)
  <1>1. k \in 0 .. Len(s) /\ P(k)
    <2>1. P(n)
      OBVIOUS
    <2> HIDE DEF P
    <2> QED
      BY <2>1
  <1>2. UpTo(s, stop) = SubSeq(s, 1, k)
    BY DEF UpTo
  <1> HIDE DEF k
  <1>3. k = n
    <2>1. Len(s) \in Nat /\ k \in Nat /\ n \in Nat
      BY <1>1
    <2>2. ASSUME k < n PROVE FALSE
      <3>1. k + 1 \in 1 .. n /\ k < Len(s)
        BY <2>1, <2>2
      <3> QED
        BY <3>1, <1>1
    <2>3. ASSUME n < k PROVE FALSE
      <3>1. n + 1 \in 1 .. k /\ n < Len(s)
        BY <1>1, <2>1, <2>3
      <3> QED
        BY <3>1, <1>1
    <2> QED
      BY <2>1, <2>2, <2>3
  <1> QED
    BY <1>2, <1>3

\* The editor's variables after a step that changes terminal v at most.
LEMMA ViewStep ==
  ASSUME NEW v \in Terminals, \A u \in Terminals \ {v} : SameView(u),
         last_buf = [t \in Terminals |-> last_buf[t]],
         last_buf' = [t \in Terminals |-> last_buf'[t]]
  PROVE  /\ [t \in Terminals |-> Mode(t)]'
              = [[t \in Terminals |-> Mode(t)] EXCEPT ![v] = Mode(v)']
         /\ [t \in Terminals |-> EditedLine(t)]'
              = [[t \in Terminals |-> EditedLine(t)] EXCEPT ![v] = EditedLine(v)']
         /\ [t \in Terminals |-> CursorPos(t)]'
              = [[t \in Terminals |-> CursorPos(t)] EXCEPT ![v] = CursorPos(v)']
         /\ last_buf' = [last_buf EXCEPT ![v] = last_buf'[v]]
         /\ [t \in Terminals |-> WithoutNewline(buf[t])]'
              = [[t \in Terminals |-> WithoutNewline(buf[t])]
                   EXCEPT ![v] = WithoutNewline(buf'[v])]
         /\ EditedLine(v)' = EditedLine(v) =>
              [t \in Terminals |-> EditedLine(t)]' = [t \in Terminals |-> EditedLine(t)]
         /\ CursorPos(v)' = CursorPos(v) =>
              [t \in Terminals |-> CursorPos(t)]' = [t \in Terminals |-> CursorPos(t)]
         /\ last_buf'[v] = last_buf[v] => last_buf' = last_buf
         /\ WithoutNewline(buf'[v]) = WithoutNewline(buf[v]) =>
              [t \in Terminals |-> WithoutNewline(buf[t])]'
                = [t \in Terminals |-> WithoutNewline(buf[t])]
  <1>1. [t \in Terminals |-> Mode(t)]'
          = [[t \in Terminals |-> Mode(t)] EXCEPT ![v] = Mode(v)']
    BY DEF SameView
  <1>2. [t \in Terminals |-> EditedLine(t)]'
          = [[t \in Terminals |-> EditedLine(t)] EXCEPT ![v] = EditedLine(v)']
    BY DEF SameView
  <1>3. [t \in Terminals |-> CursorPos(t)]'
          = [[t \in Terminals |-> CursorPos(t)] EXCEPT ![v] = CursorPos(v)']
    BY DEF SameView
  <1>4. last_buf' = [last_buf EXCEPT ![v] = last_buf'[v]]
    BY DEF SameView
  <1>5. [t \in Terminals |-> WithoutNewline(buf[t])]'
          = [[t \in Terminals |-> WithoutNewline(buf[t])]
               EXCEPT ![v] = WithoutNewline(buf'[v])]
    BY DEF SameView
  <1>6. EditedLine(v)' = EditedLine(v) =>
          [t \in Terminals |-> EditedLine(t)]' = [t \in Terminals |-> EditedLine(t)]
    BY DEF SameView
  <1>7. CursorPos(v)' = CursorPos(v) =>
          [t \in Terminals |-> CursorPos(t)]' = [t \in Terminals |-> CursorPos(t)]
    BY DEF SameView
  <1>8. last_buf'[v] = last_buf[v] => last_buf' = last_buf
    BY DEF SameView
  <1>9. WithoutNewline(buf'[v]) = WithoutNewline(buf[v]) =>
          [t \in Terminals |-> WithoutNewline(buf[t])]'
            = [t \in Terminals |-> WithoutNewline(buf[t])]
    BY DEF SameView
  <1> QED
    BY <1>1, <1>2, <1>3, <1>4, <1>5, <1>6, <1>7, <1>8, <1>9

\* last_buf is a function of the terminals, before and after a step.
LEMMA LastIsFunction ==
  ASSUME EditorInv, PoliteInv'
  PROVE  /\ last_buf = [t \in Terminals |-> last_buf[t]]
         /\ last_buf' = [t \in Terminals |-> last_buf'[t]]
  BY DEF EditorInv, PoliteInv, LineInv, BufferInv

\* Enter is a submission: the row up to the newline is the edited line.
LEMMA EnterIsSubmit ==
  ASSUME EditorInv, PoliteInv', NEW v \in Terminals, sys_read_flag[v], PressEnter(v)
  PROVE  EditorInv' /\ Editor!Submit(v)
  <1> DEFINE e == keyboard_buffer_end_idx[v]
             N == KEYBOARD_BUFFER_SIZE
             s == Row(keyboard_buffer, v, e)
             x == Row(keyboard_buffer', v, e)
             r == Row(keyboard_buffer', v, N)
             stop == {NUL, NEWLINE}
  <1>1. e \in 0 .. N - 1 /\ PoliteLine(v)
    BY PoliteEnds DEF EditorInv
  <1>2. ~(e >= N) /\ e + 1 - 1 = e
    BY <1>1, LineAssumption
  <1>3. /\ keyboard_buffer' = [keyboard_buffer EXCEPT ![Addr(v, e)] = NEWLINE]
        /\ last_buf' = IF shell_flag[v] THEN [last_buf EXCEPT ![v] = x] ELSE last_buf
    <2>1. PoliteInv
      BY DEF EditorInv
    <2> QED
      BY <2>1, EnteredLine
  <1>4. /\ sys_read_flag' = [sys_read_flag EXCEPT ![v] = FALSE]
        /\ keyboard_cursor_idx' = [keyboard_cursor_idx EXCEPT ![v] = 0]
        /\ keyboard_buffer_end_idx' = [keyboard_buffer_end_idx EXCEPT ![v] = 0]
        /\ UNCHANGED <<reading, nbytes, buf, re_echo_flag>>
    BY DEF PressEnter, processVars
  <1>5. \A u \in Terminals \ {v} : temp_kbd_buf'[u] = temp_kbd_buf[u]
    BY DEF PressEnter, SaveTyped, EditorInv, PoliteInv, LineInv, BufferInv
  <1>6. /\ \A u \in Terminals \ {v} : \A j \in 0 .. N - 1 :
             keyboard_buffer'[Addr(u, j)] = keyboard_buffer[Addr(u, j)]
        /\ \A j \in 0 .. N - 1 :
             keyboard_buffer'[Addr(v, j)]
               = IF j = e THEN NEWLINE ELSE keyboard_buffer[Addr(v, j)]
    <2>1. PoliteInv /\ e \in 0 .. N - 1
      BY <1>1 DEF EditorInv
    <2>2. StoreCell(v, e, NEWLINE)
      BY <1>3 DEF StoreCell
    <2> HIDE DEF e
    <2>3. CellStored(v, e, NEWLINE)
      BY <2>1, <2>2, RowsStored
    <2> QED
      BY <2>3 DEF CellStored
  <1>7. \A u \in Terminals \ {v} : Kept(u)
    <2>1. \A u \in Terminals \ {v} :
            /\ sys_read_flag'[u] = sys_read_flag[u]
            /\ keyboard_cursor_idx'[u] = keyboard_cursor_idx[u]
            /\ keyboard_buffer_end_idx'[u] = keyboard_buffer_end_idx[u]
            /\ last_buf'[u] = last_buf[u]
      BY <1>3, <1>4 DEF EditorInv, PoliteInv, FlagsType, LineInv, IndexInv, BufferInv
    <2>2. \A u \in Terminals \ {v} : \A j \in 0 .. N - 1 :
            keyboard_buffer'[Addr(u, j)] = keyboard_buffer[Addr(u, j)]
      BY <1>6
    <2> QED
      BY <1>4, <1>5, <2>1, <2>2 DEF Kept
  <1>8. \A u \in Terminals \ {v} : SameView(u) /\ ReaderOK(u)'
    BY <1>7, KeptView
  <1>9. /\ reading'[v] /\ ~sys_read_flag'[v] /\ ~re_echo_flag'[v]
        /\ keyboard_cursor_idx'[v] = 0 /\ nbytes'[v] = nbytes[v] /\ buf'[v] = buf[v]
        /\ last_buf'[v] = IF shell_flag[v] THEN x ELSE last_buf[v]
    BY <1>1, <1>3, <1>4 DEF PoliteLine, EditorInv, PoliteInv, FlagsType, LineInv, IndexInv,
       BufferInv
  <1>10. /\ keyboard_buffer \in [Addresses -> Cells] /\ keyboard_buffer' \in [Addresses -> Cells]
         /\ e \in 0 .. N /\ N \in 0 .. N
    BY <1>1, LineAssumption DEF EditorInv, PoliteInv, LineInv, MemoryInv
  <1>11. /\ s \in Seq(Cells) /\ Len(s) = e
         /\ \A j \in 1 .. e : s[j] = keyboard_buffer[Addr(v, j - 1)]
    BY <1>10, RowIsLine DEF Lines
  <1>12. /\ x \in Seq(Cells) /\ Len(x) = e
         /\ \A j \in 1 .. e : x[j] = keyboard_buffer'[Addr(v, j - 1)]
    BY <1>10, RowIsLine DEF Lines
  <1>13. /\ r \in Seq(Cells) /\ Len(r) = N
         /\ \A j \in 1 .. N : r[j] = keyboard_buffer'[Addr(v, j - 1)]
    BY <1>10, RowIsLine DEF Lines
  <1>14. RowClean(keyboard_buffer, v, e)
    BY <1>1 DEF PoliteLine
  <1>15. Text(v)' = UpTo(r, stop)
    BY DEF Text
  <1>16. EditedLine(v) = s /\ Mode(v) = "editing"
    BY EditingView
  <1>17. Mode(v)' = "submitted"
    BY <1>9 DEF Mode
  <1>18. EditedLine(v)' = UpTo(r, stop)
    BY <1>15, <1>17 DEF EditedLine
  <1>19. CursorPos(v)' = 0
    BY <1>9 DEF CursorPos
  <1> HIDE DEF s, x, r, e, stop
  <1>20. ASSUME NEW j \in 1 .. e
         PROVE  s[j] \notin stop /\ x[j] = s[j] /\ r[j] = s[j]
    <2>1. j - 1 \in 0 .. e - 1 /\ j - 1 \in 0 .. N - 1 /\ j - 1 # e /\ j \in 1 .. N
      BY <1>1, LineAssumption
    <2> QED
      BY <2>1, <1>6, <1>11, <1>12, <1>13, <1>14 DEF RowClean, Clean, stop
  <1>21. x = s
    BY <1>11, <1>12, <1>20
  <1>22. r[e + 1] \in stop /\ keyboard_buffer'[Addr(v, e)] = NEWLINE
    <2>1. e + 1 \in 1 .. N /\ (e + 1) - 1 = e
      BY <1>1, LineAssumption
    <2> QED
      BY <2>1, <1>1, <1>6, <1>13 DEF stop
  <1>23. UpTo(r, stop) = SubSeq(r, 1, e)
    <2>1. e \in 0 .. Len(r) /\ \A j \in 1 .. e : r[j] \notin stop
      BY <1>10, <1>13, <1>20
    <2> QED
      BY <2>1, <1>13, <1>22, UpToIs
  <1>24. SubSeq(r, 1, e) = s
    <2> DEFINE y == SubSeq(r, 1, e)
    <2>1. y \in Seq(Cells) /\ Len(y) = e /\ \A j \in 1 .. e : y[j] = r[j]
      BY <1>1, <1>10, <1>13, LineAssumption
    <2> HIDE DEF y
    <2>2. y = s
      BY <2>1, <1>11, <1>20
    <2> QED
      BY <2>2 DEF y
  <1>25. ReaderOK(v)'
    <2>1. ReaderOK(v) /\ reading[v]
      BY <1>1 DEF EditorInv, PoliteLine
    <2>2. NEWLINE \notin Clean
      BY DEF Clean
    <2>3. \E k \in 0 .. N - 1 : keyboard_buffer'[Addr(v, k)] \notin Clean
      BY <1>1, <1>22, <2>2
    <2>4. temp_kbd_buf'[v] \in {<< >>, <<NEWLINE>>}
      <3>1. temp_kbd_buf[v] = << >>
        BY <1>1 DEF PoliteLine
      <3>2. temp_kbd_buf'[v] = << >> \/ temp_kbd_buf'[v] = Append(<< >>, NEWLINE)
        BY <3>1 DEF PressEnter, SaveTyped, EditorInv, PoliteInv, LineInv, BufferInv
      <3>3. Append(<< >>, NEWLINE) = <<NEWLINE>>
        OBVIOUS
      <3> QED
        BY <3>2, <3>3
    <2> QED
      BY <1>9, <2>1, <2>3, <2>4 DEF ReaderOK
  <1>26. EditorInv'
    BY <1>4, <1>8, <1>25 DEF EditorInv
  <1>27. last_buf'[v] = s \/ last_buf'[v] = last_buf[v]
    BY <1>9, <1>21
  <1>28. /\ last_buf = [t \in Terminals |-> last_buf[t]]
         /\ last_buf' = [t \in Terminals |-> last_buf'[t]]
    BY LastIsFunction
  <1>29. EditedLine(v)' = EditedLine(v) /\ EditedLine(v) = s
    BY <1>16, <1>18, <1>23, <1>24
  <1>30. /\ [t \in Terminals |-> Mode(t)]'
              = [[t \in Terminals |-> Mode(t)] EXCEPT ![v] = "submitted"]
         /\ [t \in Terminals |-> EditedLine(t)]' = [t \in Terminals |-> EditedLine(t)]
         /\ [t \in Terminals |-> CursorPos(t)]'
              = [[t \in Terminals |-> CursorPos(t)] EXCEPT ![v] = 0]
         /\ last_buf' \in {last_buf, [last_buf EXCEPT ![v] = s]}
         /\ [t \in Terminals |-> WithoutNewline(buf[t])]'
              = [t \in Terminals |-> WithoutNewline(buf[t])]
    BY <1>8, <1>9, <1>17, <1>19, <1>27, <1>28, <1>29, ViewStep
  <1> QED
    BY <1>16, <1>26, <1>30 DEF Editor!Submit

\* The row of another terminal after Ctrl-L: as it was, but that terminal 0's may
\* be wiped, which then had no text.
LEMMA ClearedRows ==
  ASSUME EditorInv, NEW v \in Terminals, PressCtrlL(v), HarmlessClear(v),
         NEW u \in Terminals \ {v}
  PROVE  \/ \A j \in 0 .. KEYBOARD_BUFFER_SIZE - 1 :
              keyboard_buffer'[Addr(u, j)] = keyboard_buffer[Addr(u, j)]
         \/ /\ Text(u) = << >>
            /\ \A j \in 0 .. KEYBOARD_BUFFER_SIZE - 1 : keyboard_buffer'[Addr(u, j)] = NUL
  <1> DEFINE N == KEYBOARD_BUFFER_SIZE
             once == Memset(keyboard_buffer, 0, N)
  <1>1. keyboard_buffer \in [Addresses -> Cells] /\ keyboard_buffer' = Memset(once, v, N)
    BY DEF EditorInv, PoliteInv, LineInv, MemoryInv, PressCtrlL
  <1>2. N \in 0 .. N /\ 0 \in Terminals /\ once \in [Addresses -> Cells]
    BY <1>1, MemsetType, LineAssumption DEF Terminals
  <1>3. \A j \in 0 .. N - 1 :
          once[Addr(u, j)] = IF u = 0 /\ j < N THEN NUL ELSE keyboard_buffer[Addr(u, j)]
    BY <1>1, <1>2, MemsetRows
  <1> HIDE DEF once
  <1>4. \A j \in 0 .. N - 1 : keyboard_buffer'[Addr(u, j)] = once[Addr(u, j)]
    BY <1>1, <1>2, MemsetRows
  <1>5. CASE u # 0
    BY <1>3, <1>4, <1>5
  <1>6. CASE u = 0
    <2>1. Text(u) = << >>
      BY <1>6 DEF HarmlessClear
    <2>2. \A j \in 0 .. N - 1 : j < N
      BY LineAssumption
    <2> QED
      BY <2>1, <2>2, <1>3, <1>4, <1>6
  <1> QED
    BY <1>5, <1>6

\* A row that starts with its end has no text, and the other way round.
LEMMA NoText ==
  ASSUME NEW kb \in [Addresses -> Cells], NEW t \in Terminals, NEW n \in 1 .. KEYBOARD_BUFFER_SIZE,
         kb[Addr(t, 0)] \notin Clean
  PROVE  UpTo(Row(kb, t, n), {NUL, NEWLINE}) = << >>
  <1> DEFINE r == Row(kb, t, n)
  <1>1. n \in 0 .. KEYBOARD_BUFFER_SIZE /\ n > 0
    BY LineAssumption
  <1>2. r \in Seq(Cells) /\ Len(r) = n /\ \A j \in 1 .. n : r[j] = kb[Addr(t, j - 1)]
    BY <1>1, RowIsLine DEF Lines
  <1> HIDE DEF r
  <1>3. r[1] = kb[Addr(t, 0)] /\ r[1] \in Cells
    <2>1. 1 \in 1 .. n /\ 1 - 1 = 0
      BY <1>1
    <2> QED
      BY <1>2, <2>1
  <1> DEFINE stop == {NUL, NEWLINE}
  <1>4. r[0 + 1] \in stop /\ 0 \in 0 .. Len(r)
    BY <1>1, <1>2, <1>3 DEF Clean
  <1> HIDE DEF stop
  <1>5. UpTo(r, stop) = SubSeq(r, 1, 0)
    <2>1. \A i \in 1 .. 0 : r[i] \notin stop
      OBVIOUS
    <2> QED
      BY <1>2, <1>4, <2>1, UpToIs
  <1>6. SubSeq(r, 1, 0) = << >>
    BY <1>2
  <1> QED
    BY <1>5, <1>6 DEF r, stop

\* Ctrl-L is a redraw: the line moves to temp_kbd_buf, its row loses its text.
LEMMA CtrlLIsRedraw ==
  ASSUME EditorInv, PoliteInv', NEW v \in Terminals, sys_read_flag[v], PressCtrlL(v),
         HarmlessClear(v)
  PROVE  EditorInv' /\ Editor!Redraw(v)
  <1> DEFINE i == keyboard_cursor_idx[v]
             e == keyboard_buffer_end_idx[v]
             N == KEYBOARD_BUFFER_SIZE
             s == Row(keyboard_buffer, v, i)
  <1>1. /\ PoliteLine(v) /\ e \in 0 .. N - 1 /\ i \in 0 .. e
        /\ distance_from_right[v] = e - i
    BY PoliteEnds DEF EditorInv
  <1>2. i = e
    BY <1>1 DEF HarmlessClear
  <1>3. /\ temp_kbd_buf' = [temp_kbd_buf EXCEPT ![v] = s]
        /\ sys_read_flag' = [sys_read_flag EXCEPT ![v] = FALSE]
        /\ re_echo_flag' = [re_echo_flag EXCEPT ![v] = TRUE]
        /\ keyboard_cursor_idx' = [keyboard_cursor_idx EXCEPT ![v] = 0]
        /\ keyboard_buffer_end_idx' = [keyboard_buffer_end_idx EXCEPT ![v] = 0]
        /\ UNCHANGED <<reading, nbytes, buf, last_buf>>
    BY DEF PressCtrlL, processVars, historyVars
  <1>4. EditedLine(v) = s /\ Mode(v) = "editing" /\ CursorPos(v) = i
    BY <1>2, EditingView
  <1>5. keyboard_buffer \in [Addresses -> Cells] /\ keyboard_buffer' \in [Addresses -> Cells]
    BY DEF EditorInv, PoliteInv, LineInv, MemoryInv
  <1>6. s \in CleanLines /\ Len(s) = i
    <2>1. i \in 0 .. N - 1 /\ i \in 0 .. N /\ RowClean(keyboard_buffer, v, i)
      BY <1>1, <1>2, LineAssumption DEF PoliteLine
    <2> QED
      BY <2>1, <1>5, CleanRow, RowIsLine
  <1> HIDE DEF s, i, e
  <1>7. /\ temp_kbd_buf'[v] = s /\ ~sys_read_flag'[v] /\ re_echo_flag'[v] /\ reading'[v]
        /\ nbytes'[v] = nbytes[v]
        /\ \A u \in Terminals \ {v} :
             /\ sys_read_flag'[u] = sys_read_flag[u]
             /\ re_echo_flag'[u] = re_echo_flag[u]
             /\ keyboard_cursor_idx'[u] = keyboard_cursor_idx[u]
             /\ keyboard_buffer_end_idx'[u] = keyboard_buffer_end_idx[u]
             /\ temp_kbd_buf'[u] = temp_kbd_buf[u]
    BY <1>1, <1>3 DEF PoliteLine, EditorInv, PoliteInv, FlagsType, LineInv, IndexInv, BufferInv
  <1>8. ASSUME NEW u \in Terminals \ {v}
        PROVE  SameView(u) /\ ReaderOK(u)'
    <2>1. CASE \A j \in 0 .. N - 1 :
                 keyboard_buffer'[Addr(u, j)] = keyboard_buffer[Addr(u, j)]
      <3>1. Kept(u)
        BY <1>3, <1>7, <2>1 DEF Kept
      <3> QED
        BY <3>1, KeptView
    <2>2. CASE /\ Text(u) = << >>
               /\ \A j \in 0 .. N - 1 : keyboard_buffer'[Addr(u, j)] = NUL
      <3>1. 0 \in 0 .. N - 1 /\ N \in 1 .. N /\ NUL \notin Clean
        BY LineAssumption DEF Clean
      <3>2. keyboard_buffer'[Addr(u, 0)] \notin Clean
        BY <2>2, <3>1
      <3>3. Text(u)' = << >>
        BY <1>5, <3>1, <3>2, NoText DEF Text
      <3>4. keyboard_buffer[Addr(u, 0)] \notin Clean
        BY <2>2, EmptyText DEF EditorInv, PoliteInv
      <3>5. keyboard_buffer_end_idx[u] \in 0 .. N - 1 /\ PoliteLine(u)
        BY PoliteEnds DEF EditorInv
      <3>6. keyboard_buffer_end_idx[u] = 0
        <4> SUFFICES ASSUME keyboard_buffer_end_idx[u] # 0 PROVE FALSE
          OBVIOUS
        <4>1. RowClean(keyboard_buffer, u, keyboard_buffer_end_idx[u])
          BY <3>5 DEF PoliteLine
        <4>2. 0 \in 0 .. keyboard_buffer_end_idx[u] - 1
          BY <3>5
        <4> QED
          BY <4>1, <4>2, <3>4 DEF RowClean
      <3>7. Row(keyboard_buffer', u, 0) = Row(keyboard_buffer, u, 0)
        BY DEF Row
      <3>8. Line(u)' = Line(u)
        BY <1>7, <3>6, <3>7 DEF Line
      <3>9. Mode(u)' = Mode(u)
        BY <1>3, <1>7 DEF Mode
      <3>10. EditedLine(u)' = EditedLine(u)
        BY <2>2, <3>3, <3>8, <3>9 DEF EditedLine
      <3>11. CursorPos(u)' = CursorPos(u)
        BY <1>7 DEF CursorPos
      <3>12. ReaderOK(u)
        BY DEF EditorInv
      <3>13. ReaderOK(u)'
        BY <1>3, <1>7, <3>1, <3>2, <3>12 DEF ReaderOK
      <3> QED
        BY <1>3, <3>9, <3>10, <3>11, <3>13 DEF SameView
    <2> QED
      BY <2>1, <2>2, ClearedRows
  <1>9. keyboard_buffer'[Addr(v, 0)] \notin Clean /\ 0 \in 0 .. N - 1
    <2> DEFINE once == Memset(keyboard_buffer, 0, N)
    <2>1. keyboard_buffer' = Memset(once, v, N) /\ once \in [Addresses -> Cells]
      BY <1>5, MemsetType DEF PressCtrlL
    <2>2. N \in 0 .. N /\ 0 \in 0 .. N - 1 /\ 0 < N
      BY LineAssumption
    <2> HIDE DEF once
    <2>3. keyboard_buffer'[Addr(v, 0)] = NUL
      BY <2>1, <2>2, MemsetRows
    <2> QED
      BY <2>2, <2>3 DEF Clean
  <1>10. ReaderOK(v)'
    <2>1. ReaderOK(v) /\ reading[v]
      BY <1>1 DEF EditorInv, PoliteLine
    <2> QED
      BY <1>6, <1>7, <1>9, <2>1 DEF ReaderOK
  <1>11. EditorInv'
    BY <1>3, <1>8, <1>10 DEF EditorInv
  <1>12. Mode(v)' = "redrawing" /\ "redrawing" # "submitted"
    BY <1>7 DEF Mode
  <1>13. EditedLine(v)' = EditedLine(v)
    BY <1>4, <1>7, <1>12 DEF EditedLine, Line
  <1>14. CursorPos(v)' = CursorPos(v)
    BY <1>4, <1>6, <1>7 DEF CursorPos
  <1>15. /\ last_buf = [t \in Terminals |-> last_buf[t]]
         /\ last_buf' = [t \in Terminals |-> last_buf'[t]]
    BY LastIsFunction
  <1>16. /\ [t \in Terminals |-> Mode(t)]'
              = [[t \in Terminals |-> Mode(t)] EXCEPT ![v] = "redrawing"]
         /\ [t \in Terminals |-> EditedLine(t)]' = [t \in Terminals |-> EditedLine(t)]
         /\ [t \in Terminals |-> CursorPos(t)]' = [t \in Terminals |-> CursorPos(t)]
         /\ last_buf' = last_buf
         /\ [t \in Terminals |-> WithoutNewline(buf[t])]'
              = [t \in Terminals |-> WithoutNewline(buf[t])]
    BY <1>3, <1>8, <1>12, <1>13, <1>14, <1>15, ViewStep
  <1> QED
    BY <1>4, <1>11, <1>16 DEF Editor!Redraw

\* No cells, no line.
LEMMA EmptyRow ==
  ASSUME NEW kb \in [Addresses -> Cells], NEW t \in Terminals
  PROVE  Row(kb, t, 0) = << >>
  <1> DEFINE r == Row(kb, t, 0)
  <1>1. 0 \in 0 .. KEYBOARD_BUFFER_SIZE
    BY LineAssumption
  <1>2. r \in Seq(Cells) /\ Len(r) = 0
    BY <1>1, RowIsLine DEF Lines
  <1> HIDE DEF r
  <1>3. r = << >>
    BY <1>2
  <1> QED
    BY <1>3 DEF r

\* A read that starts is a prompt, with the line a redraw kept if there is one.
LEMMA ReadIsPrompt ==
  ASSUME EditorInv, PoliteInv', NEW t \in Terminals, NEW m \in Nat,
         m >= KEYBOARD_BUFFER_SIZE, ReadTerminal(t, m)
  PROVE  EditorInv' /\ Editor!Prompt(t)
  <1> DEFINE N == KEYBOARD_BUFFER_SIZE
             typed == temp_kbd_buf[t]
  <1>1. /\ PoliteLine(t) /\ ReaderOK(t) /\ ~reading[t] /\ ~sys_read_flag[t]
        /\ keyboard_cursor_idx[t] = 0 /\ keyboard_buffer_end_idx[t] = 0
    BY DEF EditorInv, PoliteInv, PoliteLine, ReadTerminal
  <1>2. /\ sys_read_flag' = [sys_read_flag EXCEPT ![t] = TRUE]
        /\ reading' = [reading EXCEPT ![t] = TRUE]
        /\ nbytes' = [nbytes EXCEPT ![t] = IF m > N THEN N - 1 ELSE m]
        /\ UNCHANGED <<buf, last_buf>>
    BY DEF ReadTerminal
  <1>3. /\ sys_read_flag'[t] /\ reading'[t] /\ nbytes'[t] \in {N - 1, N}
        /\ nbytes' \in [Terminals -> Nat]
        /\ \A u \in Terminals \ {t} : /\ sys_read_flag'[u] = sys_read_flag[u]
                                      /\ reading'[u] = reading[u]
                                      /\ nbytes'[u] = nbytes[u]
    <2>1. (IF m > N THEN N - 1 ELSE m) \in {N - 1, N} /\ N - 1 \in Nat
      BY LineAssumption
    <2> QED
      BY <1>2, <2>1 DEF EditorInv, PoliteInv, FlagsType
  <1>4. /\ N \in 0 .. N /\ keyboard_buffer \in [Addresses -> Cells]
        /\ keyboard_buffer' \in [Addresses -> Cells]
    BY LineAssumption DEF EditorInv, PoliteInv, LineInv, MemoryInv
  <1>5. ~re_echo_flag'[t] /\ temp_kbd_buf'[t] = << >>
    BY <1>3 DEF PoliteInv, PoliteLine
  <1>6. /\ \A u \in Terminals \ {t} :
             /\ keyboard_cursor_idx'[u] = keyboard_cursor_idx[u]
             /\ keyboard_buffer_end_idx'[u] = keyboard_buffer_end_idx[u]
             /\ re_echo_flag'[u] = re_echo_flag[u]
             /\ temp_kbd_buf'[u] = temp_kbd_buf[u]
             /\ \A j \in 0 .. N - 1 :
                  keyboard_buffer'[Addr(u, j)] = keyboard_buffer[Addr(u, j)]
        /\ keyboard_cursor_idx'[t] = CursorPos(t)
        /\ Row(keyboard_buffer', t, keyboard_buffer_end_idx'[t]) = Line(t)
    <2>1. CASE re_echo_flag[t] \/ (shell_flag[t] /\ temp_kbd_buf[t] # << >>)
      <3>1. EchoTyped(t)
        BY <2>1 DEF ReadTerminal
      <3>2. PICK n \in 0 .. N - 1 :
              /\ keyboard_cursor_idx' = [keyboard_cursor_idx EXCEPT ![t] = n]
              /\ keyboard_buffer_end_idx' = [keyboard_buffer_end_idx EXCEPT ![t] = n]
              /\ n = IF typed = <<NEWLINE>> THEN 0 ELSE Len(typed)
        BY <3>1, EchoedIsClean DEF EditorInv
      <3>3. /\ re_echo_flag' = [re_echo_flag EXCEPT ![t] = FALSE]
            /\ temp_kbd_buf' = [temp_kbd_buf EXCEPT ![t] = << >>]
            /\ keyboard_buffer' = Memcpy(Memset(keyboard_buffer, t, N), t, typed)
        BY <3>1 DEF EchoTyped
      <3>4. typed \in Lines(N)
        BY DEF EditorInv, PoliteInv, LineInv, BufferInv
      <3>5. \A u \in Terminals \ {t} : \A j \in 0 .. N - 1 :
              keyboard_buffer'[Addr(u, j)] = keyboard_buffer[Addr(u, j)]
        BY <1>4, <3>3, <3>4, RowsCopied DEF EditorInv
      <3>6. /\ keyboard_cursor_idx'[t] = n /\ keyboard_buffer_end_idx'[t] = n
            /\ \A u \in Terminals \ {t} :
                 /\ keyboard_cursor_idx'[u] = keyboard_cursor_idx[u]
                 /\ keyboard_buffer_end_idx'[u] = keyboard_buffer_end_idx[u]
                 /\ re_echo_flag'[u] = re_echo_flag[u]
                 /\ temp_kbd_buf'[u] = temp_kbd_buf[u]
        BY <3>2, <3>3 DEF EditorInv, PoliteInv, FlagsType, LineInv, IndexInv, BufferInv
      <3>7. n = CursorPos(t) /\ Row(keyboard_buffer', t, n) = Line(t)
        <4>1. CASE re_echo_flag[t]
          <5>1. typed \in CleanLines /\ CursorPos(t) = Len(typed) /\ Line(t) = typed
            BY <1>1, <4>1 DEF ReaderOK, CursorPos, Line
          <5>2. typed # <<NEWLINE>>
            <6> SUFFICES ASSUME typed = <<NEWLINE>> PROVE FALSE
              OBVIOUS
            <6>1. 1 \in 1 .. Len(typed) /\ typed[1] = NEWLINE
              OBVIOUS
            <6> QED
              BY <5>1, <6>1, CleanAreLines DEF Clean
          <5> HIDE DEF typed
          <5>3. Row(keyboard_buffer', t, Len(typed)) = typed
            BY <1>4, <3>3, <5>1, CopiedRow DEF EditorInv
          <5> QED
            BY <3>2, <5>1, <5>2, <5>3
        <4>2. CASE ~re_echo_flag[t]
          <5>1. typed = <<NEWLINE>>
            BY <1>1, <2>1, <4>2 DEF ReaderOK
          <5>2. n = 0
            BY <3>2, <5>1
          <5>3. CursorPos(t) = 0 /\ Line(t) = Row(keyboard_buffer, t, 0)
            BY <1>1, <4>2 DEF CursorPos, Line
          <5> QED
            BY <1>4, <5>2, <5>3, EmptyRow
        <4> QED
          BY <4>1, <4>2
      <3> QED
        BY <3>5, <3>6, <3>7
    <2>2. CASE ~(re_echo_flag[t] \/ (shell_flag[t] /\ temp_kbd_buf[t] # << >>))
      <3>1. /\ keyboard_buffer' = Memset(keyboard_buffer, t, N)
            /\ UNCHANGED <<keyboard_cursor_idx, keyboard_buffer_end_idx, re_echo_flag,
                           temp_kbd_buf>>
        BY <2>2 DEF ReadTerminal
      <3>2. \A u \in Terminals \ {t} : \A j \in 0 .. N - 1 :
              keyboard_buffer'[Addr(u, j)] = keyboard_buffer[Addr(u, j)]
        BY <1>4, <3>1, MemsetRows
      <3>3. CursorPos(t) = 0 /\ Line(t) = Row(keyboard_buffer, t, 0)
        BY <1>1, <2>2 DEF CursorPos, Line
      <3>4. Row(keyboard_buffer', t, 0) = Row(keyboard_buffer, t, 0)
        BY <1>4, EmptyRow
      <3> QED
        BY <1>1, <3>1, <3>2, <3>3, <3>4
    <2> QED
      BY <2>1, <2>2
  <1> HIDE DEF typed
  <1>7. \A u \in Terminals \ {t} : Kept(u)
    BY <1>2, <1>3, <1>6 DEF Kept
  <1>8. \A u \in Terminals \ {t} : SameView(u) /\ ReaderOK(u)'
    BY <1>7, KeptView
  <1>9. ReaderOK(t)'
    BY <1>3, <1>5 DEF ReaderOK
  <1>10. EditorInv'
    BY <1>2, <1>3, <1>8, <1>9 DEF EditorInv
  <1>11. Mode(t) = "busy" /\ "busy" # "submitted"
    BY <1>1 DEF Mode
  <1>12. EditedLine(t) = Line(t)
    BY <1>11 DEF EditedLine
  <1>13. /\ Mode(t)' = "editing" /\ EditedLine(t)' = EditedLine(t)
         /\ CursorPos(t)' = CursorPos(t)
    BY <1>3, <1>5, <1>6, <1>12, EditingViewAfter
  <1>14. /\ last_buf = [u \in Terminals |-> last_buf[u]]
         /\ last_buf' = [u \in Terminals |-> last_buf'[u]]
    BY LastIsFunction
  <1>15. /\ [u \in Terminals |-> Mode(u)]'
              = [[u \in Terminals |-> Mode(u)] EXCEPT ![t] = "editing"]
         /\ [u \in Terminals |-> EditedLine(u)]' = [u \in Terminals |-> EditedLine(u)]
         /\ [u \in Terminals |-> CursorPos(u)]' = [u \in Terminals |-> CursorPos(u)]
         /\ last_buf' = last_buf
         /\ [u \in Terminals |-> WithoutNewline(buf[u])]'
              = [u \in Terminals |-> WithoutNewline(buf[u])]
    BY <1>2, <1>8, <1>13, <1>14, ViewStep
  <1> QED
    BY <1>10, <1>11, <1>15 DEF Editor!Prompt

\* A read that is long enough for a row finds the text of a row that has an end.
LEMMA ReadGetsText ==
  ASSUME EditorInv, NEW t \in Terminals, NEW n \in {KEYBOARD_BUFFER_SIZE - 1, KEYBOARD_BUFFER_SIZE},
         NEW e \in 0 .. KEYBOARD_BUFFER_SIZE - 1, keyboard_buffer[Addr(t, e)] \notin Clean
  PROVE  /\ UpTo(Row(keyboard_buffer, t, n), {NUL, NEWLINE}) = Text(t)
         /\ Text(t) \in Seq(Cells)
  <1> DEFINE N == KEYBOARD_BUFFER_SIZE
             stop == {NUL, NEWLINE}
             r == Row(keyboard_buffer, t, N)
             s == Row(keyboard_buffer, t, n)
             k == Len(UpTo(r, stop))
  <1>1. N \in 0 .. N /\ n \in 0 .. N /\ keyboard_buffer \in [Addresses -> Cells]
    BY LineAssumption DEF EditorInv, PoliteInv, LineInv, MemoryInv
  <1>2. r \in Seq(Cells) /\ Len(r) = N /\ \A j \in 1 .. N : r[j] = keyboard_buffer[Addr(t, j - 1)]
    BY <1>1, RowIsLine DEF Lines
  <1>3. s \in Seq(Cells) /\ Len(s) = n /\ \A j \in 1 .. n : s[j] = keyboard_buffer[Addr(t, j - 1)]
    BY <1>1, RowIsLine DEF Lines
  <1>4. Text(t) = UpTo(r, stop)
    BY DEF Text
  <1> HIDE DEF r, s
  <1>5. /\ k \in 0 .. N /\ \A j \in 1 .. k : r[j] \notin stop
        /\ k < N => r[k + 1] \in stop
    BY <1>2, UpToCuts
  <1> HIDE DEF k
  <1>6. k <= e
    <2> SUFFICES ASSUME ~(k <= e) PROVE FALSE
      OBVIOUS
    <2>1. e + 1 \in 1 .. k /\ e + 1 \in 1 .. N /\ (e + 1) - 1 = e
      BY <1>5, LineAssumption
    <2>2. r[e + 1] = keyboard_buffer[Addr(t, e)] /\ r[e + 1] \in Cells
      BY <1>2, <2>1
    <2> QED
      BY <1>5, <2>1, <2>2 DEF Clean
  <1>7. k \in 0 .. Len(s) /\ k \in 0 .. Len(r) /\ k < N
    BY <1>2, <1>3, <1>5, <1>6, LineAssumption
  <1>8. \A j \in 1 .. n : s[j] = r[j]
    BY <1>1, <1>2, <1>3
  <1>9. UpTo(s, stop) = SubSeq(s, 1, k)
    <2>1. \A j \in 1 .. k : s[j] \notin stop
      BY <1>3, <1>5, <1>7, <1>8, SMTT(20)
    <2>2. k < Len(s) => s[k + 1] \in stop
      BY <1>3, <1>5, <1>7, <1>8
    <2> QED
      BY <1>3, <1>7, <2>1, <2>2, UpToIs
  <1>10. UpTo(r, stop) = SubSeq(r, 1, k)
    BY <1>2, <1>5, <1>7, UpToIs
  <1>11. SubSeq(s, 1, k) = SubSeq(r, 1, k) /\ SubSeq(r, 1, k) \in Seq(Cells)
    <2> DEFINE x == SubSeq(s, 1, k)
               y == SubSeq(r, 1, k)
    <2>1. x \in Seq(Cells) /\ Len(x) = k /\ \A j \in 1 .. k : x[j] = s[j]
      BY <1>3, <1>7
    <2>2. y \in Seq(Cells) /\ Len(y) = k /\ \A j \in 1 .. k : y[j] = r[j]
      BY <1>2, <1>7
    <2>3. \A j \in 1 .. k : s[j] = r[j]
      BY <1>3, <1>7, <1>8
    <2> HIDE DEF x, y
    <2>4. x = y
      BY <2>1, <2>2, <2>3
    <2> QED
      BY <2>2, <2>4 DEF x, y
  <1> QED
    BY <1>4, <1>9, <1>10, <1>11 DEF s

\* Taking off the newline that was put on.
LEMMA WithoutNewlineOf ==
  ASSUME NEW s \in Seq(Cells)
  PROVE  WithoutNewline(Append(s, NEWLINE)) = s /\ Append(s, NEWLINE) \in Seq(Cells)
  <1> DEFINE a == Append(s, NEWLINE)
             x == SubSeq(a, 1, Len(a) - 1)
  <1>1. a \in Seq(Cells) /\ Len(a) = Len(s) + 1 /\ \A j \in 1 .. Len(s) : a[j] = s[j]
    BY DEF Cells
  <1>2. Len(s) \in Nat
    OBVIOUS
  <1> HIDE DEF a
  <1>3. a # << >> /\ Len(a) - 1 = Len(s)
    BY <1>1, <1>2
  <1>4. x \in Seq(Cells) /\ Len(x) = Len(s) /\ \A j \in 1 .. Len(s) : x[j] = a[j]
    BY <1>1, <1>2
  <1> HIDE DEF x
  <1>5. x = s
    BY <1>1, <1>4
  <1> QED
    BY <1>1, <1>3, <1>5 DEF WithoutNewline, a, x

\* A read that returns delivers the submitted line, or nothing after a redraw.
LEMMA ReturnIsDelivery ==
  ASSUME EditorInv, PoliteInv', NEW t \in Terminals, ReadReturns(t)
  PROVE  EditorInv' /\ (Editor!Deliver(t) \/ Editor!DeliverNothing(t))
  <1> DEFINE N == KEYBOARD_BUFFER_SIZE
             g == UpTo(Row(keyboard_buffer, t, nbytes[t]), {NUL, NEWLINE})
  <1>1. /\ reading[t] /\ ~sys_read_flag[t] /\ PoliteLine(t) /\ ReaderOK(t)
        /\ keyboard_buffer_end_idx[t] = 0 /\ keyboard_buffer \in [Addresses -> Cells]
    BY DEF ReadReturns, EditorInv, PoliteInv, PoliteLine, LineInv, MemoryInv
  <1>2. /\ buf' = [buf EXCEPT ![t] = Append(g, NEWLINE)]
        /\ reading' = [reading EXCEPT ![t] = FALSE]
        /\ UNCHANGED <<nbytes, sys_read_flag, keyboard_buffer, keyboard_cursor_idx,
                       keyboard_buffer_end_idx, temp_kbd_buf, re_echo_flag, last_buf>>
    BY DEF ReadReturns, lineVars, tempVars, historyVars
  <1>3. nbytes[t] \in {N - 1, N}
    BY <1>1 DEF ReaderOK
  <1>4. PICK e \in 0 .. N - 1 : keyboard_buffer[Addr(t, e)] \notin Clean
    BY <1>1 DEF ReaderOK
  <1>5. g = Text(t) /\ g \in Seq(Cells)
    BY <1>3, <1>4, ReadGetsText
  <1>6. re_echo_flag[t] => g = << >>
    <2> SUFFICES ASSUME re_echo_flag[t] PROVE g = << >>
      OBVIOUS
    <2>1. nbytes[t] \in 1 .. N
      BY <1>3, LineAssumption
    <2>2. keyboard_buffer[Addr(t, 0)] \notin Clean
      BY <1>1 DEF ReaderOK
    <2> QED
      BY <1>1, <2>1, <2>2, NoText
  <1> HIDE DEF g
  <1>7. WithoutNewline(Append(g, NEWLINE)) = g /\ Append(g, NEWLINE) \in Seq(Cells)
    BY <1>5, WithoutNewlineOf
  <1>8. /\ ~reading'[t] /\ WithoutNewline(buf'[t]) = g
        /\ buf' \in [Terminals -> Seq(Cells)]
        /\ \A u \in Terminals \ {t} : reading'[u] = reading[u] /\ buf'[u] = buf[u]
    BY <1>2, <1>7 DEF EditorInv, PoliteInv, FlagsType
  <1>9. \A u \in Terminals \ {t} : Kept(u)
    BY <1>2, <1>8 DEF Kept
  <1>10. \A u \in Terminals \ {t} : SameView(u) /\ ReaderOK(u)'
    BY <1>9, KeptView
  <1>11. ReaderOK(t)'
    BY <1>1, <1>2, <1>8 DEF ReaderOK
  <1>12. EditorInv'
    BY <1>2, <1>8, <1>10, <1>11 DEF EditorInv
  <1>13. Mode(t)' = "busy" /\ "busy" # "submitted" /\ "redrawing" # "submitted"
    BY <1>8 DEF Mode
  <1>14. Line(t)' = Line(t) /\ CursorPos(t)' = CursorPos(t)
    BY <1>2 DEF Line, CursorPos
  <1>15. EditedLine(t)' = Line(t)
    BY <1>13, <1>14 DEF EditedLine
  <1>16. /\ last_buf = [u \in Terminals |-> last_buf[u]]
         /\ last_buf' = [u \in Terminals |-> last_buf'[u]]
    BY LastIsFunction
  <1>17. /\ [u \in Terminals |-> Mode(u)]'
              = [[u \in Terminals |-> Mode(u)] EXCEPT ![t] = "busy"]
         /\ [u \in Terminals |-> EditedLine(u)]'
              = [[u \in Terminals |-> EditedLine(u)] EXCEPT ![t] = Line(t)]
         /\ EditedLine(t)' = EditedLine(t) =>
              [u \in Terminals |-> EditedLine(u)]' = [u \in Terminals |-> EditedLine(u)]
         /\ [u \in Terminals |-> CursorPos(u)]' = [u \in Terminals |-> CursorPos(u)]
         /\ last_buf' = last_buf
         /\ [u \in Terminals |-> WithoutNewline(buf[u])]'
              = [[u \in Terminals |-> WithoutNewline(buf[u])] EXCEPT ![t] = g]
    BY <1>2, <1>8, <1>10, <1>13, <1>14, <1>15, <1>16, ViewStep
  <1>18. CASE ~re_echo_flag[t]
    <2>1. Mode(t) = "submitted"
      BY <1>1, <1>18 DEF Mode
    <2>2. EditedLine(t) = g
      BY <1>5, <2>1 DEF EditedLine
    <2>3. Line(t) = << >>
      BY <1>1, <1>18, EmptyRow DEF Line
    <2> QED
      BY <1>12, <1>17, <2>1, <2>2, <2>3 DEF Editor!Deliver
  <1>19. CASE re_echo_flag[t]
    <2>1. Mode(t) = "redrawing"
      BY <1>1, <1>19 DEF Mode
    <2>2. EditedLine(t)' = EditedLine(t)
      BY <1>13, <1>15, <2>1 DEF EditedLine
    <2>3. g = << >>
      BY <1>6, <1>19
    <2> QED
      BY <1>12, <1>17, <2>1, <2>2, <2>3 DEF Editor!DeliverNothing
  <1> QED
    BY <1>18, <1>19

\* Every step keeps the invariant and is a step of the editor or none.
LEMMA EditorStep ==
  ASSUME NUL \notin Chars, "down" \notin EditKeys,
         \A n \in ReadSizes : n >= KEYBOARD_BUFFER_SIZE,
         EditorInv, [PoliteNext]_lvars
  PROVE  EditorInv' /\ [Editor!ENext]_(Editor!evars)
  <1> DEFINE v == visible_terminal
  <1>1. v \in Terminals /\ PoliteInv
    BY DEF EditorInv, PoliteInv, LineInv, MemoryInv
  <1>2. PoliteInv'
    BY <1>1, PoliteInvStep
  <1>3. CASE sys_read_flag[v] /\ Key(v)
    <2>1. ASSUME NEW c \in Chars, PressChar(v, c)
          PROVE  EditorInv' /\ [Editor!ENext]_(Editor!evars)
      BY <1>1, <1>2, <1>3, <2>1, CharIsInsert DEF Editor!ENext
    <2>2. CASE PressEnter(v)
      BY <1>1, <1>2, <1>3, <2>2, EnterIsSubmit DEF Editor!ENext
    <2>3. CASE PressBackspace(v)
      BY <1>1, <1>2, <1>3, <2>3, BackspaceIsErase DEF Editor!ENext
    <2>4. CASE PressLeft(v) \/ PressRight(v)
      BY <1>1, <1>2, <1>3, <2>4, ArrowsAreMoves DEF Editor!ENext
    <2>5. CASE PressUp(v)
      BY <1>1, <1>2, <1>3, <2>5, UpIsRecall DEF Editor!ENext
    <2> QED
      BY <1>3, <2>1, <2>2, <2>3, <2>4, <2>5 DEF Key, EditKey
  <1>4. CASE Overrun(v)
    <2>1. keyboard_buffer_end_idx[v] \in 0 .. KEYBOARD_BUFFER_SIZE - 1
      BY <1>1, PoliteEnds
    <2>2. ~(keyboard_buffer_end_idx[v] < 0)
      BY <2>1
    <2> QED
      BY <1>4, <2>2 DEF Overrun, NegativeLength
  <1>5. CASE sys_read_flag[v] /\ HarmlessClear(v) /\ PressCtrlL(v)
    BY <1>1, <1>2, <1>5, CtrlLIsRedraw DEF Editor!ENext
  <1>6. ASSUME NEW t \in Terminals, NEW n \in ReadSizes, ReadTerminal(t, n)
        PROVE  EditorInv' /\ [Editor!ENext]_(Editor!evars)
    <2>1. n \in Nat /\ n >= KEYBOARD_BUFFER_SIZE
      BY LineAssumption
    <2> QED
      BY <1>2, <1>6, <2>1, ReadIsPrompt DEF Editor!ENext
  <1>7. ASSUME NEW t \in Terminals, ReadReturns(t)
        PROVE  EditorInv' /\ [Editor!ENext]_(Editor!evars)
    BY <1>2, <1>7, ReturnIsDelivery DEF Editor!ENext
  <1>8. ASSUME \/ \E t \in Terminals : ChangeProgram(t) \/ SwitchTerminal(t)
               \/ UNCHANGED lvars
        PROVE  EditorInv' /\ [Editor!ENext]_(Editor!evars)
    <2>1. UNCHANGED <<reading, nbytes, buf, sys_read_flag, re_echo_flag, temp_kbd_buf,
                      last_buf, keyboard_buffer, keyboard_cursor_idx, keyboard_buffer_end_idx>>
      BY <1>8 DEF ChangeProgram, Halt, Execute, SwitchTerminal, lvars, processVars, tempVars,
         historyVars, lineVars
    <2>2. \A u \in Terminals : Kept(u)
      BY <2>1 DEF Kept
    <2> QED
      BY <1>2, <2>1, <2>2, StutterStep
  <1> QED
    BY <1>3, <1>4, <1>5, <1>6, <1>7, <1>8 DEF PoliteNext

\* The editor starts with the line discipline.
LEMMA EditorInit ==
  ASSUME LineInit
  PROVE  EditorInv /\ Editor!EInit
  <1>1. PoliteInv
    BY PoliteInvInit
  <1>2. EditorInv
    BY <1>1 DEF LineInit, EditorInv, ReaderOK
  <1>3. ASSUME NEW t \in Terminals
        PROVE  /\ Mode(t) = "busy" /\ EditedLine(t) = << >> /\ CursorPos(t) = 0
               /\ WithoutNewline(buf[t]) = << >>
    <2>1. Mode(t) = "busy" /\ "busy" # "submitted"
      BY DEF Mode, LineInit
    <2>2. Line(t) = Row(keyboard_buffer, t, 0)
      BY DEF LineInit, Line
    <2>3. Row(keyboard_buffer, t, 0) = << >>
      BY <1>1, EmptyRow DEF PoliteInv, LineInv, MemoryInv
    <2> QED
      BY <2>1, <2>2, <2>3 DEF LineInit, EditedLine, CursorPos, WithoutNewline
  <1>4. Editor!EInit
    BY <1>3 DEF Editor!EInit, LineInit
  <1> QED
    BY <1>2, <1>4

\* The initial and step conditions of the refinement that a run checks on a
\* small instance as ImplementsLineEditor: for any number of terminals, length of
\* lines and set of characters, every key, terminal switch, redraw and read of a
\* polite session is one step of LineEditor on one terminal's line or none, and
\* the process that reads gets the line that was typed.  No key gives a NUL, Down
\* is not used, and reads are at least as long as a row, as the shell's are.
THEOREM ImplementsEditor ==
  ASSUME NUL \notin Chars, "down" \notin EditKeys,
         \A n \in ReadSizes : n >= KEYBOARD_BUFFER_SIZE
  PROVE  PoliteSpec => Editor!EInit /\ [][Editor!ENext]_(Editor!evars)
  <1>1. LineInit => EditorInv /\ Editor!EInit
    BY EditorInit
  <1>2. EditorInv /\ [PoliteNext]_lvars => EditorInv' /\ [Editor!ENext]_(Editor!evars)
    BY EditorStep
  <1> QED
    BY <1>1, <1>2, PTL DEF PoliteSpec
=============================================================================
