------------------------------- MODULE Screen -------------------------------
(***************************************************************************)
(* The text screens of the terminals: putc, wraparound, scroll_down,       *)
(* backspace, left_arrow, right_arrow and clear of lib.c, as the keyboard  *)
(* handler and writing processes call them, and switch_terminal.           *)
(*                                                                         *)
(* The visible terminal's text is in video memory, the others' in their    *)
(* buffers.  A process writes to the terminal it runs on, the keyboard to  *)
(* the visible one.  The routines are operators on the screen s of one     *)
(* terminal: cursor, the two wrap-around counters and text.                *)
(***************************************************************************)
EXTENDS Integers

CONSTANTS
  NUM_TERMINALS,          \* 3 in the code
  NUM_COLS, NUM_ROWS,     \* 80 and 25 in the code
  KEYBOARD_BUFFER_SIZE,   \* 128 in the code
  Chars,                  \* what is written
  Keys,                   \* which of the keys below the user has
  Typing,                 \* bound on the terminals on which keys are pressed
  MaxOutput,              \* bound on the characters processes write
  MaxDistance,            \* bound on distance_from_right, an int in the code
  NUL, BLANK, NEWLINE     \* '\0', ' ' and '\n'

Terminals == 0 .. NUM_TERMINALS - 1

\* A page of video memory holds the screen and some bytes behind it.
Page == 0 .. (NUM_ROWS + 1) * NUM_COLS

ASSUME ScreenAssumption ==
  /\ NUM_TERMINALS \in Nat \ {0}
  /\ NUM_COLS \in Nat /\ NUM_COLS > 2
  /\ NUM_ROWS \in Nat /\ NUM_ROWS > 1
  /\ KEYBOARD_BUFFER_SIZE \in Nat /\ KEYBOARD_BUFFER_SIZE > 1
  /\ Keys \subseteq {"char", "enter", "backspace", "left", "right", "ctrl_L"}
  /\ Typing \subseteq Terminals
  /\ NEWLINE \notin Chars /\ MaxOutput \in Nat /\ MaxDistance \in Nat

VARIABLES
  visible_terminal,
  at,           \* terminal -> screen_x, screen_y, forward_next, backward_next
  VIDEO,        \* video memory
  video_buf,    \* terminal -> buffer of its text while it is hidden
  cursor,       \* where the hardware shows the cursor
  keyboard_cursor_idx,
  distance_from_right,
  re_echo,      \* terminal -> characters saved by Ctrl-L, to be written again
  output        \* characters written by processes so far

svars == <<visible_terminal, at, VIDEO, video_buf, cursor, keyboard_cursor_idx,
           distance_from_right, re_echo, output>>

EmptyPage == [i \in Page |-> NUL]

\* The counters are as the boot code leaves them.
ScreenInit ==
  /\ visible_terminal = 0
  /\ at = [t \in Terminals |-> [x |-> 0, y |-> 0, forward_next |-> 1,
                                backward_next |-> NUM_COLS]]
  /\ VIDEO = EmptyPage
  /\ video_buf = [t \in Terminals |-> EmptyPage]
  /\ cursor = 0
  /\ keyboard_cursor_idx = [t \in Terminals |-> 0]
  /\ distance_from_right = [t \in Terminals |-> 0]
  /\ re_echo = [t \in Terminals |-> 0]
  /\ output = 0

-----------------------------------------------------------------------------
(* The routines of lib.c on a screen s.                                     *)

Text(t) == IF t = visible_terminal THEN VIDEO ELSE video_buf[t]
ScreenOf(t) == [pos |-> at[t], text |-> Text(t)]

Place(p) == p.y * NUM_COLS + p.x

Write(s, i, c) == [s EXCEPT !.text[i] = c]

Next0(p) == IF p.forward_next = NUM_COLS THEN 0 ELSE p.forward_next
Next1(p) == IF p.x = NUM_COLS - 1 THEN NUM_COLS ELSE Next0(p)

wraparound(s) ==
  LET p == [s.pos EXCEPT !.forward_next = Next1(s.pos)]
  IN  [s EXCEPT !.pos =
         IF p.x = 0 /\ p.forward_next = 0
           THEN [p EXCEPT !.y = @ + 1, !.backward_next = NUM_COLS,
                          !.forward_next = 1]
           ELSE p]

scroll_down_Never(s) == s

scroll_down(s) ==
  IF s.pos.y < NUM_ROWS THEN s
  ELSE [pos  |-> [s.pos EXCEPT !.y = NUM_ROWS - 1, !.x = 0],
        text |-> [i \in Page |->
                    CASE i < (NUM_ROWS - 1) * NUM_COLS -> s.text[i + NUM_COLS]
                      [] i \in (NUM_ROWS - 1) * NUM_COLS .. NUM_ROWS * NUM_COLS - 1 -> NUL
                      [] OTHER -> s.text[i]]]

AtEdge(p) == p.x \in {0, NUM_COLS - 1, NUM_COLS}

\* screen_x / NUM_COLS is 0 after the remainder, so a character leaves
\* screen_y to wraparound; the remainder by NUM_ROWS is kept.
putc(s, c) ==
  LET p == s.pos
      moved == IF c = NEWLINE
                 THEN [s EXCEPT !.pos.x = 0, !.pos.y = IF AtEdge(p) THEN @ ELSE @ + 1]
                 ELSE [Write(s, Place(p), c) EXCEPT
                         !.pos.x = (@ + 1) % NUM_COLS, !.pos.y = @ % NUM_ROWS]
  IN  scroll_down(IF AtEdge(moved.pos) THEN wraparound(moved) ELSE moved)

\* Column x of row y, with the counters backspace and the arrows set.
Moved(x, y) ==
  CASE x = 0 -> [x |-> x, y |-> y, forward_next |-> 1, backward_next |-> NUM_COLS]
    [] OTHER -> [x |-> x, y |-> y, forward_next |-> x + 1, backward_next |-> x - 1]

\* The last column of the row above.
Above(p) ==
  IF p.backward_next = NUM_COLS
    THEN [x |-> NUM_COLS - 1, y |-> p.y - 1, forward_next |-> 0,
          backward_next |-> NUM_COLS - 1]
    ELSE [x |-> NUM_COLS - 1, y |-> p.y - 1, forward_next |-> NUM_COLS,
          backward_next |-> NUM_COLS - 2]

StepBack_SameRow(p) == IF p.x # 0 THEN Moved(p.x - 1, p.y) ELSE p

\* No newline is ever stored in the text, so the test for one is left out.
StepBack(p) == IF p.x # 0 THEN Moved(p.x - 1, p.y) ELSE Above(p)

CanStepBack(s, idx) == ~(s.pos.x = 0 /\ s.pos.y = 0) /\ idx # 0

backspace(s, idx) ==
  IF CanStepBack(s, idx)
    THEN [Write(s, Place(StepBack(s.pos)), BLANK) EXCEPT !.pos = StepBack(@)]
    ELSE s

left_arrow(s, idx) ==
  IF CanStepBack(s, idx) THEN [s EXCEPT !.pos = StepBack(@)] ELSE s

\* backward_next == 0 compares the array's address, so a cursor behind the last
\* column goes down a row and stays behind the last column.
right_arrow(s, idx) ==
  LET p == s.pos
  IN  CASE idx = KEYBOARD_BUFFER_SIZE - 1 -> s
        [] idx # KEYBOARD_BUFFER_SIZE - 1 /\ p.x < NUM_COLS - 1 ->
             [s EXCEPT !.pos = Moved(p.x + 1, p.y)]
        [] idx # KEYBOARD_BUFFER_SIZE - 1 /\ p.x = NUM_COLS - 1 ->
             [s EXCEPT !.pos = [x |-> NUM_COLS, y |-> p.y, backward_next |-> 0,
                                forward_next |-> NUM_COLS - 1]]
        [] idx # KEYBOARD_BUFFER_SIZE - 1 /\ p.x = NUM_COLS /\ p.y < NUM_ROWS - 1 ->
             [s EXCEPT !.pos.y = @ + 1]
        [] OTHER -> s

\* clear leaves forward_next and backward_next alone.
clear(s) ==
  [pos  |-> [s.pos EXCEPT !.x = 0, !.y = 0],
   text |-> [i \in Page |-> IF i < NUM_ROWS * NUM_COLS THEN NUL ELSE s.text[i]]]

-----------------------------------------------------------------------------
(* Their callers.                                                           *)

Show_OnScreen(t, s) ==
  /\ at' = [at EXCEPT ![t] = s.pos]
  /\ VIDEO' = s.text
  /\ UNCHANGED <<visible_terminal, video_buf>>

\* The screen of terminal t becomes s; update_cursor shows the visible one's.
Show(t, s) ==
  /\ at' = [at EXCEPT ![t] = s.pos]
  /\ IF t = visible_terminal THEN VIDEO' = s.text /\ UNCHANGED video_buf
                             ELSE video_buf' = [video_buf EXCEPT ![t] = s.text]
                                  /\ UNCHANGED VIDEO
  /\ UNCHANGED visible_terminal

UpdateCursor_Skipped == UNCHANGED cursor

UpdateCursor == cursor' = Place(at'[visible_terminal'])

SetLine(v, idx, distance) ==
  /\ distance <= MaxDistance
  /\ keyboard_cursor_idx' = [keyboard_cursor_idx EXCEPT ![v] = idx]
  /\ distance_from_right' = [distance_from_right EXCEPT ![v] = distance]

\* keyboard_interrupt calls both again after the echo; the cursor was updated
\* by putc.
Echoed(s, c) == scroll_down(wraparound(putc(s, c)))

KeyChar(c) ==
  LET v == visible_terminal
      idx == keyboard_cursor_idx[v]
  IN  /\ "char" \in Keys
      /\ idx < KEYBOARD_BUFFER_SIZE - 1
      /\ Show(v, Echoed(ScreenOf(v), c))
      /\ cursor' = Place(putc(ScreenOf(v), c).pos)
      /\ SetLine(v, idx + 1, IF distance_from_right[v] > 0
                              THEN distance_from_right[v] - 1 ELSE 0)
      /\ UNCHANGED <<re_echo, output>>

\* A full line: no echo, but wraparound and scroll_down.
KeyCharFull ==
  LET v == visible_terminal
  IN  /\ "char" \in Keys
      /\ keyboard_cursor_idx[v] = KEYBOARD_BUFFER_SIZE - 1
      /\ Show(v, scroll_down(wraparound(ScreenOf(v))))
      /\ UNCHANGED <<cursor, keyboard_cursor_idx, distance_from_right, re_echo, output>>

KeyEnter ==
  LET v == visible_terminal
  IN  /\ "enter" \in Keys
      /\ Show(v, Echoed(ScreenOf(v), NEWLINE))
      /\ cursor' = Place(putc(ScreenOf(v), NEWLINE).pos)
      /\ SetLine(v, 0, 0)
      /\ UNCHANGED <<re_echo, output>>

KeyBackspace ==
  LET v == visible_terminal
      idx == keyboard_cursor_idx[v]
  IN  /\ "backspace" \in Keys
      /\ idx > 0
      /\ Show(v, backspace(ScreenOf(v), idx))
      /\ UpdateCursor
      /\ SetLine(v, idx - 1, IF distance_from_right[v] = 0
                              THEN 0 ELSE distance_from_right[v] + 1)
      /\ UNCHANGED <<re_echo, output>>

KeyLeft ==
  LET v == visible_terminal
      idx == keyboard_cursor_idx[v]
  IN  /\ "left" \in Keys
      /\ idx > 0
      /\ Show(v, left_arrow(ScreenOf(v), idx))
      /\ UpdateCursor
      /\ SetLine(v, idx - 1, distance_from_right[v] + 1)
      /\ UNCHANGED <<re_echo, output>>

KeyRight ==
  LET v == visible_terminal
      idx == keyboard_cursor_idx[v]
      s == right_arrow(ScreenOf(v), idx)
      ret_from_right == IF s = ScreenOf(v) THEN 0 ELSE 1
  IN  /\ "right" \in Keys
      /\ distance_from_right[v] > 0 /\ idx < KEYBOARD_BUFFER_SIZE - 1
      /\ Show(v, s)
      /\ UpdateCursor
      /\ SetLine(v, idx + ret_from_right, distance_from_right[v] - ret_from_right)
      /\ UNCHANGED <<re_echo, output>>

KeyCtrlL ==
  /\ "ctrl_L" \in Keys
  /\ Show(visible_terminal, clear(ScreenOf(visible_terminal)))
  /\ UpdateCursor
  /\ SetLine(visible_terminal, 0, distance_from_right[visible_terminal])
  /\ re_echo' = [re_echo EXCEPT ![visible_terminal] = keyboard_cursor_idx[visible_terminal]]
  /\ UNCHANGED output

\* The next _sys_read_terminal on the terminal writes the saved characters in
\* one go.
ReEcho(t) ==
  /\ re_echo[t] > 0
  /\ \E saved \in [1 .. re_echo[t] -> Chars] :
       LET after[n \in 0 .. re_echo[t]] ==
             IF n = 0 THEN ScreenOf(t) ELSE putc(after[n - 1], saved[n])
       IN  Show(t, after[re_echo[t]])
  /\ UpdateCursor
  /\ SetLine(t, re_echo[t], distance_from_right[t])
  /\ re_echo' = [re_echo EXCEPT ![t] = 0]
  /\ UNCHANGED output

\* _sys_write_terminal, one character; also printf in the kernel.
WriteTerminal(t, c) ==
  /\ output < MaxOutput
  /\ output' = output + 1
  /\ Show(t, putc(ScreenOf(t), c))
  /\ UpdateCursor
  /\ UNCHANGED <<keyboard_cursor_idx, distance_from_right, re_echo>>

switch_terminal(t) ==
  /\ t # visible_terminal
  /\ video_buf' = [video_buf EXCEPT ![visible_terminal] = VIDEO]
  /\ VIDEO' = video_buf[t]
  /\ visible_terminal' = t
  /\ UNCHANGED at
  /\ UpdateCursor
  /\ UNCHANGED <<keyboard_cursor_idx, distance_from_right, re_echo, output>>

PressKey ==
  \/ \E c \in Chars : KeyChar(c)
  \/ KeyCharFull
  \/ KeyEnter
  \/ KeyBackspace
  \/ KeyLeft
  \/ KeyRight
  \/ KeyCtrlL

OtherStep ==
  \/ \E t \in Terminals : \E c \in Chars \cup {NEWLINE} : WriteTerminal(t, c)
  \/ \E t \in Terminals : ReEcho(t)
  \/ \E t \in Terminals : switch_terminal(t)

ScreenNext == PressKey \/ OtherStep

ScreenSpec == ScreenInit /\ [][ScreenNext]_svars

(***************************************************************************)
(* The right arrow in the last column leaves the cursor behind the screen, *)
(* so the properties of the cursor are about users who stay in the row     *)
(* with it.  Typing bounds the terminals on which they type: the screens   *)
(* of the others hold what processes write.                                *)
(***************************************************************************)
StaysInRow == at[visible_terminal].x = NUM_COLS - 1 => ~KeyRight

RowNext == (PressKey /\ StaysInRow /\ visible_terminal \in Typing) \/ OtherStep

RowSpec == ScreenInit /\ [][RowNext]_svars

-----------------------------------------------------------------------------
\* Between two calls the cursor of every terminal is on its screen, visible or
\* not: wraparound and scroll_down together bring it back whatever is written,
\* typed and erased, so putc never writes behind the screen.
CursorOnScreen ==
  \A t \in Terminals :
    at[t].x \in 0 .. NUM_COLS - 1 /\ at[t].y \in 0 .. NUM_ROWS - 1

\* The hardware cursor is where the visible terminal's next character goes,
\* although a hidden terminal's output updates it too.
HardwareCursorTruthful == cursor = Place(at[visible_terminal])

\* A step changes the screen of one terminal at most, and switching terminals
\* changes none: output of a hidden process appears when its terminal does.
ScreensSeparate ==
  [][\A t \in Terminals :
       ScreenOf(t)' # ScreenOf(t) =>
         /\ visible_terminal' = visible_terminal
         /\ \A u \in Terminals \ {t} : ScreenOf(u)' = ScreenOf(u)]_svars

\* Erasing a character just typed brings the cursor back to where it was, over
\* the end of a row too, or a row higher if typing it scrolled the screen.
BackspaceUndoesKey ==
  \A c \in Chars :
    LET s      == ScreenOf(visible_terminal)
        idx    == keyboard_cursor_idx[visible_terminal]
        undone == backspace(Echoed(s, c), idx + 1)
        scrolls == s.pos.x = NUM_COLS - 1 /\ s.pos.y = NUM_ROWS - 1
    IN  idx < KEYBOARD_BUFFER_SIZE - 1 =>
          Place(undone.pos) = Place(s.pos) - (IF scrolls THEN NUM_COLS ELSE 0)

=============================================================================
