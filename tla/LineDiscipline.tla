--------------------------- MODULE LineDiscipline ---------------------------
(***************************************************************************)
(* The keyboard's line discipline: keyboard_interrupt on one side, the     *)
(* processes blocked in _sys_read_terminal on the other, and the buffers   *)
(* of every terminal they share.                                           *)
(*                                                                         *)
(* A key is what the modifiers make of a scancode: a character, or one of  *)
(* the editing keys.  keyboard_interrupt runs with interrupts disabled,    *)
(* and so does _sys_read_terminal outside its spin loop, so each is one    *)
(* action; the loop is the wait between ReadTerminal and ReadReturns.      *)
(*                                                                         *)
(* keyboard_buffer is the C array, row after row, with the bytes around    *)
(* it, so an index that leaves a row lands where it does in memory.  The   *)
(* other buffers are always used with their index, as sequences of that    *)
(* length.                                                                 *)
(* Of the screen only echo_flag is kept.                                   *)
(***************************************************************************)
EXTENDS Integers, Sequences

CONSTANTS
  NUM_TERMINALS,          \* 3 in the code
  KEYBOARD_BUFFER_SIZE,   \* 128 in the code
  Chars,                  \* what a key can put into the buffer
  EditKeys,               \* the editing keys the user has
  ReadSizes,              \* the nbytes processes pass to read
  MaxDistance,            \* bound on distance_from_right, an int in the code
  NUL, NEWLINE, BLANK     \* '\0', '\n' and ' '

Terminals == 0 .. NUM_TERMINALS - 1
Addresses == -KEYBOARD_BUFFER_SIZE .. NUM_TERMINALS * KEYBOARD_BUFFER_SIZE
Cells == Chars \cup {NUL, NEWLINE, BLANK}

ASSUME LineAssumption ==
  /\ NUM_TERMINALS \in Nat \ {0}
  /\ KEYBOARD_BUFFER_SIZE \in Nat /\ KEYBOARD_BUFFER_SIZE > 1
  /\ NEWLINE \notin Chars
  /\ NUL # NEWLINE /\ BLANK \notin {NUL, NEWLINE}
  /\ EditKeys \subseteq {"enter", "backspace", "left", "right", "up", "down",
                         "ctrl_L"}
  /\ ReadSizes \subseteq Nat \ {0}
  /\ MaxDistance \in Nat

VARIABLES
  visible_terminal,
  reading,                  \* is the process in the loop of _sys_read_terminal?
  nbytes,                   \* its parameter, adjusted
  buf,                      \* what the last read returned
  shell_flag,
  sys_read_flag,
  keyboard_buffer,
  keyboard_cursor_idx,
  keyboard_buffer_end_idx,
  distance_from_right,
  temp_kbd_buf,             \* with temp_kbd_idx
  typing_during_prog_flag,
  re_echo_flag,
  echo_flag,
  last_buf,                 \* with last_buf_index
  current_buf,              \* with current_buf_index
  not_in_prev_cmd_flag,     \* one for all terminals
  lost                      \* memset or memcpy got a negative length: the
                            \* kernel's memory is overwritten, nothing goes on

lineVars == <<keyboard_buffer, keyboard_cursor_idx, keyboard_buffer_end_idx,
              distance_from_right>>
tempVars == <<temp_kbd_buf, typing_during_prog_flag, re_echo_flag>>
historyVars == <<last_buf, current_buf, not_in_prev_cmd_flag>>
processVars == <<reading, nbytes, buf, shell_flag>>
lvars == <<visible_terminal, processVars, sys_read_flag, lineVars, tempVars,
           echo_flag, historyVars, lost>>

LineInit ==
  /\ visible_terminal = 0
  /\ reading = [t \in Terminals |-> FALSE]
  /\ nbytes = [t \in Terminals |-> 0]
  /\ buf = [t \in Terminals |-> << >>]
  /\ shell_flag = [t \in Terminals |-> TRUE]
  /\ sys_read_flag = [t \in Terminals |-> FALSE]
  /\ keyboard_buffer = [a \in Addresses |-> NUL]
  /\ keyboard_cursor_idx = [t \in Terminals |-> 0]
  /\ keyboard_buffer_end_idx = [t \in Terminals |-> 0]
  /\ distance_from_right = [t \in Terminals |-> 0]
  /\ temp_kbd_buf = [t \in Terminals |-> << >>]
  /\ typing_during_prog_flag = [t \in Terminals |-> FALSE]
  /\ re_echo_flag = [t \in Terminals |-> FALSE]
  /\ echo_flag = [t \in Terminals |-> TRUE]
  /\ last_buf = [t \in Terminals |-> << >>]
  /\ current_buf = [t \in Terminals |-> << >>]
  /\ not_in_prev_cmd_flag = TRUE
  /\ lost = FALSE

-----------------------------------------------------------------------------
(* keyboard_buffer[t][i], and the string functions on a row.                *)

Addr_OneRow(t, i) == i

Addr(t, i) == t * KEYBOARD_BUFFER_SIZE + i

Row(kb, t, n) == [i \in 1 .. n |-> kb[Addr(t, i - 1)]]

Memset(kb, t, n) ==
  [a \in DOMAIN kb |-> IF a \in Addr(t, 0) .. Addr(t, n) - 1 THEN NUL ELSE kb[a]]

Memcpy(kb, t, s) ==
  [a \in DOMAIN kb |->
     IF a \in Addr(t, 0) .. Addr(t, Len(s)) - 1 THEN s[a - Addr(t, 0) + 1]
                                                ELSE kb[a]]

\* The longest prefix of s without any of the cells in stop.
UpTo(s, stop) ==
  LET n == CHOOSE m \in 0 .. Len(s) :
             /\ \A i \in 1 .. m : s[i] \notin stop
             /\ m < Len(s) => s[m + 1] \in stop
  IN  SubSeq(s, 1, n)

-----------------------------------------------------------------------------
(* keyboard_interrupt, for the visible terminal v.                          *)

\* The line becomes s, with the cursor at its end.
ReplaceLine(v, s, cleared) ==
  /\ keyboard_buffer' = Memcpy(Memset(keyboard_buffer, v, cleared), v, s)
  /\ keyboard_cursor_idx' = [keyboard_cursor_idx EXCEPT ![v] = Len(s)]
  /\ keyboard_buffer_end_idx' = [keyboard_buffer_end_idx EXCEPT ![v] = Len(s)]
  /\ distance_from_right' = [distance_from_right EXCEPT ![v] = 0]

\* The shell's line may have a negative length after Ctrl-L inside a line.
NegativeLength(v) == shell_flag[v] /\ keyboard_buffer_end_idx[v] < 0

CanRecall(v) ==
  shell_flag[v] /\ last_buf[v] # << >> /\ last_buf[v][1] # NUL /\ not_in_prev_cmd_flag

\* memset in Up, memcpy in Enter: the length is a uint32_t.
Overrun(v) ==
  /\ NegativeLength(v)
  /\ "enter" \in EditKeys \/ ("up" \in EditKeys /\ CanRecall(v))
  /\ lost' = TRUE
  /\ UNCHANGED <<visible_terminal, processVars, sys_read_flag, lineVars, tempVars,
                 echo_flag, historyVars>>

PressUp(v) ==
  /\ CanRecall(v)
  /\ ~NegativeLength(v)
  /\ not_in_prev_cmd_flag' = FALSE
  /\ ReplaceLine(v, last_buf[v], keyboard_buffer_end_idx[v])
  /\ UNCHANGED <<lost, visible_terminal, processVars, sys_read_flag, tempVars,
                 echo_flag, last_buf, current_buf>>

PressDown(v) ==
  /\ shell_flag[v]
  /\ not_in_prev_cmd_flag' = TRUE
  /\ ReplaceLine(v, current_buf[v], KEYBOARD_BUFFER_SIZE)
  /\ UNCHANGED <<lost, visible_terminal, processVars, sys_read_flag, tempVars,
                 echo_flag, last_buf, current_buf>>

EraseTyped(v) ==
  IF typing_during_prog_flag[v] /\ temp_kbd_buf[v] # << >>
    THEN temp_kbd_buf' = [temp_kbd_buf EXCEPT ![v] = SubSeq(@, 1, Len(@) - 1)]
    ELSE UNCHANGED temp_kbd_buf

BackspaceAtEnd_AtStart(v) ==
  /\ keyboard_cursor_idx[v] >= 0 /\ distance_from_right[v] = 0
  /\ keyboard_buffer' = [keyboard_buffer EXCEPT
                           ![Addr(v, keyboard_cursor_idx[v])] = NUL]
  /\ keyboard_cursor_idx' = [keyboard_cursor_idx EXCEPT ![v] = @ - 1]
  /\ keyboard_buffer_end_idx' = [keyboard_buffer_end_idx EXCEPT ![v] = @ - 1]
  /\ echo_flag' = [echo_flag EXCEPT ![v] = TRUE]
  /\ EraseTyped(v)
  /\ UNCHANGED <<lost, visible_terminal, processVars, sys_read_flag,
                 distance_from_right, typing_during_prog_flag, re_echo_flag,
                 historyVars>>

BackspaceAtEnd(v) ==
  /\ keyboard_cursor_idx[v] > 0 /\ distance_from_right[v] = 0
  /\ keyboard_buffer' = [keyboard_buffer EXCEPT
                           ![Addr(v, keyboard_cursor_idx[v])] = NUL]
  /\ keyboard_cursor_idx' = [keyboard_cursor_idx EXCEPT ![v] = @ - 1]
  /\ keyboard_buffer_end_idx' = [keyboard_buffer_end_idx EXCEPT ![v] = @ - 1]
  /\ echo_flag' = [echo_flag EXCEPT ![v] = TRUE]
  /\ EraseTyped(v)
  /\ UNCHANGED <<lost, visible_terminal, processVars, sys_read_flag,
                 distance_from_right, typing_during_prog_flag, re_echo_flag,
                 historyVars>>

BackspaceInside(v) ==
  /\ keyboard_cursor_idx[v] > 0
  /\ distance_from_right[v] \in 1 .. MaxDistance - 1
  /\ keyboard_buffer' = [keyboard_buffer EXCEPT
                           ![Addr(v, keyboard_cursor_idx[v] - 1)] = BLANK]
  /\ keyboard_cursor_idx' = [keyboard_cursor_idx EXCEPT ![v] = @ - 1]
  /\ distance_from_right' = [distance_from_right EXCEPT ![v] = @ + 1]
  /\ echo_flag' = [echo_flag EXCEPT ![v] = TRUE]
  /\ EraseTyped(v)
  /\ UNCHANGED <<lost, visible_terminal, processVars, sys_read_flag,
                 keyboard_buffer_end_idx, typing_during_prog_flag, re_echo_flag,
                 historyVars>>

BackspaceAtStart(v) ==
  /\ keyboard_cursor_idx[v] = 0
  /\ EraseTyped(v)
  /\ UNCHANGED <<lost, visible_terminal, processVars, sys_read_flag, lineVars,
                 typing_during_prog_flag, re_echo_flag, echo_flag, historyVars>>

PressBackspace(v) ==
  BackspaceAtEnd(v) \/ BackspaceInside(v) \/ BackspaceAtStart(v)

\* left_arrow() returns 1: the screen's cursor is behind the prompt and the
\* keyboard_cursor_idx > 0 characters echoed after it.
PressLeft(v) ==
  /\ shell_flag[v]
  /\ keyboard_cursor_idx[v] > 0
  /\ distance_from_right[v] < MaxDistance
  /\ distance_from_right' = [distance_from_right EXCEPT ![v] = @ + 1]
  /\ keyboard_cursor_idx' = [keyboard_cursor_idx EXCEPT ![v] = @ - 1]
  /\ echo_flag' = [echo_flag EXCEPT ![v] = TRUE]
  /\ UNCHANGED <<lost, visible_terminal, processVars, sys_read_flag, keyboard_buffer,
                 keyboard_buffer_end_idx, tempVars, historyVars>>

CanMoveRight_AtEnd(v) ==
  shell_flag[v] /\ keyboard_cursor_idx[v] < KEYBOARD_BUFFER_SIZE - 1

CanMoveRight(v) ==
  /\ shell_flag[v]
  /\ distance_from_right[v] > 0
  /\ keyboard_cursor_idx[v] < KEYBOARD_BUFFER_SIZE - 1

\* right_arrow() returns 0 in the lower right corner of the screen, else 1.
PressRight(v) ==
  /\ CanMoveRight(v)
  /\ \E ret_from_right \in {0, 1} :
       /\ distance_from_right' = [distance_from_right EXCEPT ![v] = @ - ret_from_right]
       /\ keyboard_cursor_idx' = [keyboard_cursor_idx EXCEPT ![v] = @ + ret_from_right]
  /\ echo_flag' = [echo_flag EXCEPT ![v] = TRUE]
  /\ UNCHANGED <<lost, visible_terminal, processVars, sys_read_flag, keyboard_buffer,
                 keyboard_buffer_end_idx, tempVars, historyVars>>

\* Ctrl-L.  clear() wipes the row of terminal 0, whichever is visible.
PressCtrlL(v) ==
  /\ temp_kbd_buf' = [temp_kbd_buf EXCEPT
                        ![v] = Row(keyboard_buffer, v, keyboard_cursor_idx[v])]
  /\ keyboard_buffer' = Memset(Memset(keyboard_buffer, 0, KEYBOARD_BUFFER_SIZE),
                               v, KEYBOARD_BUFFER_SIZE)
  /\ sys_read_flag' = [sys_read_flag EXCEPT ![v] = FALSE]
  /\ echo_flag' = [echo_flag EXCEPT ![v] = TRUE]
  /\ re_echo_flag' = [re_echo_flag EXCEPT ![v] = TRUE]
  /\ keyboard_cursor_idx' = [keyboard_cursor_idx EXCEPT ![v] = 0]
  /\ keyboard_buffer_end_idx' = [keyboard_buffer_end_idx EXCEPT ![v] = 0]
  /\ UNCHANGED <<lost, visible_terminal, processVars, distance_from_right,
                 typing_during_prog_flag, historyVars>>

TempHasRoom_OffByOne(v) == Len(temp_kbd_buf[v]) <= KEYBOARD_BUFFER_SIZE

TempHasRoom(v) == Len(temp_kbd_buf[v]) < KEYBOARD_BUFFER_SIZE

\* Characters typed while another program than the shell is not reading.
SaveTyped(v, c) ==
  IF /\ ~shell_flag[v]
     /\ TempHasRoom(v)
     /\ ~sys_read_flag'[v]
    THEN /\ temp_kbd_buf' = [temp_kbd_buf EXCEPT ![v] = Append(@, c)]
         /\ typing_during_prog_flag' = [typing_during_prog_flag EXCEPT ![v] = TRUE]
    ELSE UNCHANGED <<temp_kbd_buf, typing_during_prog_flag>>

HasRoom_OffByOne(v) == keyboard_cursor_idx[v] < KEYBOARD_BUFFER_SIZE

HasRoom(v) == keyboard_cursor_idx[v] < KEYBOARD_BUFFER_SIZE - 1

SaveCurrent(v) ==
  current_buf' =
    IF not_in_prev_cmd_flag'
      THEN [current_buf EXCEPT ![v] = Row(keyboard_buffer', v, keyboard_cursor_idx'[v])]
      ELSE current_buf

PressChar(v, c) ==
  /\ echo_flag' = [echo_flag EXCEPT
                     ![v] = @ /\ keyboard_cursor_idx[v] # KEYBOARD_BUFFER_SIZE - 1]
  /\ IF HasRoom(v)
       THEN /\ keyboard_buffer' = [keyboard_buffer EXCEPT
                                     ![Addr(v, keyboard_cursor_idx[v])] = c]
            /\ keyboard_cursor_idx' = [keyboard_cursor_idx EXCEPT ![v] = @ + 1]
            /\ keyboard_buffer_end_idx' =
                 [keyboard_buffer_end_idx EXCEPT
                    ![v] = IF distance_from_right[v] = 0 THEN @ + 1 ELSE @]
            /\ distance_from_right' =
                 [distance_from_right EXCEPT ![v] = IF @ > 0 THEN @ - 1 ELSE 0]
       ELSE UNCHANGED lineVars
  /\ UNCHANGED <<sys_read_flag, not_in_prev_cmd_flag>>
  /\ SaveCurrent(v)
  /\ SaveTyped(v, c)
  /\ UNCHANGED <<lost, visible_terminal, processVars, re_echo_flag, last_buf>>

PressEnter(v) ==
  LET end == keyboard_buffer_end_idx[v]
      full == end >= KEYBOARD_BUFFER_SIZE
      cursor == IF full THEN end ELSE end + 1
  IN
  /\ ~NegativeLength(v)
  /\ keyboard_buffer' =
       IF full THEN keyboard_buffer
               ELSE [keyboard_buffer EXCEPT ![Addr(v, end)] = NEWLINE]
  /\ last_buf' = IF shell_flag[v]
                   THEN [last_buf EXCEPT ![v] = Row(keyboard_buffer', v, cursor - 1)]
                   ELSE last_buf
  /\ not_in_prev_cmd_flag' = TRUE
  /\ sys_read_flag' = [sys_read_flag EXCEPT ![v] = FALSE]
  /\ keyboard_cursor_idx' = [keyboard_cursor_idx EXCEPT ![v] = 0]
  /\ keyboard_buffer_end_idx' = [keyboard_buffer_end_idx EXCEPT ![v] = 0]
  /\ distance_from_right' = [distance_from_right EXCEPT ![v] = 0]
  /\ echo_flag' = [echo_flag EXCEPT ![v] = TRUE]
  /\ SaveCurrent(v)
  /\ SaveTyped(v, NEWLINE)
  /\ UNCHANGED <<lost, visible_terminal, processVars, re_echo_flag>>

\* Alt-F1, Alt-F2, Alt-F3: the lines of all terminals stay as they are.
SwitchTerminal(t) ==
  /\ t # visible_terminal
  /\ visible_terminal' = t
  /\ UNCHANGED <<lost, processVars, sys_read_flag, lineVars, tempVars, echo_flag,
                 historyVars>>

-----------------------------------------------------------------------------
(* _sys_read_terminal, for the process of terminal t.                       *)

EchoedCursor_Keeps(kb, t, i, idx) == idx

\* A newline among the characters is not part of the line.
EchoedCursor(kb, t, i, idx) == IF kb[Addr(t, i)] = NEWLINE THEN idx - 1 ELSE idx

\* What was typed before, and is now on the command line again.
EchoTyped(t) ==
  LET typed  == temp_kbd_buf[t]
      idx    == Len(typed)
      kb     == Memcpy(Memset(keyboard_buffer, t, KEYBOARD_BUFFER_SIZE), t, typed)
      i      == Len(UpTo(typed, {NEWLINE}))
      cursor == EchoedCursor(kb, t, i, idx)
  IN
  /\ keyboard_buffer' = kb
  /\ keyboard_cursor_idx' = [keyboard_cursor_idx EXCEPT ![t] = cursor]
  /\ keyboard_buffer_end_idx' = [keyboard_buffer_end_idx EXCEPT ![t] = cursor]
  /\ current_buf' = [current_buf EXCEPT ![t] = Row(kb, t, cursor)]
  /\ re_echo_flag' = [re_echo_flag EXCEPT ![t] = FALSE]
  /\ temp_kbd_buf' = [temp_kbd_buf EXCEPT ![t] = << >>]

ReadTerminal(t, n) ==
  /\ ~reading[t]
  /\ IF re_echo_flag[t] \/ (shell_flag[t] /\ temp_kbd_buf[t] # << >>)
       THEN EchoTyped(t)
       ELSE /\ keyboard_buffer' = Memset(keyboard_buffer, t, KEYBOARD_BUFFER_SIZE)
            /\ UNCHANGED <<keyboard_cursor_idx, keyboard_buffer_end_idx,
                           current_buf, re_echo_flag, temp_kbd_buf>>
  /\ nbytes' = [nbytes EXCEPT
                  ![t] = IF n > KEYBOARD_BUFFER_SIZE THEN KEYBOARD_BUFFER_SIZE - 1
                                                     ELSE n]
  /\ sys_read_flag' = [sys_read_flag EXCEPT ![t] = TRUE]
  /\ reading' = [reading EXCEPT ![t] = TRUE]
  /\ UNCHANGED <<lost, visible_terminal, buf, shell_flag, distance_from_right,
                 typing_during_prog_flag, echo_flag, last_buf,
                 not_in_prev_cmd_flag>>

ReadReturns_SkipsEmpty(t) ==
  /\ ~lost
  /\ reading[t]
  /\ ~sys_read_flag[t]
  /\ keyboard_buffer[Addr(t, 0)] \notin {NUL, NEWLINE}
  /\ buf' = [buf EXCEPT
               ![t] = Append(UpTo(Row(keyboard_buffer, t, nbytes[t]), {NUL, NEWLINE}),
                             NEWLINE)]
  /\ reading' = [reading EXCEPT ![t] = FALSE]
  /\ UNCHANGED <<lost, visible_terminal, nbytes, shell_flag, sys_read_flag, lineVars,
                 tempVars, echo_flag, historyVars>>

\* The loop sees the flag cleared; the line is copied with interrupts disabled.
ReadReturns(t) ==
  /\ ~lost
  /\ reading[t]
  /\ ~sys_read_flag[t]
  /\ buf' = [buf EXCEPT
               ![t] = Append(UpTo(Row(keyboard_buffer, t, nbytes[t]), {NUL, NEWLINE}),
                             NEWLINE)]
  /\ reading' = [reading EXCEPT ![t] = FALSE]
  /\ UNCHANGED <<lost, visible_terminal, nbytes, shell_flag, sys_read_flag, lineVars,
                 tempVars, echo_flag, historyVars>>

\* A process that is not reading executes another one: the shell, or not.
Execute(t, shell) ==
  /\ ~reading[t]
  /\ shell_flag' = [shell_flag EXCEPT ![t] = shell]
  /\ UNCHANGED <<lost, visible_terminal, reading, nbytes, buf, sys_read_flag,
                 lineVars, tempVars, echo_flag, historyVars>>

\* sys_halt returns to the parent, which it takes for the shell.
Halt(t) ==
  /\ ~reading[t]
  /\ shell_flag' = [shell_flag EXCEPT ![t] = TRUE]
  /\ typing_during_prog_flag' = [typing_during_prog_flag EXCEPT ![t] = FALSE]
  /\ UNCHANGED <<lost, visible_terminal, reading, nbytes, buf, sys_read_flag,
                 lineVars, temp_kbd_buf, re_echo_flag, echo_flag, historyVars>>

ChangeProgram(t) == Halt(t) \/ \E shell \in BOOLEAN : Execute(t, shell)

-----------------------------------------------------------------------------
EditKey(v) ==
  \/ "enter" \in EditKeys /\ PressEnter(v)
  \/ "backspace" \in EditKeys /\ PressBackspace(v)
  \/ "left" \in EditKeys /\ PressLeft(v)
  \/ "right" \in EditKeys /\ PressRight(v)
  \/ "up" \in EditKeys /\ PressUp(v)
  \/ "down" \in EditKeys /\ PressDown(v)

Key(v) == EditKey(v) \/ \E c \in Chars : PressChar(v, c)

Process(t) ==
  \/ \E n \in ReadSizes : ReadTerminal(t, n)
  \/ ReadReturns(t)
  \/ ChangeProgram(t)

\* Keys at any moment, whether or not a process is reading.
LineNext ==
  /\ ~lost
  /\ \/ Key(visible_terminal)
     \/ "ctrl_L" \in EditKeys /\ PressCtrlL(visible_terminal)
     \/ Overrun(visible_terminal)
     \/ \E t \in Terminals : SwitchTerminal(t)
     \/ \E t \in Terminals : Process(t)

\* A process that can leave its loop gets the CPU again.
LineFairness == \A t \in Terminals : WF_lvars(ReadReturns(t))

LineSpec == LineInit /\ [][LineNext]_lvars /\ LineFairness

(***************************************************************************)
(* The user types only while the process on the screen is reading, clears  *)
(* the screen only with the cursor at the end of the line and no text in   *)
(* the row clear() wipes, and other programs than the shell read at most   *)
(* one line: what the line discipline needs to be right.                   *)
(***************************************************************************)
Text(t) == UpTo(Row(keyboard_buffer, t, KEYBOARD_BUFFER_SIZE), {NUL, NEWLINE})

HarmlessClear(v) == distance_from_right[v] = 0 /\ (v # 0 => Text(0) = << >>)

PoliteNext ==
  \/ sys_read_flag[visible_terminal] /\ (Key(visible_terminal) \/ Overrun(visible_terminal))
  \/ /\ sys_read_flag[visible_terminal]
     /\ HarmlessClear(visible_terminal)
     /\ "ctrl_L" \in EditKeys /\ PressCtrlL(visible_terminal)
  \/ \E t \in Terminals : SwitchTerminal(t)
  \/ \E t \in Terminals :
       \/ \E n \in ReadSizes :
            /\ shell_flag[t] \/ re_echo_flag[t] \/ temp_kbd_buf[t] = << >>
            /\ ReadTerminal(t, n)
       \/ ReadReturns(t)
       \/ ChangeProgram(t)

PoliteSpec == LineInit /\ [][PoliteNext]_lvars /\ LineFairness

-----------------------------------------------------------------------------
\* However the user types, the cursor leaves its terminal's row by one byte at
\* most, and the end of the line by less than a row.
IndicesBounded ==
  \A t \in Terminals :
    /\ keyboard_cursor_idx[t] \in 0 .. KEYBOARD_BUFFER_SIZE
    /\ keyboard_buffer_end_idx[t] \in 1 - KEYBOARD_BUFFER_SIZE .. KEYBOARD_BUFFER_SIZE
    /\ Len(temp_kbd_buf[t]) <= KEYBOARD_BUFFER_SIZE
    /\ Len(last_buf[t]) < KEYBOARD_BUFFER_SIZE
    /\ Len(current_buf[t]) <= KEYBOARD_BUFFER_SIZE

\* Enter ends the read it is typed for: the wake-up is never lost, whatever is
\* typed before the reader runs again, short of what overwrites the kernel.
EnterWakesReader ==
  \A t \in Terminals : reading[t] /\ ~sys_read_flag[t] ~> ~reading[t] \/ lost

\* The line being edited is the row up to its end, and the cursor and what is
\* to its right make up that line.
CursorInLine ==
  \A t \in Terminals :
    sys_read_flag[t] =>
      /\ keyboard_cursor_idx[t] + distance_from_right[t] = keyboard_buffer_end_idx[t]
      /\ keyboard_buffer_end_idx[t] < KEYBOARD_BUFFER_SIZE
      /\ \A i \in 1 .. keyboard_buffer_end_idx[t] :
           keyboard_buffer[Addr(t, i - 1)] \notin {NUL, NEWLINE}

\* memset and memcpy never get a negative length from the keyboard handler,
\* whatever sequence of keys, redraws and recalls led there.
LengthsAreCounts == ~lost

\* "if the buffer is full, dont echo anything to screen and don't store it in
\* the buffer": a character is echoed exactly if it is stored.
EchoIffStored ==
  [][\A c \in Chars :
       PressChar(visible_terminal, c)
         => (echo_flag'[visible_terminal] <=> HasRoom(visible_terminal))]_lvars

-----------------------------------------------------------------------------
(* What a comment of the code says, and the code does not do.               *)

\* The characters on a terminal's command line, also after Ctrl-L.
Line(t) == IF re_echo_flag[t] THEN temp_kbd_buf[t]
                              ELSE Row(keyboard_buffer, t, keyboard_buffer_end_idx[t])

\* "ctrl+L clears screen and preserves what was typed on the cmd line before
\* the press".
ClearKeepsLine ==
  [][PressCtrlL(visible_terminal)
       => Line(visible_terminal)' = Line(visible_terminal)]_lvars

=============================================================================
