--------------------------- MODULE LineRefinement ---------------------------
(* The line discipline, politely used, is a line editor.                    *)
EXTENDS LineDiscipline

Mode(t) ==
  CASE ~reading[t] -> "busy"
    [] reading[t] /\ sys_read_flag[t] -> "editing"
    [] reading[t] /\ ~sys_read_flag[t] /\ re_echo_flag[t] -> "redrawing"
    [] reading[t] /\ ~sys_read_flag[t] /\ ~re_echo_flag[t] -> "submitted"

\* After Enter the line is in the row, in front of the newline.
EditedLine(t) == IF Mode(t) = "submitted" THEN Text(t) ELSE Line(t)

WithoutNewline(s) == IF s = << >> THEN s ELSE SubSeq(s, 1, Len(s) - 1)

CursorPos(t) ==
  IF re_echo_flag[t] THEN Len(temp_kbd_buf[t]) ELSE keyboard_cursor_idx[t]

Editor ==
  INSTANCE LineEditor WITH
    MaxLine <- KEYBOARD_BUFFER_SIZE - 1,
    mode <- [t \in Terminals |-> Mode(t)],
    line <- [t \in Terminals |-> EditedLine(t)],
    pos  <- [t \in Terminals |-> CursorPos(t)],
    last <- last_buf,
    got  <- [t \in Terminals |-> WithoutNewline(buf[t])]

\* Under polite use every step of the keyboard handler and of the readers is a
\* step of the editor: each terminal's line survives switches, redraws and
\* scheduling, and the process that reads gets the line that was typed.
ImplementsLineEditor == Editor!ESpec
=============================================================================
