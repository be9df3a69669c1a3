----------------------------- MODULE LineEditor -----------------------------
(***************************************************************************)
(* What the line discipline promises a user: every terminal has a line of  *)
(* its own, keys edit the visible one, Enter hands exactly that line to    *)
(* the process reading there, and Ctrl-L redraws it.                       *)
(***************************************************************************)
EXTENDS Integers, Sequences

CONSTANTS Terminals, Chars, BLANK, MaxLine

VARIABLES
  mode,    \* of the process: busy, editing, submitted or redrawing
  line,    \* what the user has typed
  pos,     \* characters of it before the cursor
  last,    \* the command the up arrow recalls
  got      \* what the process's last read returned

evars == <<mode, line, pos, last, got>>

EInit ==
  /\ mode = [t \in Terminals |-> "busy"]
  /\ line = [t \in Terminals |-> << >>]
  /\ pos = [t \in Terminals |-> 0]
  /\ last = [t \in Terminals |-> << >>]
  /\ got = [t \in Terminals |-> << >>]

Prompt(t) ==
  /\ mode[t] = "busy"
  /\ mode' = [mode EXCEPT ![t] = "editing"]
  /\ UNCHANGED <<line, pos, last, got>>

Become(t, l, p) ==
  /\ mode[t] = "editing"
  /\ line' = [line EXCEPT ![t] = l]
  /\ pos' = [pos EXCEPT ![t] = p]
  /\ UNCHANGED <<mode, last, got>>

\* Overtypes inside the line, extends it at its end.
Insert(t, c) ==
  /\ pos[t] < MaxLine
  /\ Become(t, SubSeq(line[t], 1, pos[t]) \o <<c>>
                 \o SubSeq(line[t], pos[t] + 2, Len(line[t])), pos[t] + 1)

\* Blanks a character inside the line, removes the last one.
Erase(t) ==
  /\ pos[t] > 0
  /\ Become(t, IF pos[t] = Len(line[t]) THEN SubSeq(line[t], 1, pos[t] - 1)
                                        ELSE [line[t] EXCEPT ![pos[t]] = BLANK],
            pos[t] - 1)

MoveLeft(t) == pos[t] > 0 /\ Become(t, line[t], pos[t] - 1)
MoveRight(t) == pos[t] < Len(line[t]) /\ Become(t, line[t], pos[t] + 1)
Recall(t) == last[t] # << >> /\ Become(t, last[t], Len(last[t]))

\* Only the shell's lines are remembered.
Submit(t) ==
  /\ mode[t] = "editing"
  /\ mode' = [mode EXCEPT ![t] = "submitted"]
  /\ last' \in {last, [last EXCEPT ![t] = line[t]]}
  /\ pos' = [pos EXCEPT ![t] = 0]
  /\ UNCHANGED <<line, got>>

Redraw(t) ==
  /\ mode[t] = "editing"
  /\ mode' = [mode EXCEPT ![t] = "redrawing"]
  /\ UNCHANGED <<line, pos, last, got>>

Deliver(t) ==
  /\ mode[t] = "submitted"
  /\ mode' = [mode EXCEPT ![t] = "busy"]
  /\ got' = [got EXCEPT ![t] = line[t]]
  /\ line' = [line EXCEPT ![t] = << >>]
  /\ UNCHANGED <<pos, last>>

\* The process is sent back to its prompt with an empty line.
DeliverNothing(t) ==
  /\ mode[t] = "redrawing"
  /\ mode' = [mode EXCEPT ![t] = "busy"]
  /\ got' = [got EXCEPT ![t] = << >>]
  /\ UNCHANGED <<line, pos, last>>

ENext ==
  \E t \in Terminals :
    \/ Prompt(t) \/ Submit(t) \/ Redraw(t) \/ Deliver(t) \/ DeliverNothing(t)
    \/ Erase(t) \/ MoveLeft(t) \/ MoveRight(t) \/ Recall(t)
    \/ \E c \in Chars : Insert(t, c)

ESpec ==
  /\ EInit /\ [][ENext]_evars
  /\ \A t \in Terminals : WF_evars(Deliver(t)) /\ WF_evars(DeliverNothing(t))
=============================================================================
