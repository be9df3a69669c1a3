------------------------------ MODULE Arguments ------------------------------
(***************************************************************************)
(* _execute_parse_args: the command line of execute, split into the name   *)
(* of a program and its argument.                                          *)
(***************************************************************************)
EXTENDS Strings

CONSTANTS
  KEYBOARD_BUFFER_SIZE,   \* 128 in the code
  ParserChars             \* the characters of the lines the parser is tried on

ASSUME ArgumentsAssumption == KEYBOARD_BUFFER_SIZE \in Nat \ {0} /\ NUL \notin ParserChars

EndsName(c) == c \in {SPACE, NUL, NEWLINE}

SkipSpaces_One(s, i) == IF Char(s, i) = SPACE THEN i + 1 ELSE i

\* The loops over a command, from character i: to the character each stops at.
SkipNuls(s, i) == FirstFrom(i, s, LAMBDA c : c # NUL)
SkipSpaces(s, i) == FirstFrom(i, s, LAMBDA c : c # SPACE)
SkipName(s, i) == FirstFrom(i, s, EndsName)
SkipArgument(s, i) == FirstFrom(i, s, LAMBDA c : c = NUL)

NoName == [ret |-> -1, prog_name |-> << >>, arg |-> << >>]

\* The loops in their order: NULs, spaces, the name up to FILENAME_LEN
\* characters, the rest of the name, spaces, the argument up to the next NUL.
_execute_parse_args(command) ==
  LET first == SkipNuls(command, 1)
      j     == SkipSpaces(command, first)
      i     == SkipName(command, j)
      a     == SkipSpaces(command, i)
      end   == SkipArgument(command, a)
  IN  IF first > KEYBOARD_BUFFER_SIZE \/ Char(command, j) \in {NUL, NEWLINE}
        THEN NoName
        ELSE [ret       |-> IF Char(command, a) = NUL THEN -2 ELSE 0,
              prog_name |-> Cut(SubSeq(command, j, i - 1), FILENAME_LEN),
              arg       |-> SubSeq(command, a, end - 1)]

-----------------------------------------------------------------------------
Over(S, n) == UNION {[1 .. k -> S] : k \in 0 .. n}
Blanks(n) == [i \in 1 .. n |-> SPACE]

\* The line as a user reads it: blanks, a word, blanks and what is left of it.
Splits(line, before, word, gap, rest) ==
  /\ line = Blanks(before) \o word \o Blanks(gap) \o rest
  /\ \A i \in DOMAIN word : word[i] \notin {SPACE, NEWLINE}
  /\ rest # << >> => rest[1] # SPACE
  /\ word # << >> /\ gap = 0 /\ rest # << >> => rest[1] = NEWLINE

\* Whether the parser takes a line apart as above: no program without a word, the
\* word cut to the length of a file name, and the rest as argument, with room for
\* the NUL that strlen and getargs rely on.
ReadsRight(line) ==
  \E before, size, gap \in 0 .. Len(line) :
    LET word   == SubSeq(line, before + 1, before + size)
        rest   == SubSeq(line, before + size + gap + 1, Len(line))
        parsed == _execute_parse_args(line)
    IN  /\ before + size + gap <= Len(line)
        /\ Splits(line, before, word, gap, rest)
        /\ IF word = << >>
             THEN parsed.ret = -1
             ELSE /\ parsed.ret = IF rest = << >> THEN -2 ELSE 0
                  /\ parsed.prog_name = Cut(word, FILENAME_LEN)
                  /\ parsed.arg = rest
                  /\ Len(parsed.arg) < KEYBOARD_BUFFER_SIZE

\* The shell executes no empty line.
Misread ==
  {line \in Over(ParserChars, KEYBOARD_BUFFER_SIZE - 1) : line # << >> /\ ~ReadsRight(line)}
==============================================================================
