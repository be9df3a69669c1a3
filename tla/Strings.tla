------------------------------- MODULE Strings -------------------------------
(***************************************************************************)
(* The string functions of lib.c, on bytes in memory: a sequence of        *)
(* characters that may hold NULs, with a NUL behind its last.              *)
(***************************************************************************)
EXTENDS Integers, Sequences

CONSTANT FILENAME_LEN   \* of a directory entry, 32 in the code

ASSUME StringsAssumption == FILENAME_LEN \in Nat \ {0}

NUL == "NUL"
SPACE == " "
NEWLINE == "newline"

\* s[i] of C, counted from 1.
Char(s, i) == IF i \in DOMAIN s THEN s[i] ELSE NUL

\* Where a loop that runs from index i until a character stops it ends.
FirstFrom(i, s, Stops(_)) ==
  CHOOSE j \in i .. Len(s) + 1 :
    /\ j = Len(s) + 1 \/ Stops(Char(s, j))
    /\ \A k \in i .. j - 1 : ~Stops(Char(s, k))

strlen(s) == FirstFrom(1, s, LAMBDA c : c = NUL) - 1

CString(s) == SubSeq(s, 1, strlen(s))

\* A copy of at most n characters.
Cut(s, n) == SubSeq(s, 1, IF Len(s) <= n THEN Len(s) ELSE n)

\* strncmp(s1, s2, n) = 0: the bytes are equal up to the first at which the loop
\* stops, the NUL of s1 or a difference.
strncmp(s1, s2, n) ==
  \A i \in 1 .. n :
    \/ Char(s1, i) = Char(s2, i)
    \/ \E j \in 1 .. i - 1 : Char(s1, j) = NUL /\ Char(s2, j) = NUL

\* The n bytes of the destination.
strncpy(src, n) == [i \in 1 .. n |-> IF i <= strlen(src) THEN src[i] ELSE NUL]
==============================================================================
