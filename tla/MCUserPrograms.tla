--------------------------- MODULE MCUserPrograms ---------------------------
(***************************************************************************)
(* A small file system image.  Names have at most four characters: sh, gr  *)
(* and se stand for shell, grep and syserr.  Blocks have two bytes.  One   *)
(* text has five bytes in blocks that are neither adjacent nor in order,   *)
(* one fills its block, one is empty; one name is another's beginning, and *)
(* one fills its entry.                                                    *)
(***************************************************************************)
EXTENDS UserPrograms

sh == <<"s", "h">>
cat_ == <<"c", "a", "t">>
ls_ == <<"l", "s">>
gr == <<"g", "r">>
se == <<"s", "e">>
any == <<"x">>
a == <<"a">>
ab == <<"a", "b">>
abab == <<"a", "b", "a", "b">>
dot == <<".">>
rtc == <<"r", "t", "c">>

Entry(name, type, inode) ==
  [file_name |-> SubSeq(name \o <<NUL, NUL, NUL, NUL>>, 1, 4), file_type |-> type, inode |-> inode]

Image_dir_entries ==
  << Entry(dot, "directory", 0), Entry(sh, "file", 1), Entry(cat_, "file", 2),
     Entry(ls_, "file", 3), Entry(gr, "file", 4), Entry(se, "file", 5),
     Entry(any, "file", 6), Entry(abab, "file", 7), Entry(ab, "file", 8),
     Entry(a, "file", 9), Entry(rtc, "rtc", 0) >>

Blocks(nums) == [i \in 0 .. 3 |-> IF i < Len(nums) THEN nums[i + 1] ELSE 0]

\* Inodes 1 to 6 are the programs.
Image_inode_head ==
  [inode \in 0 .. 9 |->
     CASE inode \in 1 .. 6 -> [length |-> 1, datablock_nums |-> Blocks(<<inode>>)]
       [] inode = 7 -> [length |-> 5, datablock_nums |-> Blocks(<<8, 10, 9>>)]
       [] inode = 8 -> [length |-> 2, datablock_nums |-> Blocks(<<7>>)]
       [] OTHER     -> [length |-> 0, datablock_nums |-> Blocks(<< >>)]]

Text == <<"k", "l", "p", "q", "v", NUL, "m", "n">>

Image_data_blocks ==
  [address \in 0 .. 25 |->
     CASE address \in 2 .. 13  -> IF address % 2 = 0 THEN "elf" ELSE NUL
       [] address \in 14 .. 21 -> Text[address - 13]
       [] OTHER                -> "z"]

Elf == <<"elf">>

MainOf ==
  sh :> "shell" @@ cat_ :> "cat" @@ ls_ :> "ls" @@ gr :> "grep" @@ se :> "syserr"
    @@ any :> "any"

Cat(name) == cat_ \o <<SPACE>> \o name

TypedLines ==
  [t \in Terminals |->
     IF t = 0 THEN {<< >>, Exit, sh, cat_, Cat(abab), Cat(ab), Cat(a), Cat(dot), Cat(rtc),
                    Cat(<<"b">>), <<SPACE, "l", "s">>, gr, gr \o <<SPACE, "k">>, se, any, ab,
                    abab, <<SPACE>>}
              ELSE {ls_, Cat(abab)}]

OpenedNames == {abab, <<"b">>}

Wrong == << ab \o <<"a">>, <<"s">>, << >> >>

LineChars == {"a", "b", SPACE, NEWLINE}
=============================================================================
