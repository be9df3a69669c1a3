---------------------------- MODULE ProgramsProofs ----------------------------
(***************************************************************************)
(* What the programs of UserPrograms do with their calls: cat prints its   *)
(* file, ls and grep go through the whole directory, and syserr's tests    *)
(* pass, for any image of the file system, any lines the users type, any   *)
(* size of buffers, tables and blocks, and any number of terminals.        *)
(***************************************************************************)
EXTENDS FilesProofs

-----------------------------------------------------------------------------
(* One terminal at a time                                                   *)

\* open sees a name up to its NUL.
LEMMA MatchesCString ==
  ASSUME NEW name, IsString(name)
  PROVE  Matches(name) = Matches(CString(name))
  <1> DEFINE c == CString(name)
             n == strlen(name)
  <1>1. /\ n \in 0 .. Len(name) /\ Len(name) \in Nat /\ Char(name, n + 1) = NUL
        /\ \A k \in 1 .. n : Char(name, k) # NUL
    BY StrlenIs DEF IsString
  <1>2. /\ IsString(c) /\ Len(c) = n
        /\ \A i \in 1 .. n : Char(c, i) = Char(name, i)
        /\ \A i \in Nat : i > n => Char(c, i) = NUL
    BY CStringIs
  <1>3. strlen(c) = n
    BY <1>2, CStringIsCString, StrlenOfCString
  <1> HIDE DEF c, n
  <1>4. n \in Nat /\ Char(c, n + 1) = NUL /\ FILENAME_LEN \in Nat
    BY <1>1, <1>2, StringsAssumption
  <1>5. Char(name, 1) = Char(c, 1)
    <2>1. CASE n = 0
      BY <1>1, <1>4, <2>1
    <2>2. CASE n # 0
      BY <1>2, <1>4, <2>2
    <2> QED
      BY <2>1, <2>2
  <1>6. ASSUME NEW d PROVE strncmp(name, d, FILENAME_LEN) <=> strncmp(c, d, FILENAME_LEN)
    <2>1. \A k \in 1 .. n : Char(name, k) # NUL /\ Char(c, k) = Char(name, k)
      BY <1>1, <1>2
    <2>2. \A k \in 1 .. n : Char(c, k) # NUL /\ Char(name, k) = Char(c, k)
      BY <1>1, <1>2
    <2>3. strncmp(name, d, FILENAME_LEN) => strncmp(c, d, FILENAME_LEN)
      BY <1>1, <1>4, <2>1, ComparesCString
    <2>4. strncmp(c, d, FILENAME_LEN) => strncmp(name, d, FILENAME_LEN)
      BY <1>1, <1>4, <2>2, ComparesCString
    <2> QED
      BY <2>3, <2>4
  <1>7. strlen(name) = strlen(c)
    BY <1>3 DEF n
  <1>8. Matches(name) = Matches(c)
    BY <1>5, <1>6, <1>7 DEF Matches
  <1> QED
    BY <1>8 DEF c

\* What open finds: the entry with the name, if there is one.
LEMMA LookupIs ==
  ASSUME NEW name, IsString(name)
  PROVE  /\ \A i \in 1 .. entries :
              Name(i) = CString(name) =>
                Matches(name) # {} /\ read_dentry_by_name(name) = dir_entries[i]
         /\ Matches(name) # {} =>
              \E i \in 1 .. entries :
                Name(i) = CString(name) /\ read_dentry_by_name(name) = dir_entries[i]
         /\ read_dentry_by_name(name) = read_dentry_by_name(CString(name))
  <1> DEFINE c == CString(name)
  <1>1. Matches(name) = Matches(c)
    BY MatchesCString
  <1>2. read_dentry_by_name(name) = read_dentry_by_name(c)
    BY <1>1 DEF read_dentry_by_name
  <1>3. FoundRight(c)
    BY CStringIsCString, FoundRightAlways
  <1> HIDE DEF c
  <1> DEFINE called == {i \in 1 .. entries : Name(i) = c}
  <1>4. /\ Matches(c) = IF c = << >> THEN {} ELSE called
        /\ \A i \in called : read_dentry_by_name(c) = dir_entries[i]
    BY <1>3 DEF FoundRight, Name
  <1>5. \A i \in 1 .. entries : Name(i) # << >>
    BY ImageAssumption DEF Name
  <1>6. ASSUME NEW i \in 1 .. entries, Name(i) = c
        PROVE  Matches(c) # {} /\ read_dentry_by_name(c) = dir_entries[i]
    BY <1>4, <1>5, <1>6
  <1>7. ASSUME Matches(c) # {}
        PROVE  \E i \in 1 .. entries : Name(i) = c /\ read_dentry_by_name(c) = dir_entries[i]
    BY <1>4, <1>7
  <1> QED
    BY <1>1, <1>2, <1>6, <1>7 DEF c

-----------------------------------------------------------------------------
(* What the programs of one terminal rely on, on the values of its state: the *)
(* process p, its table d, the directory position k, the result r, the buffer *)
(* b, the output o and the argument arg.                                      *)

OpenFDs == 2 .. FILE_DESC_ARR_SIZE - 1
Standard(d) == /\ d[0].flags = 1 /\ d[0].file_ops_table = "stdin"
               /\ d[1].flags = 1 /\ d[1].file_ops_table = "stdout"
Opened(d, fd, types) == fd \in OpenFDs /\ d[fd].flags = 1 /\ d[fd].file_ops_table \in types
EntryRead(k) == strncpy(dir_entries[k].file_name, FILENAME_LEN)

\* After n calls syserr has the descriptors open that err_open_lots has opened
\* and not yet closed.
SysErrOK(p, d) ==
  LET n == p.calls
      N == FILE_DESC_ARR_SIZE
  IN  /\ p.pc = "start" \/ (p.pc = "return 0" /\ n = Len(SysErrCalls))
      /\ ~p.fail /\ p.cnt = IF n >= N + 5 THEN 1 ELSE 0
      /\ Standard(d)
      /\ \A g \in OpenFDs : d[g].flags = 1 <=> n - N - 3 <= g /\ g < n - 4

Listed(n) == FlattenSeq([i \in 1 .. n |-> Name(i) \o <<NEWLINE>>])

LsOK(p, d, k, r, b, o) ==
  /\ p.pc \in {"start", "next", "write", "complain", "return 0", "return 3"}
  /\ p.pc = "start" => d = NewTable /\ o = << >>
  /\ p.pc \in {"next", "write"} => Standard(d) /\ Opened(d, p.fd, {"directory"})
  /\ p.pc = "next" => k \in 0 .. entries /\ o = Listed(k)
  /\ p.pc = "write" =>
       k \in 1 .. entries /\ o = Listed(k - 1) /\ r = FILENAME_LEN /\ b = EntryRead(k)
  /\ p.pc = "return 0" => o = Listed(entries)
  /\ p.pc \notin {"next", "write"} => k = 0

Hidden == {Name(i) : i \in {j \in 1 .. entries : Name(j)[1] = "."}}
SearchedTo(n) == Without([i \in 1 .. n |-> Name(i)], Hidden)

GrepOK(p, d, k, b) ==
  /\ p.pc \in {"start", "open", "next", "file", "search", "close", "complain",
               "return 0", "return 3"}
  /\ p.pc \in {"start", "open"} => d = NewTable /\ p.searched = << >>
  /\ p.pc \in {"next", "file", "search", "close"} =>
       Opened(d, p.fd, {"directory"}) /\ k \in 0 .. entries
  /\ p.pc \in {"next", "file"} => \A g \in OpenFDs \ {p.fd} : d[g].flags # 1
  /\ p.pc \in {"search", "close"} =>
       /\ p.file # p.fd /\ Opened(d, p.file, {"file", "rtc"})
       /\ \A g \in OpenFDs \ {p.fd, p.file} : d[g].flags # 1
  /\ p.pc \in {"next", "search", "close"} => p.searched = SearchedTo(k)
  /\ p.pc = "file" => k \in 1 .. entries /\ p.searched = SearchedTo(k - 1) /\ b = EntryRead(k)
  /\ p.pc = "return 0" => p.searched = SearchedTo(entries)
  /\ p.pc \notin {"next", "file", "search", "close"} => k = 0

\* The first n bytes of a file's blocks, which may be one more than the file has.
Bytes(inode, n) ==
  [i \in 1 .. n |->
     data_blocks[FirstCursor(inode_head[inode].datablock_nums, i - 1).cur]]

CatOK(p, d, k, b, o, arg) ==
  LET dentry == read_dentry_by_name(CString(arg))
      text(n) == Shown(Bytes(dentry.inode, n))
      isFile == dentry.file_type = "file"
      position == d[p.fd].file_position
  IN  /\ p.pc \in {"start", "open", "read", "write", "complain", "return 0", "return 3"}
      /\ p.pc \in {"start", "open"} => d = NewTable /\ o = << >>
      /\ p.pc = "open" => b = arg
      /\ p.pc \in {"read", "write", "return 0"} => Matches(CString(arg)) # {}
      /\ p.pc \in {"read", "write"} =>
           /\ Standard(d) /\ Opened(d, p.fd, {dentry.file_type})
           /\ isFile => d[p.fd].inode = dentry.inode
      /\ p.pc = "read" /\ isFile => o = text(position)
      /\ p.pc = "write" => b # << >> /\ (isFile => o \o Shown(b) = text(position))
      /\ p.pc = "return 0" /\ isFile => o = text(inode_head[dentry.inode].length + 1)
      /\ p.pc \notin {"read", "write"} \/ dentry.file_type # "directory" => k = 0

AnyOK(d) == \A g \in FDs : d[g].file_ops_table # "directory"

ProgramOK(p, d, k, r, b, o, arg) ==
  /\ p.program = "syserr" => SysErrOK(p, d)
  /\ p.program = "ls"     => LsOK(p, d, k, r, b, o)
  /\ p.program = "grep"   => GrepOK(p, d, k, b)
  /\ p.program = "cat"    => CatOK(p, d, k, b, o, arg)
  /\ p.program = "any"    => AnyOK(d)
  /\ p.program \notin {"ls", "grep", "cat"} => k = 0

OKAt(t) == ProgramOK(proc[t], file_desc_array[t], read_dir_flag[t], ret[t],
                     buf[t], printed[t], argument_array[t])

\* The inductive invariant of what programs print, search and count.
ProgramsInv == \A t \in Terminals : OKAt(t)

-----------------------------------------------------------------------------
(* What a program prints                                                    *)

\* The recursive function of Without, on the first n elements of s.
IsLeft(g, s, S, n) ==
  g = [k \in 0 .. n |-> IF k = 0 THEN << >>
                        ELSE IF s[k] \in S THEN g[k - 1] ELSE Append(g[k - 1], s[k])]

LEMMA LeftExists ==
  ASSUME NEW s, NEW S, NEW n \in Nat
  PROVE  \E g : IsLeft(g, s, S, n)
  <1> DEFINE next(last, k) == IF s[k] \in S THEN last ELSE Append(last, s[k])
             Bad == {k \in Nat : ~\E g : IsLeft(g, s, S, k)}
  <1> SUFFICES ASSUME Bad # {}
               PROVE  FALSE
    OBVIOUS
  <1>1. PICK k \in Bad : \A j \in Bad : ~(j < k)
    BY LeastNumber
  <1>2. k \in Nat /\ ~\E g : IsLeft(g, s, S, k)
    BY <1>1
  <1>3. k # 0
    <2> DEFINE g == [j \in 0 .. 0 |-> << >>]
    <2>1. g = [j \in 0 .. 0 |-> IF j = 0 THEN << >> ELSE next(g[j - 1], j)]
      BY DEF g
    <2> QED
      BY <1>2, <2>1 DEF IsLeft
  <1>4. k - 1 \in Nat /\ k - 1 \notin Bad
    BY <1>1, <1>2, <1>3
  <1>5. PICK g : IsLeft(g, s, S, k - 1)
    BY <1>4
  <1> DEFINE h == [j \in 0 .. k |-> IF j = k THEN next(g[k - 1], k) ELSE g[j]]
  <1>6. \A i \in 0 .. k - 1 : g[i] = IF i = 0 THEN << >> ELSE next(g[i - 1], i)
    BY <1>5, <1>2, <1>3 DEF IsLeft
  <1> HIDE DEF next
  <1>7. \A j \in 0 .. k : h[j] = IF j = 0 THEN << >> ELSE next(h[j - 1], j)
    <2> TAKE j \in 0 .. k
    <2>2. CASE j = k
      <3>1. h[k] = next(g[k - 1], k) /\ h[k - 1] = g[k - 1]
        BY <1>2, <1>3
      <3> QED
        BY <3>1, <2>2, <1>3
    <2>3. CASE j = 0
      BY <1>6, <2>3, <1>2, <1>3
    <2>4. CASE j # 0 /\ j # k
      <3>1. j \in 0 .. k - 1 /\ j - 1 \in 0 .. k /\ j - 1 # k
        BY <2>4, <1>2
      <3>2. h[j] = g[j] /\ h[j - 1] = g[j - 1]
        BY <3>1, <2>4
      <3> QED
        BY <1>6, <2>4, <3>1, <3>2
    <2> QED
      BY <2>2, <2>3, <2>4
  <1>8. h = [j \in 0 .. k |-> IF j = 0 THEN << >> ELSE next(h[j - 1], j)]
    <2>1. h = [j \in 0 .. k |-> h[j]]
      OBVIOUS
    <2> HIDE DEF h
    <2> QED
      BY <2>1, <1>7
  <1> HIDE DEF h
  <1>9. IsLeft(h, s, S, k)
    BY <1>8 DEF IsLeft, next
  <1> QED
    BY <1>2, <1>9

\* It depends on the elements it has passed only.
LEMMA LeftSame ==
  ASSUME NEW S, NEW s, NEW n \in Nat, NEW g, IsLeft(g, s, S, n),
         NEW z, NEW m \in Nat, NEW h, IsLeft(h, z, S, m),
         NEW j \in Nat, j <= n, j <= m, \A i \in 1 .. j : s[i] = z[i]
  PROVE  g[j] = h[j]
  <1> DEFINE Bad == {i \in Nat : i <= j /\ g[i] # h[i]}
  <1>1. \A i \in 0 .. n :
          g[i] = IF i = 0 THEN << >>
                 ELSE IF s[i] \in S THEN g[i - 1] ELSE Append(g[i - 1], s[i])
    BY DEF IsLeft
  <1>2. \A i \in 0 .. m :
          h[i] = IF i = 0 THEN << >>
                 ELSE IF z[i] \in S THEN h[i - 1] ELSE Append(h[i - 1], z[i])
    BY DEF IsLeft
  <1> SUFFICES ASSUME Bad # {} PROVE FALSE
    OBVIOUS
  <1>3. PICK i \in Bad : \A l \in Bad : ~(l < i)
    BY LeastNumber
  <1>4. i \in 0 .. n /\ i \in 0 .. m /\ g[i] # h[i]
    BY <1>3
  <1>5. i # 0
    BY <1>1, <1>2, <1>4
  <1>6. s[i] = z[i] /\ g[i - 1] = h[i - 1]
    BY <1>3, <1>5
  <1> QED
    BY <1>1, <1>2, <1>4, <1>5, <1>6

LEMMA WithoutIs ==
  ASSUME NEW s, IsString(s), NEW S
  PROVE  \E g : IsLeft(g, s, S, Len(s)) /\ Without(s, S) = g[Len(s)]
  <1> DEFINE n == Len(s)
             g == CHOOSE h : IsLeft(h, s, S, n)
  <1>1. Without(s, S) = g[n]
    BY DEF Without, IsLeft
  <1>2. n \in Nat
    BY DEF IsString
  <1> HIDE DEF n
  <1>3. IsLeft(g, s, S, n)
    BY <1>2, LeftExists
  <1> HIDE DEF g
  <1>4. IsLeft(g, s, S, n) /\ Without(s, S) = g[n]
    BY <1>1, <1>3
  <1> QED
    BY <1>4 DEF n

LEMMA WithoutEmpty ==
  ASSUME NEW S PROVE Without(<< >>, S) = << >>
  <1>1. IsString(<< >>) /\ Len(<< >>) = 0
    BY EmptyIsString
  <1>2. PICK g : IsLeft(g, << >>, S, 0) /\ Without(<< >>, S) = g[0]
    BY <1>1, WithoutIs
  <1> QED
    BY <1>2 DEF IsLeft

\* One element more is left out or appended.
LEMMA WithoutStep ==
  ASSUME NEW T, NEW s \in Seq(T), NEW e \in T, NEW S
  PROVE  Without(Append(s, e), S)
           = IF e \in S THEN Without(s, S) ELSE Append(Without(s, S), e)
  <1> DEFINE z == Append(s, e)
             n == Len(s)
  <1>1. /\ n \in Nat /\ z \in Seq(T) /\ Len(z) = n + 1 /\ z[n + 1] = e
        /\ \A i \in 1 .. n : z[i] = s[i]
    BY AppendProperties, LenProperties
  <1>2. IsString(s) /\ IsString(z)
    BY <1>1, SequenceIsString
  <1> HIDE DEF z, n
  <1>3. PICK g : IsLeft(g, s, S, n) /\ Without(s, S) = g[n]
    BY <1>2, WithoutIs DEF n
  <1>4. PICK h : IsLeft(h, z, S, n + 1) /\ Without(z, S) = h[n + 1]
    BY <1>1, <1>2, WithoutIs
  <1>5. g[n] = h[n]
    <2>1. n + 1 \in Nat /\ n <= n /\ n <= n + 1 /\ \A i \in 1 .. n : s[i] = z[i]
      BY <1>1
    <2> QED
      BY <1>1, <1>3, <1>4, <2>1, LeftSame
  <1>6. h[n + 1] = IF e \in S THEN h[n] ELSE Append(h[n], e)
    <2>1. n + 1 \in 0 .. n + 1 /\ n + 1 # 0 /\ n + 1 - 1 = n
      BY <1>1
    <2>2. \A k \in 0 .. n + 1 :
            h[k] = IF k = 0 THEN << >>
                   ELSE IF z[k] \in S THEN h[k - 1] ELSE Append(h[k - 1], z[k])
      BY <1>4 DEF IsLeft
    <2> QED
      BY <1>1, <2>1, <2>2
  <1>7. Without(z, S) = IF e \in S THEN Without(s, S) ELSE Append(Without(s, S), e)
    BY <1>3, <1>4, <1>5, <1>6
  <1> QED
    BY <1>7 DEF z

LEMMA PrefixGrows ==
  ASSUME NEW T, NEW s \in Seq(T)
  PROVE  /\ SubSeq(s, 1, 0) = << >> /\ SubSeq(s, 1, Len(s)) = s
         /\ \A n \in 0 .. Len(s) : SubSeq(s, 1, n) \in Seq(T)
         /\ \A n \in 1 .. Len(s) :
              s[n] \in T /\ SubSeq(s, 1, n) = Append(SubSeq(s, 1, n - 1), s[n])
  <1>1. Len(s) \in Nat /\ \A n \in 1 .. Len(s) : s[n] \in T
    BY LenProperties, ElementOfSeq
  <1>2. SubSeq(s, 1, 0) = << >> /\ SubSeq(s, 1, Len(s)) = s
    BY SubSeqEmpty, SubSeqFull
  <1>3. \A n \in 1 .. Len(s) : SubSeq(s, 1, n) \in Seq(T)
    BY <1>1, SubSeqProperties
  <1>4. \A n \in 0 .. Len(s) : SubSeq(s, 1, n) \in Seq(T)
    BY <1>1, <1>2, <1>3, EmptySeq
  <1>5. ASSUME NEW n \in 1 .. Len(s)
        PROVE  SubSeq(s, 1, n) = Append(SubSeq(s, 1, n - 1), s[n])
    <2>1. 1 \in 1 .. Len(s) /\ n \in 1 .. Len(s) /\ n - 1 \in 0 .. Len(s)
      BY <1>1
    <2>2. SubSeq(s, 1, n) = SubSeq(s, 1, n - 1) \o <<s[n]>>
      BY <2>1, SubSeqRecursiveSecond
    <2>3. SubSeq(s, 1, n - 1) \in Seq(T) /\ s[n] \in T
      BY <1>1, <1>4, <2>1
    <2> QED
      BY <2>2, <2>3, AppendIsConcat
  <1> QED
    BY <1>1, <1>2, <1>4, <1>5

\* Appending to a concatenation is appending to its second part.
AppendMoves(r, s, e) == Append(r \o s, e) = r \o Append(s, e)

LEMMA AppendToConcat ==
  ASSUME NEW T, NEW r \in Seq(T), NEW s \in Seq(T), NEW e \in T
  PROVE  AppendMoves(r, s, e)
  BY DEF AppendMoves

\* Nothing is left of elements of S, and all of others.
LEMMA WithoutAllOrNone ==
  ASSUME NEW T, NEW s \in Seq(T), NEW S
  PROVE  /\ Without(s, S) \in Seq(T)
         /\ (\A i \in 1 .. Len(s) : s[i] \in S) => Without(s, S) = << >>
         /\ (\A i \in 1 .. Len(s) : s[i] \notin S) => Without(s, S) = s
  <1> DEFINE w(n) == Without(SubSeq(s, 1, n), S)
             All == \A i \in 1 .. Len(s) : s[i] \in S
             None == \A i \in 1 .. Len(s) : s[i] \notin S
             Good(n) == /\ w(n) \in Seq(T)
                        /\ All => w(n) = << >>
                        /\ None => w(n) = SubSeq(s, 1, n)
             Bad == {n \in Nat : n <= Len(s) /\ ~Good(n)}
  <1>1. Len(s) \in Nat
    BY LenProperties
  <1>2. /\ SubSeq(s, 1, 0) = << >> /\ SubSeq(s, 1, Len(s)) = s
        /\ \A n \in 0 .. Len(s) : SubSeq(s, 1, n) \in Seq(T)
        /\ \A n \in 1 .. Len(s) :
             s[n] \in T /\ SubSeq(s, 1, n) = Append(SubSeq(s, 1, n - 1), s[n])
    BY PrefixGrows
  <1>3. Bad = {}
    <2> SUFFICES ASSUME Bad # {} PROVE FALSE
      OBVIOUS
    <2> HIDE DEF Good
    <2>1. PICK n \in Bad : \A m \in Bad : ~(m < n)
      BY LeastNumber
    <2>2. n \in Nat /\ n <= Len(s) /\ ~Good(n)
      BY <2>1
    <2>3. n # 0
      <3>1. w(0) = << >>
        BY <1>2, WithoutEmpty
      <3>2. Good(0)
        BY <1>2, <3>1, EmptySeq DEF Good
      <3> QED
        BY <2>2, <3>2
    <2>4. n - 1 \in Nat /\ Good(n - 1)
      BY <1>1, <2>1, <2>2, <2>3
    <2>5. n \in 1 .. Len(s) /\ n - 1 \in 0 .. Len(s)
      BY <1>1, <2>2, <2>3
    <2> DEFINE x == SubSeq(s, 1, n - 1)
               y == SubSeq(s, 1, n)
               e == s[n]
    <2>6. x \in Seq(T) /\ e \in T /\ y = Append(x, e)
      BY <1>2, <2>5
    <2>7. /\ Without(x, S) \in Seq(T)
          /\ All => Without(x, S) = << >>
          /\ None => Without(x, S) = x
      BY <2>4 DEF Good
    <2>9. (All => e \in S) /\ (None => e \notin S)
      BY <2>5 DEF All, None
    <2> HIDE DEF x, y, e, All, None
    <2>8. Without(y, S) = IF e \in S THEN Without(x, S) ELSE Append(Without(x, S), e)
      <3>1. Without(Append(x, e), S)
              = IF e \in S THEN Without(x, S) ELSE Append(Without(x, S), e)
        BY <2>6, WithoutStep
      <3> QED
        BY <2>6, <3>1
    <2>10. Without(y, S) \in Seq(T)
      BY <2>6, <2>7, <2>8, AppendProperties
    <2>11. (All => Without(y, S) = << >>) /\ (None => Without(y, S) = y)
      BY <2>6, <2>7, <2>8, <2>9
    <2> QED
      BY <2>2, <2>10, <2>11 DEF Good, y
  <1>4. Good(Len(s))
    BY <1>1, <1>3
  <1> QED
    BY <1>2, <1>4

LEMMA WithoutConcat ==
  ASSUME NEW T, NEW s \in Seq(T), NEW z \in Seq(T), NEW S
  PROVE  Without(s \o z, S) = Without(s, S) \o Without(z, S)
  <1> DEFINE p(n) == SubSeq(z, 1, n)
             Good(n) == Without(s \o p(n), S) = Without(s, S) \o Without(p(n), S)
             Bad == {n \in Nat : n <= Len(z) /\ ~Good(n)}
  <1>1. Len(z) \in Nat
    BY LenProperties
  <1>2. /\ p(0) = << >> /\ p(Len(z)) = z
        /\ \A n \in 0 .. Len(z) : p(n) \in Seq(T)
        /\ \A n \in 1 .. Len(z) : z[n] \in T /\ p(n) = Append(p(n - 1), z[n])
    BY PrefixGrows
  <1>3. \A y \in Seq(T) : Without(y, S) \in Seq(T)
    BY WithoutAllOrNone
  <1>4. Bad = {}
    <2> SUFFICES ASSUME Bad # {} PROVE FALSE
      OBVIOUS
    <2> HIDE DEF Good
    <2>1. PICK n \in Bad : \A m \in Bad : ~(m < n)
      BY LeastNumber
    <2>2. n \in Nat /\ n <= Len(z) /\ ~Good(n)
      BY <2>1
    <2>3. n # 0
      <3>1. Without(<< >>, S) = << >> /\ s \o << >> = s
        BY WithoutEmpty, ConcatEmptySeq
      <3>2. Without(s, S) \o << >> = Without(s, S)
        BY <1>3, ConcatEmptySeq
      <3>3. Good(0)
        BY <1>2, <3>1, <3>2 DEF Good
      <3> QED
        BY <2>2, <3>3
    <2>4. n - 1 \in Nat /\ Good(n - 1)
      BY <1>1, <2>1, <2>2, <2>3
    <2>5. n \in 1 .. Len(z) /\ n - 1 \in 0 .. Len(z)
      BY <1>1, <2>2, <2>3
    <2> DEFINE x == p(n - 1)
               y == p(n)
               e == z[n]
               ws == Without(s, S)
               wx == Without(x, S)
    <2>6. x \in Seq(T) /\ e \in T /\ y = Append(x, e)
      BY <1>2, <2>5
    <2>7. Without(s \o x, S) = ws \o wx
      BY <2>4 DEF Good
    <2> HIDE DEF x, y, e
    <2>8. ws \in Seq(T) /\ wx \in Seq(T)
      BY <1>3, <2>6
    <2>9. Without(y, S) = IF e \in S THEN wx ELSE Append(wx, e)
      BY <2>6, WithoutStep
    <2>10. s \o x \in Seq(T) /\ s \o y = Append(s \o x, e)
      <3>1. x \in Seq(T) /\ e \in T
        BY <2>6
      <3>2. AppendMoves(s, x, e)
        BY <3>1, AppendToConcat
      <3>3. s \o x \in Seq(T)
        BY <3>1, ConcatProperties
      <3>4. s \o y = s \o Append(x, e)
        BY <2>6
      <3>5. Append(s \o x, e) = s \o Append(x, e)
        BY <3>2 DEF AppendMoves
      <3> HIDE DEF x, y, e
      <3> QED
        BY <3>3, <3>4, <3>5, Zenon
    <2>11. Without(s \o y, S) = IF e \in S THEN ws \o wx ELSE Append(ws \o wx, e)
      <3> DEFINE sx == s \o x
      <3>1. sx \in Seq(T) /\ s \o y = Append(sx, e) /\ Without(sx, S) = ws \o wx
        BY <2>7, <2>10
      <3> HIDE DEF sx
      <3>2. Without(Append(sx, e), S)
              = IF e \in S THEN Without(sx, S) ELSE Append(Without(sx, S), e)
        <4>1. sx \in Seq(T) /\ e \in T
          BY <2>6, <3>1
        <4> QED
          BY <4>1, WithoutStep
      <3> QED
        BY <3>1, <3>2
    <2> HIDE DEF ws, wx
    <2>12. Append(ws \o wx, e) = ws \o Append(wx, e)
      <3>1. ws \in Seq(T) /\ wx \in Seq(T) /\ e \in T
        BY <2>6, <2>8
      <3>2. AppendMoves(ws, wx, e)
        BY <3>1, AppendToConcat
      <3> QED
        BY <3>2 DEF AppendMoves
    <2>13. Without(s \o y, S) = ws \o Without(y, S)
      BY <2>9, <2>11, <2>12
    <2> QED
      BY <2>2, <2>13 DEF Good, y, ws
  <1>5. Good(Len(z))
    BY <1>1, <1>4
  <1> QED
    BY <1>2, <1>5

\* The recursive function of FlattenSeq, on the first n sequences of s.
IsFlat(g, s, n) == g = [i \in 1 .. n |-> IF i = 1 THEN s[i] ELSE g[i - 1] \o s[i]]

LEMMA FlatExists ==
  ASSUME NEW s, NEW n \in Nat
  PROVE  \E g : IsFlat(g, s, n)
  <1> DEFINE Bad == {k \in Nat : ~\E g : IsFlat(g, s, k)}
  <1> SUFFICES ASSUME Bad # {}
               PROVE  FALSE
    OBVIOUS
  <1>1. PICK k \in Bad : \A j \in Bad : ~(j < k)
    BY LeastNumber
  <1>2. k \in Nat /\ ~\E g : IsFlat(g, s, k)
    BY <1>1
  <1>3. k # 0
    <2> DEFINE g == [j \in 1 .. 0 |-> << >>]
    <2>1. g = [j \in 1 .. 0 |-> IF j = 1 THEN s[j] ELSE g[j - 1] \o s[j]]
      BY DEF g
    <2> QED
      BY <1>2, <2>1 DEF IsFlat
  <1>4. k - 1 \in Nat /\ k - 1 \notin Bad
    BY <1>1, <1>2, <1>3
  <1>5. PICK g : IsFlat(g, s, k - 1)
    BY <1>4
  <1> DEFINE next(last, j) == IF j = 1 THEN s[j] ELSE last \o s[j]
             h == [j \in 1 .. k |-> IF j = k THEN next(g[k - 1], k) ELSE g[j]]
  <1>6. \A i \in 1 .. k - 1 : g[i] = next(g[i - 1], i)
    BY <1>5, <1>2, <1>3 DEF IsFlat
  <1>7. \A j \in 1 .. k : h[j] = next(h[j - 1], j)
    <2> TAKE j \in 1 .. k
    <2>1. CASE k = 1
      <3>1. j = 1 /\ j = k
        BY <2>1
      <3>2. h[j] = s[j]
        BY <2>1, <3>1
      <3> QED
        BY <3>1, <3>2
    <2>2. CASE j = k /\ k # 1
      <3> HIDE DEF next
      <3>1. h[k] = next(g[k - 1], k) /\ h[k - 1] = g[k - 1]
        BY <1>2, <1>3, <2>2
      <3> QED
        BY <3>1, <2>2
    <2>3. CASE j = 1 /\ j # k
      <3>1. h[j] = g[j] /\ j \in 1 .. k - 1
        BY <2>3, <1>2
      <3>2. g[j] = s[j]
        BY <1>6, <2>3, <3>1
      <3> QED
        BY <2>3, <3>1, <3>2
    <2>4. CASE j # 1 /\ j # k
      <3> HIDE DEF next
      <3>1. j \in 1 .. k - 1 /\ j - 1 \in 1 .. k /\ j - 1 # k
        BY <2>4, <1>2
      <3>2. h[j] = g[j] /\ h[j - 1] = g[j - 1]
        BY <3>1, <2>4
      <3> QED
        BY <1>6, <2>4, <3>1, <3>2
    <2> QED
      BY <2>1, <2>2, <2>3, <2>4
  <1>8. h = [j \in 1 .. k |-> next(h[j - 1], j)]
    <2>1. h = [j \in 1 .. k |-> h[j]]
      OBVIOUS
    <2> HIDE DEF h, next
    <2> QED
      BY <2>1, <1>7
  <1> HIDE DEF h
  <1>9. IsFlat(h, s, k)
    BY <1>8 DEF IsFlat
  <1> QED
    BY <1>2, <1>9

LEMMA FlatSame ==
  ASSUME NEW s, NEW n \in Nat, NEW g, IsFlat(g, s, n),
         NEW z, NEW m \in Nat, NEW h, IsFlat(h, z, m),
         NEW j \in Nat, 1 <= j, j <= n, j <= m, \A i \in 1 .. j : s[i] = z[i]
  PROVE  g[j] = h[j]
  <1> DEFINE Bad == {i \in Nat : 1 <= i /\ i <= j /\ g[i] # h[i]}
  <1>1. \A i \in 1 .. n : g[i] = IF i = 1 THEN s[i] ELSE g[i - 1] \o s[i]
    BY DEF IsFlat
  <1>2. \A i \in 1 .. m : h[i] = IF i = 1 THEN z[i] ELSE h[i - 1] \o z[i]
    BY DEF IsFlat
  <1> SUFFICES ASSUME Bad # {} PROVE FALSE
    OBVIOUS
  <1>3. PICK i \in Bad : \A l \in Bad : ~(l < i)
    BY LeastNumber
  <1>4. i \in 1 .. n /\ i \in 1 .. m /\ g[i] # h[i] /\ s[i] = z[i]
    BY <1>3
  <1>5. i # 1
    BY <1>1, <1>2, <1>4
  <1>6. g[i - 1] = h[i - 1]
    BY <1>3, <1>4, <1>5
  <1> QED
    BY <1>1, <1>2, <1>4, <1>5, <1>6

LEMMA FlattenIs ==
  ASSUME NEW s, IsString(s), Len(s) # 0
  PROVE  \E g : IsFlat(g, s, Len(s)) /\ FlattenSeq(s) = g[Len(s)]
  <1> DEFINE n == Len(s)
             g == CHOOSE h : IsFlat(h, s, n)
  <1>1. FlattenSeq(s) = g[n]
    BY DEF FlattenSeq, IsFlat
  <1>2. n \in Nat
    BY DEF IsString
  <1> HIDE DEF n
  <1>3. IsFlat(g, s, n)
    BY <1>2, FlatExists
  <1> HIDE DEF g
  <1>4. IsFlat(g, s, n) /\ FlattenSeq(s) = g[n]
    BY <1>1, <1>3
  <1> QED
    BY <1>4 DEF n

-----------------------------------------------------------------------------
(* The directory, entry by entry                                            *)

Chars == STRING \cup {NUL, NEWLINE}

\* The names of the directory are strings of at most FILENAME_LEN characters.
LEMMA NameIs ==
  ASSUME NEW k \in 1 .. entries
  PROVE  LET f == dir_entries[k].file_name
         IN  /\ f \in Seq(Chars) /\ Len(f) = FILENAME_LEN /\ IsString(f)
             /\ Name(k) \in Seq(Chars) /\ IsCString(Name(k)) /\ Name(k) # << >>
             /\ Len(Name(k)) = strlen(f) /\ strlen(f) \in 0 .. FILENAME_LEN
             /\ \A i \in 1 .. strlen(f) : Name(k)[i] = f[i]
  <1> DEFINE f == dir_entries[k].file_name
  <1>1. dir_entries[k] \in Dentries
    BY FilesAssumption, ElementOfSeq DEF entries
  <1>2. f \in Seq(Chars) /\ Len(f) = FILENAME_LEN
    <2>1. f \in Seq(STRING) /\ Len(f) = FILENAME_LEN
      BY <1>1, FilesAssumption DEF Dentries
    <2>2. STRING \subseteq Chars
      BY DEF Chars
    <2> QED
      BY <2>1, <2>2, SeqMonotonic
  <1>3. Name(k) = SubSeq(f, 1, strlen(f)) /\ Name(k) = CString(f) /\ Name(k) # << >>
    BY ImageAssumption DEF Name, CString
  <1> HIDE DEF f
  <1>4. IsString(f) /\ strlen(f) \in 0 .. Len(f)
    BY <1>2, SequenceIsString, StrlenIs
  <1>5. IsCString(Name(k)) /\ Len(Name(k)) = strlen(f)
    BY <1>3, <1>4, CStringIsCString, CStringIs
  <1>6. Name(k) \in Seq(Chars) /\ \A i \in 1 .. strlen(f) : Name(k)[i] = f[i]
    <2>1. 1 \in Int /\ strlen(f) \in 0 .. Len(f) /\ Len(f) \in Nat
      BY <1>2, <1>4, LenProperties
    <2>2. Name(k) \in Seq(Chars)
      BY <1>2, <1>3, <2>1, PrefixGrows
    <2>3. \A i \in 1 .. strlen(f) : Name(k)[i] = f[i]
      BY <1>2, <1>3, <2>1
    <2> QED
      BY <2>2, <2>3
  <1> QED
    BY <1>2, <1>3, <1>4, <1>5, <1>6 DEF f

\* What a read of the directory puts into the buffer: the name and NULs.
LEMMA EntryReadIs ==
  ASSUME NEW k \in 1 .. entries
  PROVE  /\ EntryRead(k) \in Seq(Chars) /\ Len(EntryRead(k)) = FILENAME_LEN
         /\ EntryRead(k)[1] = Name(k)[1]
         /\ CString(EntryRead(k)) = Name(k)
         /\ Shown(EntryRead(k) \o <<NEWLINE>>) = Name(k) \o <<NEWLINE>>
  <1> DEFINE f == dir_entries[k].file_name
             n == strlen(f)
             F == FILENAME_LEN
             name == Name(k)
             e == EntryRead(k)
             nuls == [i \in 1 .. F - n |-> NUL]
  <1>1. F \in Nat \ {0} /\ NUL \in Chars /\ NEWLINE \in Chars /\ NUL # NEWLINE
    BY StringsAssumption DEF NUL, NEWLINE, Chars
  <1>2. /\ f \in Seq(Chars) /\ Len(f) = F /\ IsString(f)
        /\ name \in Seq(Chars) /\ IsCString(name) /\ name # << >>
        /\ Len(name) = n /\ n \in 0 .. F
        /\ \A i \in 1 .. n : name[i] = f[i]
    BY NameIs
  <1>3. e = [i \in 1 .. F |-> IF i <= n THEN f[i] ELSE NUL]
    BY DEF EntryRead, strncpy
  <1> HIDE DEF f, n, F, name, e
  <1>4. e \in Seq(Chars) /\ Len(e) = F
    <2>1. \A i \in 1 .. F : f[i] \in Chars
      BY <1>2, ElementOfSeq
    <2>2. e \in [1 .. F -> Chars]
      BY <1>1, <1>3, <2>1
    <2>3. e \in Seq(Chars)
      BY <1>1, <2>2, SeqDef
    <2> QED
      BY <1>1, <2>2, <2>3, LenProperties
  <1>5. nuls \in Seq(Chars) /\ Len(nuls) = F - n /\ \A i \in 1 .. F - n : nuls[i] = NUL
    <2>1. F - n \in Nat
      BY <1>1, <1>2
    <2>2. nuls \in [1 .. F - n -> Chars]
      BY <1>1
    <2>3. nuls \in Seq(Chars)
      BY <2>1, <2>2, SeqDef
    <2> QED
      BY <2>1, <2>2, <2>3, LenProperties
  <1> HIDE DEF nuls
  <1>6. e = name \o nuls
    <2>1. name \o nuls \in Seq(Chars) /\ Len(name \o nuls) = F
      BY <1>1, <1>2, <1>5, ConcatProperties
    <2>2. ASSUME NEW i \in 1 .. F PROVE (name \o nuls)[i] = e[i]
      <3>1. CASE i <= n
        BY <1>1, <1>2, <1>3, <1>5, <3>1, ConcatProperties
      <3>2. CASE ~(i <= n)
        <4>1. (name \o nuls)[i] = nuls[i - n] /\ i - n \in 1 .. F - n
          BY <1>1, <1>2, <1>5, <3>2, ConcatProperties
        <4> QED
          BY <1>1, <1>2, <1>3, <1>5, <3>2, <4>1
      <3> QED
        BY <3>1, <3>2
    <2> QED
      BY <1>4, <2>1, <2>2, SeqEqual
  <1>7. strlen(e) = n
    <2> DEFINE m == strlen(e)
    <2>1. IsString(e) /\ DOMAIN e = 1 .. F
      BY <1>4, SequenceIsString, LenProperties
    <2>2. m \in 0 .. F /\ Char(e, m + 1) = NUL /\ \A j \in 1 .. m : Char(e, j) # NUL
      BY <1>4, <2>1, StrlenIs
    <2>3. Char(e, n + 1) = NUL
      <3>1. \A i \in 1 .. F : ~(i <= n) => e[i] = NUL
        BY <1>3
      <3>2. ~(n + 1 <= n) /\ n + 1 \in Nat /\ n + 1 >= 1
        BY <1>1, <1>2
      <3> QED
        BY <2>1, <3>1, <3>2 DEF Char
    <2>4. \A i \in 1 .. n : Char(e, i) # NUL
      <3>1. \A i \in 1 .. n : name[i] # NUL
        BY <1>2 DEF IsCString
      <3>2. \A i \in 1 .. n : i \in 1 .. F /\ e[i] = name[i]
        BY <1>1, <1>2, <1>3
      <3> QED
        BY <2>1, <3>1, <3>2 DEF Char
    <2> HIDE DEF m
    <2>5. ~(m < n)
      <3>1. m < n => m + 1 \in 1 .. n
        BY <1>1, <1>2, <2>2
      <3> QED
        BY <2>2, <2>4, <3>1
    <2>6. ~(n < m)
      <3>1. n < m => n + 1 \in 1 .. m
        BY <1>1, <1>2, <2>2
      <3> QED
        BY <2>2, <2>3, <3>1
    <2> QED
      BY <1>1, <1>2, <2>2, <2>5, <2>6 DEF m
  <1>8. CString(e) = name
    <2>1. CString(e) = SubSeq(name \o nuls, 1, n)
      BY <1>6, <1>7 DEF CString
    <2>2. CString(e) \in Seq(Chars) /\ Len(CString(e)) = n
      <3>1. IsString(e)
        BY <1>4, SequenceIsString
      <3>2. SubSeq(e, 1, n) \in Seq(Chars)
        BY <1>2, <1>4, PrefixGrows
      <3> QED
        BY <1>7, <3>1, <3>2, CStringIs DEF CString
    <2>3. \A i \in 1 .. n : CString(e)[i] = e[i]
      BY <1>1, <1>2, <1>4, <1>7 DEF CString
    <2>4. \A i \in 1 .. n : e[i] = name[i]
      BY <1>1, <1>2, <1>3
    <2> QED
      BY <1>2, <2>2, <2>3, <2>4, SeqEqual
  <1>9. e[1] = name[1]
    <2>1. n >= 1
      BY <1>2, EmptySeq
    <2> QED
      BY <1>1, <1>2, <1>3, <2>1
  <1>10. Shown(e \o <<NEWLINE>>) = name \o <<NEWLINE>>
    <2> DEFINE N == {NUL}
               nl == <<NEWLINE>>
    <2>1. Without(name, N) = name
      BY <1>2, WithoutAllOrNone DEF IsCString
    <2>2. Without(nuls, N) = << >>
      BY <1>5, WithoutAllOrNone
    <2>3. nl \in Seq(Chars) /\ Len(nl) = 1 /\ nl[1] = NEWLINE
      BY <1>1
    <2> HIDE DEF nl
    <2>4. Without(nl, N) = nl
      BY <1>1, <2>3, WithoutAllOrNone
    <2> HIDE DEF N
    <2>5. Without(e, N) = name
      <3>1. Without(name \o nuls, N) = Without(name, N) \o Without(nuls, N)
        <4>1. name \in Seq(Chars) /\ nuls \in Seq(Chars)
          BY <1>2, <1>5
        <4> QED
          BY <4>1, WithoutConcat
      <3>2. name \o << >> = name
        BY <1>2, ConcatEmptySeq
      <3> QED
        BY <1>6, <2>1, <2>2, <3>1, <3>2
    <2>6. Without(e \o nl, N) = Without(e, N) \o Without(nl, N)
      BY <1>4, <2>3, WithoutConcat
    <2> QED
      BY <2>4, <2>5, <2>6 DEF Shown, N, nl
  <1> QED
    BY <1>4, <1>8, <1>9, <1>10 DEF e, name, F

LEMMA ListedStep ==
  ASSUME NEW k \in 1 .. entries
  PROVE  /\ Listed(0) = << >>
         /\ Listed(k) = Listed(k - 1) \o (Name(k) \o <<NEWLINE>>)
  <1> DEFINE L(i) == Name(i) \o <<NEWLINE>>
             lines(n) == [i \in 1 .. n |-> L(i)]
  <1>1. entries \in Nat
    BY FilesAssumption, LenProperties DEF entries
  <1>2. L(k) \in Seq(Chars)
    <2>1. Name(k) \in Seq(Chars)
      BY NameIs
    <2>2. <<NEWLINE>> \in Seq(Chars)
      BY DEF Chars
    <2> QED
      BY <2>1, <2>2, ConcatProperties
  <1> HIDE DEF L
  <1>3. \A n \in Nat : IsString(lines(n)) /\ Len(lines(n)) = n
    <2> TAKE n \in Nat
    <2> DEFINE s == lines(n)
    <2>1. s = [i \in 1 .. n |-> s[i]]
      OBVIOUS
    <2> HIDE DEF s
    <2>2. IsString(s) /\ Len(s) = n
      BY <2>1, Filled
    <2> QED
      BY <2>2 DEF s
  <1>4. \A n : Listed(n) = FlattenSeq(lines(n))
    BY DEF Listed, L
  <1>5. lines(0) = << >> /\ FlattenSeq(<< >>) = << >>
    <2>1. lines(0) = << >>
      OBVIOUS
    <2>2. Len(<< >>) = 0
      OBVIOUS
    <2> QED
      BY <2>1, <2>2 DEF FlattenSeq
  <1>6. Listed(0) = << >>
    BY <1>4, <1>5
  <1> HIDE DEF lines
  <1>7. PICK g : IsFlat(g, lines(k), k) /\ FlattenSeq(lines(k)) = g[k]
    <2>1. IsString(lines(k)) /\ Len(lines(k)) = k /\ k # 0
      BY <1>1, <1>3
    <2> QED
      BY <2>1, FlattenIs
  <1>8. \A i \in 1 .. k : g[i] = IF i = 1 THEN L(i) ELSE g[i - 1] \o L(i)
    <2>1. \A i \in 1 .. k : lines(k)[i] = L(i)
      BY DEF lines
    <2>2. \A i \in 1 .. k : g[i] = IF i = 1 THEN lines(k)[i] ELSE g[i - 1] \o lines(k)[i]
      BY <1>7 DEF IsFlat
    <2> QED
      BY <2>1, <2>2
  <1>9. CASE k = 1
    <2>1. Listed(1) = L(1)
      BY <1>4, <1>7, <1>8, <1>9
    <2>2. << >> \o L(k) = L(k)
      BY <1>2, ConcatEmptySeq
    <2>3. k - 1 = 0
      BY <1>9
    <2> QED
      BY <1>6, <1>9, <2>1, <2>2, <2>3 DEF L
  <1>10. CASE k # 1
    <2> DEFINE m == k - 1
    <2>1. m \in Nat /\ m # 0 /\ 1 <= m /\ m <= m /\ m <= k /\ k \in Nat /\ k \in 1 .. k
      BY <1>1, <1>10
    <2>2. PICK h : IsFlat(h, lines(m), m) /\ FlattenSeq(lines(m)) = h[m]
      <3>1. IsString(lines(m)) /\ Len(lines(m)) = m
        BY <1>3, <2>1
      <3> QED
        BY <2>1, <3>1, FlattenIs
    <2>3. \A i \in 1 .. m : lines(m)[i] = lines(k)[i]
      BY <2>1 DEF lines
    <2> HIDE DEF m
    <2>4. h[m] = g[m]
      BY <1>7, <2>1, <2>2, <2>3, FlatSame
    <2>5. g[k] = g[m] \o L(k)
      BY <1>8, <1>10, <2>1 DEF m
    <2>6. Listed(k) = Listed(m) \o L(k)
      BY <1>4, <1>7, <2>2, <2>4, <2>5
    <2> QED
      BY <1>6, <2>6 DEF m, L
  <1> QED
    BY <1>9, <1>10

LEMMA SearchedStep ==
  ASSUME NEW k \in 1 .. entries
  PROVE  /\ SearchedTo(0) = << >>
         /\ SearchedTo(k) = IF Name(k)[1] = "." THEN SearchedTo(k - 1)
                                               ELSE Append(SearchedTo(k - 1), Name(k))
  <1> DEFINE T == Seq(Chars)
             names(n) == [i \in 1 .. n |-> Name(i)]
             x == names(k - 1)
             y == names(k)
  <1>1. entries \in Nat /\ k \in Nat /\ k - 1 \in Nat
    BY FilesAssumption, LenProperties DEF entries
  <1>2. \A i \in 1 .. entries : Name(i) \in T
    BY NameIs
  <1>3. \A n : SearchedTo(n) = Without(names(n), Hidden)
    BY DEF SearchedTo
  <1>4. Name(k) \in Hidden <=> Name(k)[1] = "."
    BY DEF Hidden
  <1>5. SearchedTo(0) = << >>
    <2>1. names(0) = << >>
      OBVIOUS
    <2> QED
      BY <1>3, <2>1, WithoutEmpty
  <1> HIDE DEF T
  <1>6. x \in Seq(T) /\ Len(x) = k - 1
    <2>1. x \in [1 .. k - 1 -> T]
      BY <1>1, <1>2
    <2>2. x \in Seq(T)
      BY <1>1, <2>1, SeqDef
    <2>3. DOMAIN x = 1 .. k - 1 /\ DOMAIN x = 1 .. Len(x) /\ Len(x) \in Nat
      BY <2>2, LenProperties
    <2> QED
      BY <1>1, <2>2, <2>3
  <1>7. y = Append(x, Name(k))
    <2> DEFINE z == Append(x, Name(k))
    <2>1. y \in [1 .. k -> T]
      BY <1>1, <1>2
    <2>2. y \in Seq(T)
      BY <1>1, <2>1, SeqDef
    <2>3. DOMAIN y = 1 .. k /\ DOMAIN y = 1 .. Len(y) /\ Len(y) \in Nat
      BY <2>2, LenProperties
    <2>4. Len(y) = k
      BY <1>1, <2>3
    <2>5. /\ z \in Seq(T) /\ Len(z) = k /\ z[k] = Name(k)
          /\ \A i \in 1 .. k - 1 : z[i] = x[i]
      <3> HIDE DEF x
      <3>1. Name(k) \in T
        BY <1>2
      <3>2. /\ z \in Seq(T) /\ Len(z) = Len(x) + 1 /\ z[Len(x) + 1] = Name(k)
            /\ \A i \in 1 .. Len(x) : z[i] = x[i]
        BY <1>6, <3>1, AppendProperties
      <3> QED
        BY <1>1, <1>6, <3>2
    <2>6. \A i \in 1 .. k - 1 : x[i] = Name(i)
      OBVIOUS
    <2>7. \A i \in 1 .. k : y[i] = Name(i)
      OBVIOUS
    <2> HIDE DEF x, y, z
    <2>8. \A i \in 1 .. k : z[i] = y[i]
      BY <1>1, <2>5, <2>6, <2>7
    <2>9. z = y
      BY <2>2, <2>4, <2>5, <2>8, SeqEqual
    <2> QED
      BY <2>9 DEF z
  <1>8. Without(y, Hidden)
          = IF Name(k) \in Hidden THEN Without(x, Hidden) ELSE Append(Without(x, Hidden), Name(k))
    <2>1. x \in Seq(T) /\ Name(k) \in T
      BY <1>2, <1>6
    <2> HIDE DEF x, y
    <2>2. Without(Append(x, Name(k)), Hidden)
            = IF Name(k) \in Hidden THEN Without(x, Hidden) ELSE Append(Without(x, Hidden), Name(k))
      BY <2>1, WithoutStep
    <2> QED
      BY <1>7, <2>2
  <1> QED
    BY <1>3, <1>4, <1>5, <1>8

-----------------------------------------------------------------------------
(* A file, read by read                                                     *)

\* A read continues the bytes read so far, up to the one behind the end, and
\* finds none only there.
LEMMA ReadContinues ==
  ASSUME NEW inode \in DOMAIN inode_head, NEW p \in Nat, NEW n \in Nat, n # 0,
         p <= inode_head[inode].length + 1
  PROVE  LET data == read_data(inode, p, n)
         IN  /\ IsString(data)
             /\ p + Len(data) <= inode_head[inode].length + 1
             /\ Len(data) = 0 => p = inode_head[inode].length + 1
             /\ Bytes(inode, p) \o data = Bytes(inode, p + Len(data))
  <1> DEFINE data == read_data(inode, p, n)
             size == inode_head[inode].length
             nums == inode_head[inode].datablock_nums
             k == BytesRead(inode, p, n)
             byte(i) == data_blocks[FirstCursor(nums, i).cur]
  <1>1. size \in Nat
    BY ImageAssumption
  <1>2. /\ k \in 0 .. n /\ (k = n \/ k + p > size)
        /\ \A j \in 0 .. k - 1 : j + p <= size
    BY BytesReadIs
  <1>3. data = [i \in 1 .. k |-> data_blocks[Cursor(inode, p, n)[i - 1].cur]]
    BY DEF read_data
  <1>4. \A i \in Nat : i < n /\ p + i <= size =>
          Cursor(inode, p, n)[i] = FirstCursor(nums, p + i)
    BY CursorIs
  <1>5. \A m : Bytes(inode, m) = [i \in 1 .. m |-> byte(i - 1)]
    BY DEF Bytes
  <1>6. p <= size + 1
    OBVIOUS
  <1> HIDE DEF data, size, nums, k
  <1>7. k \in Nat /\ p + k \in Nat
    BY <1>2
  <1>8. data = [i \in 1 .. k |-> byte(p + (i - 1))]
    <2>1. ASSUME NEW i \in 1 .. k
          PROVE  data_blocks[Cursor(inode, p, n)[i - 1].cur] = byte(p + (i - 1))
      <3>1. i - 1 \in Nat /\ i - 1 \in 0 .. k - 1 /\ i - 1 < n
        BY <1>2, <1>7
      <3>2. p + (i - 1) <= size
        BY <1>2, <3>1
      <3> QED
        BY <1>4, <3>1, <3>2
    <2> HIDE DEF byte
    <2> QED
      BY <1>3, <2>1
  <1> HIDE DEF byte
  <1>9. data = [i \in 1 .. k |-> data[i]]
    BY <1>8
  <1>10. IsString(data) /\ Len(data) = k
    BY <1>7, <1>9, Filled
  <1>11. p + k <= size + 1
    <2>1. CASE k = 0
      BY <1>1, <1>6, <2>1
    <2>2. CASE k # 0
      <3>1. k - 1 \in 0 .. k - 1
        BY <1>7, <2>2
      <3>2. k - 1 + p <= size
        BY <1>2, <3>1
      <3> QED
        BY <1>1, <1>7, <3>2
    <2> QED
      BY <2>1, <2>2
  <1>12. k = 0 => p = size + 1
    BY <1>1, <1>2, <1>6
  <1>13. Bytes(inode, p) \o data = Bytes(inode, p + k)
    <2> DEFINE T == {byte(i) : i \in Nat}
               x == Bytes(inode, p)
               y == Bytes(inode, p + k)
    <2>1. \A m \in Nat : Bytes(inode, m) \in [1 .. m -> T]
      <3> TAKE m \in Nat
      <3>1. \A i \in 1 .. m : i - 1 \in Nat
        OBVIOUS
      <3>2. \A i \in 1 .. m : byte(i - 1) \in T
        BY <3>1
      <3> HIDE DEF T
      <3> QED
        BY <1>5, <3>2
    <2>2. data \in [1 .. k -> T]
      <3>1. \A i \in 1 .. k : p + (i - 1) \in Nat
        BY <1>7
      <3>2. \A i \in 1 .. k : byte(p + (i - 1)) \in T
        BY <3>1
      <3> HIDE DEF T
      <3> QED
        BY <1>8, <3>2
    <2> HIDE DEF T
    <2>3. \A m \in Nat : \A s \in [1 .. m -> T] : s \in Seq(T) /\ Len(s) = m
      <3> TAKE m \in Nat
      <3> TAKE s \in [1 .. m -> T]
      <3>1. s \in Seq(T)
        BY SeqDef
      <3>2. DOMAIN s = 1 .. m /\ DOMAIN s = 1 .. Len(s) /\ Len(s) \in Nat
        BY <3>1, LenProperties
      <3> QED
        BY <3>1, <3>2
    <2>4. x \in Seq(T) /\ Len(x) = p /\ data \in Seq(T) /\ Len(data) = k
            /\ y \in Seq(T) /\ Len(y) = p + k
      BY <1>7, <2>1, <2>2, <2>3
    <2>5. \A i \in 1 .. p : x[i] = byte(i - 1)
      BY <1>5
    <2>6. \A i \in 1 .. p + k : y[i] = byte(i - 1)
      BY <1>5
    <2>7. \A i \in 1 .. k : data[i] = byte(p + (i - 1))
      BY <1>8
    <2> HIDE DEF x, y
    <2>8. /\ x \o data \in Seq(T) /\ Len(x \o data) = p + k
          /\ \A i \in 1 .. p + k : (x \o data)[i] = IF i <= p THEN x[i] ELSE data[i - p]
      BY <1>7, <2>4, ConcatProperties
    <2>9. ASSUME NEW i \in 1 .. p + k PROVE (x \o data)[i] = y[i]
      <3>1. CASE i <= p
        BY <1>7, <2>5, <2>6, <2>8, <3>1
      <3>2. CASE ~(i <= p)
        <4>1. i - p \in 1 .. k /\ p + ((i - p) - 1) = i - 1
          BY <1>7, <3>2
        <4>2. data[i - p] = byte(i - 1)
          BY <2>7, <4>1
        <4> QED
          BY <2>6, <2>8, <3>2, <4>2
      <3> QED
        BY <3>1, <3>2
    <2>10. x \o data = y
      BY <2>4, <2>8, <2>9, SeqEqual
    <2> QED
      BY <2>10 DEF x, y
  <1> QED
    BY <1>10, <1>11, <1>12, <1>13 DEF data, size

\* What is printed of a string and its continuation.
LEMMA ShownConcat ==
  ASSUME NEW s, IsString(s), NEW z, IsString(z)
  PROVE  Shown(s \o z) = Shown(s) \o Shown(z)
  <1> DEFINE S == {s[i] : i \in 1 .. Len(s)}
             Z == {z[i] : i \in 1 .. Len(z)}
  <1>1. s \in Seq(S) /\ z \in Seq(Z)
    BY StringIsSequence
  <1> HIDE DEF S, Z
  <1>2. S \subseteq S \cup Z /\ Z \subseteq S \cup Z
    OBVIOUS
  <1>3. s \in Seq(S \cup Z) /\ z \in Seq(S \cup Z)
    BY <1>1, <1>2, SeqMonotonic
  <1> QED
    BY <1>3, WithoutConcat DEF Shown

\* All the bytes: the file, and the one behind its end unless that is a NUL.
LEMMA ShownWhole ==
  ASSUME NEW inode \in DOMAIN inode_head
  PROVE  LET text == Shown(Contents(inode))
             whole == Shown(Bytes(inode, inode_head[inode].length + 1))
         IN  \/ whole = text
             \/ \E c \in {data_blocks[a] : a \in DOMAIN data_blocks} : whole = Append(text, c)
  <1> DEFINE size == inode_head[inode].length
             nums == inode_head[inode].datablock_nums
             byte(i) == data_blocks[FirstCursor(nums, i).cur]
             x == Contents(inode)
             y == Bytes(inode, size + 1)
             T == {byte(i) : i \in Nat}
  <1>1. size \in Nat /\ BLOCK_SIZE \in Nat \ {0}
    BY ImageAssumption, FilesAssumption
  <1>2. x = [i \in 1 .. size |-> byte(i - 1)]
    BY DEF Contents, FirstCursor
  <1>3. y = [i \in 1 .. size + 1 |-> byte(i - 1)]
    BY DEF Bytes
  <1>4. byte(size) \in {data_blocks[a] : a \in DOMAIN data_blocks}
    <2> DEFINE q == size \div BLOCK_SIZE
               r == size % BLOCK_SIZE
    <2>1. q \in 0 .. size \div BLOCK_SIZE /\ r \in 0 .. BLOCK_SIZE - 1
      <3>1. q \in Nat /\ r \in 0 .. BLOCK_SIZE - 1
        BY <1>1, PlaceIs
      <3> QED
        BY <3>1
    <2>2. BLOCK_SIZE * nums[q] + r \in DOMAIN data_blocks
      BY <2>1, ImageAssumption
    <2>3. FirstCursor(nums, size).cur = BLOCK_SIZE * nums[q] + r
      BY DEF FirstCursor
    <2> QED
      BY <2>2, <2>3
  <1>5. \A i \in 1 .. size + 1 : byte(i - 1) \in T
    <2>1. \A i \in 1 .. size + 1 : i - 1 \in Nat
      BY <1>1
    <2> QED
      BY <2>1
  <1>6. size + 1 - 1 = size /\ size + 1 \in 1 .. size + 1 /\ size + 1 \in Nat
    BY <1>1
  <1>0. byte(size) \in T
    BY <1>1
  <1> HIDE DEF size, byte, x, y, T
  <1>7. x \in Seq(T) /\ Len(x) = size
    <2>1. x \in [1 .. size -> T]
      BY <1>1, <1>2, <1>5
    <2>2. x \in Seq(T)
      BY <1>1, <2>1, SeqDef
    <2>3. DOMAIN x = 1 .. size /\ DOMAIN x = 1 .. Len(x) /\ Len(x) \in Nat
      BY <2>1, <2>2, LenProperties
    <2> QED
      BY <1>1, <2>2, <2>3
  <1>8. y \in Seq(T) /\ Len(y) = size + 1
    <2>1. y \in [1 .. size + 1 -> T]
      BY <1>3, <1>5
    <2>2. y \in Seq(T)
      BY <1>6, <2>1, SeqDef
    <2>3. DOMAIN y = 1 .. size + 1 /\ DOMAIN y = 1 .. Len(y) /\ Len(y) \in Nat
      BY <2>1, <2>2, LenProperties
    <2> QED
      BY <1>1, <2>2, <2>3
  <1> DEFINE e == byte(size)
             z == Append(x, e)
  <1>9. e \in T
    BY <1>0
  <1>10. y = z
    <2>1. /\ z \in Seq(T) /\ Len(z) = size + 1 /\ z[size + 1] = e
          /\ \A i \in 1 .. size : z[i] = x[i]
      BY <1>7, <1>9, AppendProperties
    <2>2. \A i \in 1 .. size + 1 : z[i] = y[i]
      <3> TAKE i \in 1 .. size + 1
      <3>1. CASE i = size + 1
        <4>1. y[i] = byte(i - 1)
          BY <1>3
        <4>2. i - 1 = size
          BY <1>1, <1>6, <3>1
        <4>3. y[i] = byte(size)
          BY <4>1, <4>2
        <4> QED
          BY <2>1, <3>1, <4>3
      <3>2. CASE i # size + 1
        <4>1. i \in 1 .. size
          BY <1>1, <3>2
        <4> QED
          BY <1>2, <1>3, <2>1, <4>1
      <3> QED
        BY <3>1, <3>2
    <2> HIDE DEF z
    <2> QED
      BY <1>8, <2>1, <2>2, SeqEqual
  <1>11. Shown(z) = IF e \in {NUL} THEN Shown(x) ELSE Append(Shown(x), e)
    BY <1>7, <1>9, WithoutStep DEF Shown
  <1> HIDE DEF e, z
  <1>12. Shown(y) = Shown(x) \/ Shown(y) = Append(Shown(x), e)
    BY <1>10, <1>11
  <1>13. e \in {data_blocks[a] : a \in DOMAIN data_blocks}
    BY <1>4 DEF e
  <1> QED
    BY <1>12, <1>13 DEF x, y, size

-----------------------------------------------------------------------------
(* The calls of one terminal                                                *)

\* f becomes g, at t only.
OnlyAt(t, f, g) == DOMAIN g = Terminals /\ \A u \in Terminals \ {t} : g[u] = f[u]

\* What a call on terminal t leaves to the other terminals.
CallAlone(t) ==
  /\ OnlyAt(t, file_desc_array, file_desc_array') /\ OnlyAt(t, read_dir_flag, read_dir_flag')
  /\ OnlyAt(t, ret, ret') /\ OnlyAt(t, buf, buf') /\ OnlyAt(t, printed, printed')

ReadyInv == UserInv /\ DOMAIN read_dir_flag = Terminals /\ DOMAIN printed = Terminals

LEMMA OnlyAtIs ==
  ASSUME NEW t \in Terminals, NEW f, DOMAIN f = Terminals, NEW g,
         g = f \/ \E v : g = [f EXCEPT ![t] = v]
  PROVE  OnlyAt(t, f, g)
  <1> QED
    BY DEF OnlyAt

LEMMA ReadyDomains ==
  ASSUME ReadyInv
  PROVE  /\ DOMAIN file_desc_array = Terminals /\ DOMAIN read_dir_flag = Terminals
         /\ DOMAIN ret = Terminals /\ DOMAIN buf = Terminals /\ DOMAIN printed = Terminals
         /\ DOMAIN proc = Terminals /\ DOMAIN argument_array = Terminals
         /\ \A t \in Terminals : file_desc_array[t] \in [FDs -> Descriptors]
  <1> QED
    BY DEF ReadyInv, UserInv, FilesInv, DescriptorsInv, BuffersInv, ProcessesInv, ArgumentsInv

\* A descriptor's operation table in table d.
OpsIn(d, fd) == IF fd \in FDs /\ d[fd].flags = 1 THEN d[fd].file_ops_table ELSE "none"

\* What each call does to the terminal's own values.
OpenRel(d, name, d2, r2) ==
  \/ /\ r2 = -1 /\ d2 = d
     /\ Matches(name) = {} \/ \A g \in OpenFDs : d[g].flags = 1
  \/ /\ Matches(name) # {} /\ r2 \in OpenFDs /\ d[r2].flags # 1
     /\ \A g \in OpenFDs : g < r2 => d[g].flags = 1
     /\ LET dentry == read_dentry_by_name(name)
        IN  d2 = [d EXCEPT ![r2] = Desc(dentry.file_type, InodeOf(dentry, name))]

CloseRel(d, fd, d2, r2) ==
  IF fd \in OpenFDs /\ d[fd].flags = 1
    THEN d2 = [d EXCEPT ![fd].flags = 0] /\ r2 = 0
    ELSE d2 = d /\ r2 = -1

ReadRel(d, k, b, fd, n, d2, k2, b2, r2) ==
  \/ LET data == read_data(d[fd].inode, d[fd].file_position, n)
     IN  /\ OpsIn(d, fd) = "file" /\ n > 0
         /\ d2 = [d EXCEPT ![fd].file_position = @ + Len(data)]
         /\ k2 = k /\ b2 = data /\ r2 = Len(data)
  \/ /\ OpsIn(d, fd) = "directory" /\ d2 = d
     /\ IF k >= entries THEN k2 = 0 /\ b2 = b /\ r2 = 0
                        ELSE k2 = k + 1 /\ b2 = EntryRead(k + 1) /\ r2 = FILENAME_LEN
  \/ OpsIn(d, fd) = "rtc" /\ d2 = d /\ k2 = k /\ b2 = b /\ r2 = 0
  \/ (n <= 0 \/ OpsIn(d, fd) \in {"none", "stdout"}) /\ d2 = d /\ k2 = k /\ b2 = b /\ r2 = -1

WriteRel(d, o, fd, data, o2, r2) ==
  \/ OpsIn(d, fd) = "stdout" /\ data # << >> /\ o2 = o \o Shown(data) /\ r2 = Len(Shown(data))
  \/ (data = << >> \/ OpsIn(d, fd) \notin {"stdout", "rtc"}) /\ o2 = o /\ r2 = -1

LEMMA OpenAt ==
  ASSUME ReadyInv, NEW t \in Terminals, NEW name, sys_open(t, name)
  PROVE  /\ CallAlone(t)
         /\ OpenRel(file_desc_array[t], name, file_desc_array'[t], ret'[t])
         /\ read_dir_flag'[t] = read_dir_flag[t] /\ buf'[t] = buf[t] /\ printed'[t] = printed[t]
  <1> DEFINE d == file_desc_array[t]
  <1>1. /\ DOMAIN file_desc_array = Terminals /\ DOMAIN read_dir_flag = Terminals
        /\ DOMAIN ret = Terminals /\ DOMAIN buf = Terminals /\ DOMAIN printed = Terminals
    BY ReadyDomains
  <1>2. UNCHANGED <<read_dir_flag, buf, printed>>
    BY DEF sys_open, OpenFails, OpenSucceeds
  <1>3. FILE_DESC_ARR_SIZE \in Nat
    BY FilesAssumption
  <1>4. FreeFDs(t) = {g \in OpenFDs : d[g].flags # 1}
    BY DEF FreeFDs, OpenFDs
  <1>5. CASE OpenFails(t, name)
    <2>1. ret' = [ret EXCEPT ![t] = -1] /\ file_desc_array' = file_desc_array
      BY <1>5 DEF OpenFails, Returns
    <2>2. Matches(name) = {} \/ \A g \in OpenFDs : d[g].flags = 1
      BY <1>4, <1>5 DEF OpenFails
    <2>3. CallAlone(t)
      BY <1>1, <1>2, <2>1, OnlyAtIs DEF CallAlone
    <2> QED
      BY <1>1, <1>2, <2>1, <2>2, <2>3 DEF OpenRel
  <1>6. CASE OpenSucceeds(t, name)
    <2> DEFINE S == FreeFDs(t)
               First(f) == \A g \in S : f <= g
               fd == CHOOSE f \in S : First(f)
               dentry == read_dentry_by_name(name)
               new == Desc(dentry.file_type, InodeOf(dentry, name))
               d2 == [d EXCEPT ![fd] = new]
    <2>1. /\ S # {} /\ Matches(name) # {}
          /\ file_desc_array' = [file_desc_array EXCEPT ![t][fd] = new]
          /\ ret' = [ret EXCEPT ![t] = fd]
      BY <1>6 DEF OpenSucceeds, Returns
    <2>2. S \in SUBSET Nat
      BY <1>3, <1>4 DEF OpenFDs
    <2>3. PICK f \in S : \A g \in S : ~(g < f)
      BY <2>1, <2>2, LeastNumber
    <2>4. First(f)
      BY <2>2, <2>3
    <2> HIDE DEF First, S
    <2>5. fd \in S /\ First(fd)
      BY <2>4
    <2>6. fd \in OpenFDs /\ d[fd].flags # 1 /\ \A g \in OpenFDs : g < fd => d[g].flags = 1
      <3>1. \A g \in OpenFDs : g \in Nat
        BY <1>3 DEF OpenFDs
      <3> QED
        BY <1>4, <2>5, <3>1 DEF First, S
    <2> HIDE DEF fd, new
    <2>7. file_desc_array' = [file_desc_array EXCEPT ![t] = d2]
      BY <2>1
    <2>8. file_desc_array'[t] = d2 /\ ret'[t] = fd
      BY <1>1, <2>1, <2>7
    <2>9. CallAlone(t)
      <3> HIDE DEF d2
      <3> QED
        BY <1>1, <1>2, <2>1, <2>7, OnlyAtIs DEF CallAlone
    <2>10. OpenRel(d, name, d2, fd)
      BY <2>1, <2>6 DEF OpenRel, new
    <2> QED
      BY <1>2, <2>8, <2>9, <2>10
  <1> QED
    BY <1>5, <1>6 DEF sys_open

LEMMA CloseAt ==
  ASSUME ReadyInv, NEW t \in Terminals, NEW fd, sys_close(t, fd)
  PROVE  /\ CallAlone(t) /\ CloseRel(file_desc_array[t], fd, file_desc_array'[t], ret'[t])
         /\ read_dir_flag'[t] = read_dir_flag[t] /\ buf'[t] = buf[t] /\ printed'[t] = printed[t]
  <1> DEFINE d == file_desc_array[t]
             d2 == [d EXCEPT ![fd].flags = 0]
  <1>1. /\ DOMAIN file_desc_array = Terminals /\ DOMAIN read_dir_flag = Terminals
        /\ DOMAIN ret = Terminals /\ DOMAIN buf = Terminals /\ DOMAIN printed = Terminals
    BY ReadyDomains
  <1>2. UNCHANGED <<read_dir_flag, buf, printed>>
    BY DEF sys_close, BadDescriptor
  <1>3. Active(t, fd) /\ fd >= 2 <=> fd \in OpenFDs /\ d[fd].flags = 1
    BY FilesAssumption DEF Active, OpenFDs, FDs
  <1>4. CASE fd \in OpenFDs /\ d[fd].flags = 1
    <2>1. /\ file_desc_array' = [file_desc_array EXCEPT ![t] = d2]
          /\ ret' = [ret EXCEPT ![t] = 0]
      BY <1>3, <1>4 DEF sys_close, Returns
    <2>2. file_desc_array'[t] = d2 /\ ret'[t] = 0
      BY <1>1, <2>1
    <2>3. CloseRel(d, fd, d2, 0)
      BY <1>4 DEF CloseRel
    <2> HIDE DEF d2
    <2>4. CallAlone(t)
      BY <1>1, <1>2, <2>1, OnlyAtIs DEF CallAlone
    <2> QED
      BY <1>2, <2>2, <2>3, <2>4
  <1>5. CASE ~(fd \in OpenFDs /\ d[fd].flags = 1)
    <2>1. file_desc_array' = file_desc_array /\ ret' = [ret EXCEPT ![t] = -1]
      BY <1>3, <1>5 DEF sys_close, BadDescriptor, Returns
    <2>2. file_desc_array'[t] = d /\ ret'[t] = -1
      BY <1>1, <2>1
    <2>3. CloseRel(d, fd, d, -1)
      BY <1>5 DEF CloseRel
    <2>4. CallAlone(t)
      BY <1>1, <1>2, <2>1, OnlyAtIs DEF CallAlone
    <2> QED
      BY <1>2, <2>2, <2>3, <2>4
  <1> QED
    BY <1>4, <1>5

LEMMA ReadAt ==
  ASSUME ReadyInv, NEW t \in Terminals, NEW fd, NEW n, sys_read(t, fd, n)
  PROVE  /\ CallAlone(t) /\ printed'[t] = printed[t]
         /\ ReadRel(file_desc_array[t], read_dir_flag[t], buf[t], fd, n,
                    file_desc_array'[t], read_dir_flag'[t], buf'[t], ret'[t])
  <1> DEFINE d == file_desc_array[t]
             k == read_dir_flag[t]
             b == buf[t]
  <1>1. /\ DOMAIN file_desc_array = Terminals /\ DOMAIN read_dir_flag = Terminals
        /\ DOMAIN ret = Terminals /\ DOMAIN buf = Terminals /\ DOMAIN printed = Terminals
    BY ReadyDomains
  <1>2. Ops(t, fd) = OpsIn(d, fd)
    BY DEF Ops, OpsIn, Active
  <1>3. ASSUME NEW d2, NEW k2, NEW b2, NEW r2,
               (file_desc_array' = file_desc_array /\ d2 = d)
                 \/ file_desc_array' = [file_desc_array EXCEPT ![t] = d2],
               (read_dir_flag' = read_dir_flag /\ k2 = k)
                 \/ read_dir_flag' = [read_dir_flag EXCEPT ![t] = k2],
               (buf' = buf /\ b2 = b) \/ buf' = [buf EXCEPT ![t] = b2],
               ret' = [ret EXCEPT ![t] = r2], printed' = printed,
               ReadRel(d, k, b, fd, n, d2, k2, b2, r2)
        PROVE  /\ CallAlone(t) /\ printed'[t] = printed[t]
               /\ ReadRel(d, k, b, fd, n,
                          file_desc_array'[t], read_dir_flag'[t], buf'[t], ret'[t])
    <2>1. /\ file_desc_array'[t] = d2 /\ read_dir_flag'[t] = k2
          /\ buf'[t] = b2 /\ ret'[t] = r2
      BY <1>1, <1>3
    <2>2. CallAlone(t)
      BY <1>1, <1>3, OnlyAtIs DEF CallAlone
    <2> QED
      BY <1>3, <2>1, <2>2
  <1>4. CASE ReadFile(t, fd, n)
    <2> DEFINE data == read_data(d[fd].inode, d[fd].file_position, n)
               d2 == [d EXCEPT ![fd].file_position = @ + Len(data)]
    <2>1. /\ file_desc_array' = [file_desc_array EXCEPT ![t] = d2]
          /\ read_dir_flag' = read_dir_flag /\ buf' = [buf EXCEPT ![t] = data]
          /\ ret' = [ret EXCEPT ![t] = Len(data)] /\ printed' = printed
      BY <1>4 DEF ReadFile, Returns
    <2>2. ReadRel(d, k, b, fd, n, d2, k, data, Len(data))
      BY <1>2, <1>4 DEF ReadRel, ReadFile
    <2> HIDE DEF d2, data
    <2> QED
      BY <1>3, <2>1, <2>2
  <1>5. CASE ReadDirectory(t, fd, n) /\ k >= entries
    <2>1. /\ file_desc_array' = file_desc_array /\ buf' = buf
          /\ read_dir_flag' = [read_dir_flag EXCEPT ![t] = 0]
          /\ ret' = [ret EXCEPT ![t] = 0] /\ printed' = printed
      BY <1>5 DEF ReadDirectory, Returns
    <2>2. ReadRel(d, k, b, fd, n, d, 0, b, 0)
      BY <1>2, <1>5 DEF ReadRel, ReadDirectory
    <2> QED
      BY <1>3, <2>1, <2>2
  <1>6. CASE ReadDirectory(t, fd, n) /\ ~(k >= entries)
    <2> DEFINE e == EntryRead(k + 1)
    <2>1. /\ file_desc_array' = file_desc_array /\ buf' = [buf EXCEPT ![t] = e]
          /\ read_dir_flag' = [read_dir_flag EXCEPT ![t] = k + 1]
          /\ ret' = [ret EXCEPT ![t] = FILENAME_LEN] /\ printed' = printed
      BY <1>6 DEF ReadDirectory, Returns, EntryRead
    <2>2. ReadRel(d, k, b, fd, n, d, k + 1, e, FILENAME_LEN)
      BY <1>2, <1>6 DEF ReadRel, ReadDirectory
    <2> HIDE DEF e
    <2> QED
      BY <1>3, <2>1, <2>2
  <1>7. CASE ReadRtc(t, fd, n)
    <2>1. /\ file_desc_array' = file_desc_array /\ buf' = buf
          /\ read_dir_flag' = read_dir_flag
          /\ ret' = [ret EXCEPT ![t] = 0] /\ printed' = printed
      BY <1>7 DEF ReadRtc, Returns
    <2>2. ReadRel(d, k, b, fd, n, d, k, b, 0)
      BY <1>2, <1>7 DEF ReadRel, ReadRtc
    <2> QED
      BY <1>3, <2>1, <2>2
  <1>8. CASE ReadFails(t, fd, n)
    <2>1. /\ file_desc_array' = file_desc_array /\ buf' = buf
          /\ read_dir_flag' = read_dir_flag
          /\ ret' = [ret EXCEPT ![t] = -1] /\ printed' = printed
      BY <1>8 DEF ReadFails, BadDescriptor, Returns
    <2>2. ReadRel(d, k, b, fd, n, d, k, b, -1)
      BY <1>2, <1>8 DEF ReadRel, ReadFails
    <2> QED
      BY <1>3, <2>1, <2>2
  <1> QED
    BY <1>4, <1>5, <1>6, <1>7, <1>8 DEF sys_read

LEMMA WriteAt ==
  ASSUME ReadyInv, NEW t \in Terminals, NEW fd, NEW data, sys_write(t, fd, data)
  PROVE  /\ CallAlone(t) /\ file_desc_array'[t] = file_desc_array[t]
         /\ read_dir_flag'[t] = read_dir_flag[t] /\ buf'[t] = buf[t]
         /\ WriteRel(file_desc_array[t], printed[t], fd, data, printed'[t], ret'[t])
  <1> DEFINE d == file_desc_array[t]
             o == printed[t]
  <1>1. /\ DOMAIN file_desc_array = Terminals /\ DOMAIN read_dir_flag = Terminals
        /\ DOMAIN ret = Terminals /\ DOMAIN buf = Terminals /\ DOMAIN printed = Terminals
    BY ReadyDomains
  <1>2. Ops(t, fd) = OpsIn(d, fd)
    BY DEF Ops, OpsIn, Active
  <1>3. UNCHANGED <<file_desc_array, read_dir_flag, buf>>
    BY DEF sys_write, WriteTerminal, WriteFails, BadDescriptor
  <1>4. CASE WriteTerminal(t, fd, data)
    <2> DEFINE o2 == o \o Shown(data)
               r2 == Len(Shown(data))
    <2>1. printed' = [printed EXCEPT ![t] = o2] /\ ret' = [ret EXCEPT ![t] = r2]
      BY <1>4 DEF WriteTerminal, Returns
    <2>2. WriteRel(d, o, fd, data, o2, r2)
      BY <1>2, <1>4 DEF WriteRel, WriteTerminal
    <2> HIDE DEF o2, r2
    <2>3. printed'[t] = o2 /\ ret'[t] = r2
      BY <1>1, <2>1
    <2>4. CallAlone(t)
      BY <1>1, <1>3, <2>1, OnlyAtIs DEF CallAlone
    <2> QED
      BY <1>3, <2>2, <2>3, <2>4
  <1>5. CASE WriteFails(t, fd, data)
    <2>1. printed' = printed /\ ret' = [ret EXCEPT ![t] = -1]
      BY <1>5 DEF WriteFails, BadDescriptor, Returns
    <2>2. WriteRel(d, o, fd, data, o, -1)
      BY <1>2, <1>5 DEF WriteRel, WriteFails
    <2>3. printed'[t] = o /\ ret'[t] = -1
      BY <1>1, <2>1
    <2>4. CallAlone(t)
      BY <1>1, <1>3, <2>1, OnlyAtIs DEF CallAlone
    <2> QED
      BY <1>3, <2>2, <2>3, <2>4
  <1> QED
    BY <1>4, <1>5 DEF sys_write

LEMMA GetargsAt ==
  ASSUME ReadyInv, NEW t \in Terminals, sys_getargs(t)
  PROVE  /\ CallAlone(t) /\ file_desc_array'[t] = file_desc_array[t]
         /\ read_dir_flag'[t] = read_dir_flag[t] /\ printed'[t] = printed[t]
         /\ ret'[t] = 0 => buf'[t] = argument_array[t]
  <1>1. /\ DOMAIN file_desc_array = Terminals /\ DOMAIN read_dir_flag = Terminals
        /\ DOMAIN ret = Terminals /\ DOMAIN buf = Terminals /\ DOMAIN printed = Terminals
    BY ReadyDomains
  <1>2. UNCHANGED <<file_desc_array, read_dir_flag, printed>>
    BY DEF sys_getargs
  <1>3. CASE arg_flag[t] = 0
    <2>1. ret' = [ret EXCEPT ![t] = -1] /\ buf' = buf
      BY <1>3 DEF sys_getargs, Returns
    <2>2. CallAlone(t)
      BY <1>1, <1>2, <2>1, OnlyAtIs DEF CallAlone
    <2>3. ret'[t] # 0
      BY <1>1, <2>1
    <2> QED
      BY <1>2, <2>2, <2>3
  <1>4. CASE arg_flag[t] # 0
    <2>1. ret' = [ret EXCEPT ![t] = 0] /\ buf' = [buf EXCEPT ![t] = argument_array[t]]
      BY <1>4 DEF sys_getargs, Returns
    <2> QED
      BY <1>1, <1>2, <2>1, OnlyAtIs DEF CallAlone
  <1> QED
    BY <1>3, <1>4

-----------------------------------------------------------------------------
(* The steps of the programs, one by one                                    *)

\* What a step of terminal t's program does: the rest stays, and its own state
\* is right afterwards.
Alone(t) ==
  CallAlone(t) /\ OnlyAt(t, proc, proc') /\ OnlyAt(t, argument_array, argument_array')
Kept(t) == Alone(t) /\ OKAt(t)'

\* p becomes p2, but for what syserr counts and grep finds.
Moved(p, p2, pc, fd) ==
  /\ p2.program = p.program /\ p2.pc = pc /\ p2.fd = fd
  /\ p2.file = p.file /\ p2.searched = p.searched

LEMMA MovedIs ==
  ASSUME NEW r, IsProcess(r), NEW pc, NEW fd
  PROVE  /\ Moved(r, [r EXCEPT !.pc = pc], pc, r.fd)
         /\ Moved(r, [r EXCEPT !.fd = fd, !.pc = pc], pc, fd)
         /\ [r EXCEPT !.pc = pc].calls = r.calls /\ [r EXCEPT !.pc = pc].cnt = r.cnt
         /\ [r EXCEPT !.pc = pc].fail = r.fail
  <1>1. PICK S : r \in ProcessRecords(S)
    BY DEF IsProcess
  <1> QED
    BY <1>1 DEF ProcessRecords, Moved

LEMMA GotoAt ==
  ASSUME ReadyInv, NEW t \in Terminals, NEW pc, Goto(t, pc)
  PROVE  OnlyAt(t, proc, proc') /\ Moved(proc[t], proc'[t], pc, proc[t].fd)
  <1> DEFINE r == [proc[t] EXCEPT !.pc = pc]
  <1>1. DOMAIN proc = Terminals /\ IsProcess(proc[t])
    BY DEF ReadyInv, UserInv, ProcessesInv
  <1>2. Moved(proc[t], r, pc, proc[t].fd)
    BY <1>1, MovedIs
  <1>3. proc' = [proc EXCEPT ![t] = r]
    BY DEF Goto
  <1> HIDE DEF r
  <1>4. proc'[t] = r
    BY <1>1, <1>3
  <1> QED
    BY <1>1, <1>2, <1>3, <1>4, OnlyAtIs

LEMMA OpenGotoAt ==
  ASSUME ReadyInv, NEW t \in Terminals, NEW pc, NEW fd,
         proc' = [proc EXCEPT ![t].fd = fd, ![t].pc = pc]
  PROVE  OnlyAt(t, proc, proc') /\ Moved(proc[t], proc'[t], pc, fd)
  <1> DEFINE r == [proc[t] EXCEPT !.fd = fd, !.pc = pc]
  <1>1. DOMAIN proc = Terminals /\ IsProcess(proc[t])
    BY DEF ReadyInv, UserInv, ProcessesInv
  <1>2. Moved(proc[t], r, pc, fd)
    BY <1>1, MovedIs
  <1>3. proc' = [proc EXCEPT ![t] = r]
    BY <1>1
  <1> HIDE DEF r
  <1>4. proc'[t] = r
    BY <1>1, <1>3
  <1> QED
    BY <1>1, <1>2, <1>3, <1>4, OnlyAtIs

LEMMA ArgumentKept ==
  ASSUME ReadyInv, NEW t \in Terminals, UNCHANGED kernelVars
  PROVE  OnlyAt(t, argument_array, argument_array') /\ argument_array'[t] = argument_array[t]
  <1>1. argument_array' = argument_array
    BY DEF kernelVars
  <1> QED
    BY <1>1, ReadyDomains DEF OnlyAt

\* A program that starts, with a new table, at the start of the directory.
LEMMA StartOK ==
  ASSUME NEW program, NEW r, NEW b, NEW arg
  PROVE  ProgramOK(Start(program), NewTable, 0, r, b, << >>, arg)
  <1> DEFINE p == Start(program)
             d == NewTable
  <1>1. /\ p.program = program /\ (program # "shell" => p.pc = "start")
        /\ p.searched = << >> /\ p.calls = 0 /\ p.cnt = 0 /\ p.fail = FALSE
    BY DEF Start, Process
  <1>2. FILE_DESC_ARR_SIZE \in Nat /\ FILE_DESC_ARR_SIZE >= 2
    BY FilesAssumption
  <1>3. Standard(d) /\ \A g \in OpenFDs : d[g].flags # 1
    BY <1>2 DEF NewTable, Standard, OpenFDs, FDs, Desc, Closed
  <1>4. AnyOK(d)
    BY <1>2 DEF NewTable, AnyOK, FDs, Desc, Closed
  <1> HIDE DEF p, d
  <1>5. program = "syserr" => SysErrOK(p, d)
    <2> SUFFICES ASSUME program = "syserr" PROVE SysErrOK(p, d)
      OBVIOUS
    <2>1. ~p.fail
      BY <1>1
    <2>2. \A g \in OpenFDs : ~(g < p.calls - 4)
      BY <1>1, <1>2 DEF OpenFDs
    <2>3. p.cnt = IF p.calls >= FILE_DESC_ARR_SIZE + 5 THEN 1 ELSE 0
      BY <1>1, <1>2
    <2>4. p.pc = "start"
      BY <1>1
    <2> QED
      BY <1>3, <2>1, <2>2, <2>3, <2>4 DEF SysErrOK
  <1>6. program = "ls" => LsOK(p, d, 0, r, b, << >>)
    BY <1>1 DEF LsOK, d
  <1>7. program = "grep" => GrepOK(p, d, 0, b)
    BY <1>1 DEF GrepOK, d
  <1>8. program = "cat" => CatOK(p, d, 0, b, << >>, arg)
    BY <1>1 DEF CatOK, d
  <1>9. ProgramOK(p, d, 0, r, b, << >>, arg)
    BY <1>1, <1>4, <1>5, <1>6, <1>7, <1>8 DEF ProgramOK
  <1> QED
    BY <1>9 DEF p, d

\* For a shell only the directory position matters.
LEMMA ShellOK ==
  ASSUME NEW p, p.program = "shell", NEW d, NEW k, k = 0, NEW r, NEW b, NEW o, NEW arg
  PROVE  ProgramOK(p, d, k, r, b, o, arg)
  <1> QED
    BY DEF ProgramOK

\* A program that has given up or is done has read the directory to its end.
LEMMA DoneOK ==
  ASSUME NEW t \in Terminals, OKAt(t), proc[t].pc \in {"complain", "return 0", "return 3"}
  PROVE  read_dir_flag[t] = 0
  <1>1. CASE proc[t].program = "ls"
    BY <1>1 DEF OKAt, ProgramOK, LsOK
  <1>2. CASE proc[t].program = "grep"
    BY <1>2 DEF OKAt, ProgramOK, GrepOK
  <1>3. CASE proc[t].program = "cat"
    BY <1>3 DEF OKAt, ProgramOK, CatOK
  <1> QED
    BY <1>1, <1>2, <1>3 DEF OKAt, ProgramOK

LEMMA ShellKeeps ==
  ASSUME ReadyInv, ProgramsInv, NEW t \in Terminals,
         (\E line \in Lines[t] : ShellReads(t, line)) \/ ShellReplies(t)
           \/ (At(t, "shell", "execute") /\ ExecuteFails(t))
  PROVE  Kept(t)
  <1>1. /\ DOMAIN file_desc_array = Terminals /\ DOMAIN read_dir_flag = Terminals
        /\ DOMAIN ret = Terminals /\ DOMAIN buf = Terminals /\ DOMAIN printed = Terminals
        /\ DOMAIN argument_array = Terminals
    BY ReadyDomains
  <1>2. proc[t].program = "shell"
    BY DEF ShellReads, ShellReplies, At
  <1>3. \E pc : Goto(t, pc)
    BY DEF ShellReads, ShellReplies, ExecuteFails
  <1>4. OnlyAt(t, proc, proc') /\ proc'[t].program = "shell"
    BY <1>2, <1>3, GotoAt DEF Moved
  <1>5. UNCHANGED <<file_desc_array, read_dir_flag, argument_array>>
    BY DEF ShellReads, ShellReplies, ExecuteFails, kernelVars
  <1>6. /\ \E v : ret' = [ret EXCEPT ![t] = v]
        /\ buf' = buf \/ \E v : buf' = [buf EXCEPT ![t] = v]
        /\ printed' = printed \/ \E v : printed' = [printed EXCEPT ![t] = v]
    <2>1. CASE \E line \in Lines[t] : ShellReads(t, line)
      BY <2>1 DEF ShellReads, Returns
    <2>2. CASE ShellReplies(t)
      BY <2>2 DEF ShellReplies, Returns
    <2>3. CASE ExecuteFails(t)
      BY <2>3 DEF ExecuteFails, Returns
    <2> QED
      BY <2>1, <2>2, <2>3
  <1>7. Alone(t)
    BY <1>1, <1>4, <1>5, <1>6, OnlyAtIs DEF Alone, CallAlone
  <1>8. read_dir_flag'[t] = 0
    BY <1>2, <1>5 DEF ProgramsInv, OKAt, ProgramOK
  <1>9. OKAt(t)'
    BY <1>4, <1>8, ShellOK DEF OKAt
  <1> QED
    BY <1>7, <1>9 DEF Kept

LEMMA ExecuteKeeps ==
  ASSUME ReadyInv, ProgramsInv, NEW t \in Terminals, At(t, "shell", "execute"), ExecuteStarts(t)
  PROVE  Kept(t)
  <1>1. /\ DOMAIN file_desc_array = Terminals /\ DOMAIN read_dir_flag = Terminals
        /\ DOMAIN ret = Terminals /\ DOMAIN buf = Terminals /\ DOMAIN printed = Terminals
        /\ DOMAIN argument_array = Terminals /\ DOMAIN proc = Terminals
    BY ReadyDomains
  <1>2. PICK q, a :
          /\ file_desc_array' = [file_desc_array EXCEPT ![t] = NewTable]
          /\ proc' = [proc EXCEPT ![t] = Start(q)]
          /\ argument_array' = [argument_array EXCEPT ![t] = a]
          /\ buf' = [buf EXCEPT ![t] = << >>] /\ printed' = [printed EXCEPT ![t] = << >>]
          /\ ret' = [ret EXCEPT ![t] = 0] /\ read_dir_flag' = read_dir_flag
    BY DEF ExecuteStarts, CloseAll, Returns
  <1>3. read_dir_flag[t] = 0
    BY DEF ProgramsInv, OKAt, ProgramOK, At
  <1>4. Alone(t)
    BY <1>1, <1>2, OnlyAtIs DEF Alone, CallAlone
  <1>5. /\ proc'[t] = Start(q) /\ file_desc_array'[t] = NewTable /\ read_dir_flag'[t] = 0
        /\ printed'[t] = << >>
    BY <1>1, <1>2, <1>3
  <1>6. OKAt(t)'
    BY <1>5, StartOK DEF OKAt
  <1> QED
    BY <1>4, <1>6 DEF Kept

LEMMA HaltKeeps ==
  ASSUME ReadyInv, ProgramsInv, NEW t \in Terminals, sys_halt(t)
  PROVE  Kept(t)
  <1>1. /\ DOMAIN file_desc_array = Terminals /\ DOMAIN read_dir_flag = Terminals
        /\ DOMAIN ret = Terminals /\ DOMAIN buf = Terminals /\ DOMAIN printed = Terminals
        /\ DOMAIN argument_array = Terminals /\ DOMAIN proc = Terminals
    BY ReadyDomains
  <1>2. /\ file_desc_array' = [file_desc_array EXCEPT ![t] = NewTable]
        /\ argument_array' = [argument_array EXCEPT ![t] = NoArgument]
        /\ buf' = [buf EXCEPT ![t] = << >>] /\ printed' = [printed EXCEPT ![t] = << >>]
        /\ read_dir_flag' = read_dir_flag
    BY DEF sys_halt, CloseAll
  <1> DEFINE s == Start("shell")
             q == Process("shell", "reply")
  <1>3. PICK p, v : /\ p \in {s, q}
                    /\ proc' = [proc EXCEPT ![t] = p] /\ ret' = [ret EXCEPT ![t] = v]
    <2>1. \/ proc' = [proc EXCEPT ![t] = s] /\ ret' = [ret EXCEPT ![t] = 0]
          \/ \E v : proc' = [proc EXCEPT ![t] = q] /\ ret' = [ret EXCEPT ![t] = v]
      <3>1. CASE shells[t] = 0
        BY <3>1 DEF sys_halt, Returns
      <3>2. CASE shells[t] # 0
        BY <3>2 DEF sys_halt, Returns
      <3> QED
        BY <3>1, <3>2
    <2> HIDE DEF s, q
    <2>2. s \in {s, q} /\ q \in {s, q}
      OBVIOUS
    <2> QED
      BY <2>1, <2>2
  <1>4. p.program = "shell"
    BY <1>3 DEF Start, Process
  <1>5. read_dir_flag[t] = 0
    <2>1. proc[t].pc \in {"return 0", "return 3"}
      BY DEF sys_halt
    <2>2. OKAt(t)
      BY DEF ProgramsInv
    <2> QED
      BY <2>1, <2>2, DoneOK
  <1>6. Alone(t)
    BY <1>1, <1>2, <1>3, OnlyAtIs DEF Alone, CallAlone
  <1>7. proc'[t] = p /\ read_dir_flag'[t] = 0
    BY <1>1, <1>2, <1>3, <1>5
  <1>8. OKAt(t)'
    BY <1>4, <1>7, ShellOK DEF OKAt
  <1> QED
    BY <1>6, <1>8 DEF Kept

LEMMA ComplainKeeps ==
  ASSUME ReadyInv, ProgramsInv, NEW t \in Terminals, Complain(t)
  PROVE  Kept(t)
  <1> DEFINE p == proc[t]
             p2 == proc'[t]
             d == file_desc_array[t]
             k == read_dir_flag[t]
  <1>1. p.pc = "complain" /\ Goto(t, "return 3") /\ UNCHANGED kernelVars
    BY DEF Complain
  <1>2. CallAlone(t) /\ file_desc_array'[t] = d /\ read_dir_flag'[t] = k
    BY WriteAt DEF Complain
  <1>3. OnlyAt(t, proc, proc') /\ Moved(p, p2, "return 3", p.fd)
    BY <1>1, GotoAt
  <1>4. OnlyAt(t, argument_array, argument_array')
    BY <1>1, ArgumentKept
  <1>5. OKAt(t)
    BY DEF ProgramsInv
  <1>6. k = 0
    BY <1>1, <1>5, DoneOK
  <1>7. p.program # "syserr" /\ (p.program = "any" => AnyOK(d))
    BY <1>1, <1>5 DEF OKAt, ProgramOK, SysErrOK
  <1> DEFINE d2 == file_desc_array'[t]
             k2 == read_dir_flag'[t]
  <1> HIDE DEF p, p2, d, k, d2, k2
  <1>8. p2.program = p.program /\ p2.pc = "return 3" /\ d2 = d /\ k2 = 0
    BY <1>2, <1>3, <1>6 DEF Moved, d2, k2
  <1>9. ASSUME NEW r, NEW b, NEW o, NEW arg
        PROVE  ProgramOK(p2, d2, k2, r, b, o, arg)
    <2>1. LsOK(p2, d2, k2, r, b, o) /\ GrepOK(p2, d2, k2, b)
      BY <1>8 DEF LsOK, GrepOK
    <2>2. CatOK(p2, d2, k2, b, o, arg)
      BY <1>8 DEF CatOK
    <2> QED
      BY <1>7, <1>8, <2>1, <2>2 DEF ProgramOK
  <1>10. OKAt(t)'
    BY <1>9 DEF OKAt, p2, d2, k2
  <1> QED
    BY <1>2, <1>3, <1>4, <1>10 DEF Kept, Alone

-----------------------------------------------------------------------------
(* cat                                                                      *)

LEMMA ShownIs ==
  ASSUME NEW s, IsString(s)
  PROVE  Len(Shown(s)) \in Nat
  <1> DEFINE S == {s[i] : i \in 1 .. Len(s)}
  <1>1. s \in Seq(S)
    BY StringIsSequence
  <1> HIDE DEF S
  <1>2. Shown(s) \in Seq(S)
    BY <1>1, WithoutAllOrNone DEF Shown
  <1> QED
    BY <1>2, LenProperties

LEMMA BytesIs ==
  ASSUME NEW inode, NEW n \in Nat
  PROVE  IsString(Bytes(inode, n)) /\ Shown(Bytes(inode, 0)) = << >>
  <1> DEFINE s == Bytes(inode, n)
  <1>1. s = [i \in 1 .. n |-> data_blocks[FirstCursor(inode_head[inode].datablock_nums, i - 1).cur]]
    BY DEF Bytes
  <1> HIDE DEF s
  <1>2. s = [i \in 1 .. n |-> s[i]]
    BY <1>1
  <1>3. IsString(s)
    BY <1>2, Filled
  <1>4. Bytes(inode, 0) = << >>
    BY DEF Bytes
  <1>5. Shown(<< >>) = << >>
    BY WithoutEmpty DEF Shown
  <1> QED
    BY <1>3, <1>4, <1>5 DEF s

LEMMA CatKept ==
  ASSUME NEW t \in Terminals, Alone(t), proc'[t].program = "cat",
         CatOK(proc'[t], file_desc_array'[t], read_dir_flag'[t], buf'[t], printed'[t],
               argument_array'[t])
  PROVE  Kept(t)
  <1> DEFINE p2 == proc'[t]
             d2 == file_desc_array'[t]
             k2 == read_dir_flag'[t]
             b2 == buf'[t]
             o2 == printed'[t]
             r2 == ret'[t]
             arg2 == argument_array'[t]
  <1>1. p2.program = "cat" /\ CatOK(p2, d2, k2, b2, o2, arg2)
    OBVIOUS
  <1> HIDE DEF p2, d2, k2, b2, o2, r2, arg2
  <1>2. ProgramOK(p2, d2, k2, r2, b2, o2, arg2)
    BY <1>1 DEF ProgramOK
  <1>3. OKAt(t)'
    BY <1>2 DEF OKAt, p2, d2, k2, r2, b2, o2, arg2
  <1> QED
    BY <1>3 DEF Kept

LEMMA CatArgsKeeps ==
  ASSUME ReadyInv, ProgramsInv, NEW t \in Terminals, CatArgs(t)
  PROVE  Kept(t)
  <1> DEFINE p == proc[t]
             d == file_desc_array[t]
             k == read_dir_flag[t]
             b == buf[t]
             o == printed[t]
             arg == argument_array[t]
             p2 == proc'[t]
             d2 == file_desc_array'[t]
             k2 == read_dir_flag'[t]
             b2 == buf'[t]
             o2 == printed'[t]
             r2 == ret'[t]
             arg2 == argument_array'[t]
  <1>1. p.program = "cat" /\ p.pc = "start" /\ CatOK(p, d, k, b, o, arg)
    BY DEF CatArgs, At, ProgramsInv, OKAt, ProgramOK
  <1>2. CallAlone(t) /\ d2 = d /\ k2 = k /\ o2 = o /\ (r2 = 0 => b2 = arg)
    BY GetargsAt DEF CatArgs
  <1> DEFINE pc == IF r2 = 0 THEN "open" ELSE "complain"
  <1>3. Goto(t, pc) /\ UNCHANGED kernelVars
    BY DEF CatArgs
  <1>4. OnlyAt(t, proc, proc') /\ Moved(p, p2, pc, p.fd)
    BY <1>3, GotoAt
  <1>5. OnlyAt(t, argument_array, argument_array') /\ arg2 = arg
    BY <1>3, ArgumentKept
  <1>6. Alone(t)
    BY <1>2, <1>4, <1>5 DEF Alone
  <1> HIDE DEF p, d, k, b, o, arg, p2, d2, k2, b2, o2, r2, arg2
  <1>7. d2 = NewTable /\ o2 = << >> /\ k2 = 0
    BY <1>1, <1>2 DEF CatOK
  <1>8. p2.program = "cat" /\ CatOK(p2, d2, k2, b2, o2, arg2)
    <2>1. CASE r2 = 0
      <3>1. p2.program = "cat" /\ p2.pc = "open" /\ b2 = arg2
        BY <1>1, <1>2, <1>4, <1>5, <2>1 DEF Moved
      <3> QED
        BY <1>7, <3>1 DEF CatOK
    <2>2. CASE r2 # 0
      <3>1. p2.program = "cat" /\ p2.pc = "complain"
        BY <1>1, <1>4, <2>2 DEF Moved
      <3> QED
        BY <1>7, <3>1 DEF CatOK
    <2> QED
      BY <2>1, <2>2
  <1> QED
    BY <1>6, <1>8, CatKept DEF p2, d2, k2, b2, o2, arg2

LEMMA CatOpenKeeps ==
  ASSUME ReadyInv, ProgramsInv, NEW t \in Terminals, CatOpen(t)
  PROVE  Kept(t)
  <1> DEFINE p == proc[t]
             d == file_desc_array[t]
             k == read_dir_flag[t]
             b == buf[t]
             o == printed[t]
             arg == argument_array[t]
             p2 == proc'[t]
             d2 == file_desc_array'[t]
             k2 == read_dir_flag'[t]
             b2 == buf'[t]
             o2 == printed'[t]
             r2 == ret'[t]
             arg2 == argument_array'[t]
  <1>1. p.program = "cat" /\ p.pc = "open" /\ CatOK(p, d, k, b, o, arg)
    BY DEF CatOpen, At, ProgramsInv, OKAt, ProgramOK
  <1>2. CallAlone(t) /\ OpenRel(d, b, d2, r2) /\ k2 = k /\ o2 = o
    BY OpenAt DEF CatOpen
  <1> DEFINE pc == IF r2 = -1 THEN "complain" ELSE "read"
  <1>3. proc' = [proc EXCEPT ![t].fd = r2, ![t].pc = pc] /\ UNCHANGED kernelVars
    BY DEF CatOpen
  <1>4. OnlyAt(t, proc, proc') /\ Moved(p, p2, pc, r2)
    BY <1>3, OpenGotoAt
  <1>5. OnlyAt(t, argument_array, argument_array') /\ arg2 = arg
    BY <1>3, ArgumentKept
  <1>6. Alone(t)
    BY <1>2, <1>4, <1>5 DEF Alone
  <1>7. IsString(arg)
    BY DEF ReadyInv, UserInv, ArgumentsInv
  <1> HIDE DEF p, d, k, b, o, arg, p2, d2, k2, b2, o2, r2, arg2
  <1>8. d = NewTable /\ o2 = << >> /\ k2 = 0 /\ b = arg
    BY <1>1, <1>2 DEF CatOK
  <1>9. p2.program = "cat" /\ p2.pc = pc /\ p2.fd = r2
    BY <1>1, <1>4 DEF Moved
  <1>10. CatOK(p2, d2, k2, b2, o2, arg2)
    <2>1. CASE r2 = -1
      <3>1. p2.pc = "complain"
        BY <1>9, <2>1
      <3> QED
        BY <1>8, <3>1 DEF CatOK
    <2>2. CASE r2 # -1
      <3> DEFINE name == CString(arg)
                 dentry == read_dentry_by_name(name)
                 new == Desc(dentry.file_type, InodeOf(dentry, arg))
      <3>1. p2.pc = "read"
        BY <1>9, <2>2
      <3>2. Matches(arg) # {} /\ r2 \in OpenFDs
            /\ d2 = [d EXCEPT ![r2] = Desc(read_dentry_by_name(arg).file_type,
                                           InodeOf(read_dentry_by_name(arg), arg))]
        BY <1>2, <1>8, <2>2 DEF OpenRel
      <3>3. read_dentry_by_name(arg) = dentry /\ Matches(name) # {}
        BY <1>7, <3>2, LookupIs, MatchesCString
      <3>4. dentry.file_type = "file" => InodeOf(dentry, arg) = dentry.inode
        BY <1>7, <3>2, <3>3, OpenedInode
      <3>5. d2 = [d EXCEPT ![r2] = new]
        BY <3>2, <3>3
      <3>6. /\ new.flags = 1 /\ new.file_ops_table = dentry.file_type /\ new.file_position = 0
            /\ new.inode = InodeOf(dentry, arg)
        BY DEF Desc
      <3>7. FILE_DESC_ARR_SIZE \in Nat /\ FILE_DESC_ARR_SIZE >= 2
        BY FilesAssumption
      <3>8. DOMAIN d = FDs /\ d[0] = Desc("stdin", 0) /\ d[1] = Desc("stdout", 0)
        BY <1>8, <3>7 DEF NewTable, FDs
      <3>9. r2 \in FDs /\ r2 # 0 /\ r2 # 1 /\ 0 \in FDs /\ 1 \in FDs
        BY <3>2, <3>7 DEF OpenFDs, FDs
      <3> HIDE DEF new, dentry, name
      <3>10. d2[r2] = new /\ d2[0] = Desc("stdin", 0) /\ d2[1] = Desc("stdout", 0)
        BY <3>5, <3>8, <3>9
      <3>11. Standard(d2)
        BY <3>10 DEF Standard, Desc
      <3>12. Opened(d2, r2, {dentry.file_type})
        BY <3>2, <3>6, <3>10 DEF Opened
      <3>13. dentry.file_type = "file" => d2[r2].inode = dentry.inode
        BY <3>4, <3>6, <3>10
      <3>14. Shown(Bytes(dentry.inode, d2[r2].file_position)) = << >>
        BY <3>6, <3>10, BytesIs
      <3> QED
        BY <1>5, <1>8, <1>9, <3>1, <3>3, <3>11, <3>12, <3>13, <3>14 DEF CatOK, dentry, name
    <2> QED
      BY <2>1, <2>2
  <1> QED
    BY <1>6, <1>9, <1>10, CatKept DEF p2, d2, k2, b2, o2, arg2

LEMMA CatReadKeeps ==
  ASSUME ReadyInv, ProgramsInv, NEW t \in Terminals, CatRead(t)
  PROVE  Kept(t)
  <1> DEFINE p == proc[t]
             d == file_desc_array[t]
             k == read_dir_flag[t]
             b == buf[t]
             o == printed[t]
             arg == argument_array[t]
             p2 == proc'[t]
             d2 == file_desc_array'[t]
             k2 == read_dir_flag'[t]
             b2 == buf'[t]
             o2 == printed'[t]
             r2 == ret'[t]
             arg2 == argument_array'[t]
  <1>1. p.program = "cat" /\ p.pc = "read" /\ CatOK(p, d, k, b, o, arg)
    BY DEF CatRead, At, ProgramsInv, OKAt, ProgramOK
  <1>2. CallAlone(t) /\ ReadRel(d, k, b, p.fd, BUFSIZE, d2, k2, b2, r2) /\ o2 = o
    BY ReadAt DEF CatRead
  <1> DEFINE pc == CASE r2 = 0  -> "return 0"
                     [] r2 = -1 -> "complain"
                     [] OTHER   -> "write"
  <1>3. Goto(t, pc) /\ UNCHANGED kernelVars
    BY DEF CatRead
  <1>4. OnlyAt(t, proc, proc') /\ Moved(p, p2, pc, p.fd)
    BY <1>3, GotoAt
  <1>5. OnlyAt(t, argument_array, argument_array') /\ arg2 = arg
    BY <1>3, ArgumentKept
  <1>6. Alone(t)
    BY <1>2, <1>4, <1>5 DEF Alone
  <1>7. IsString(arg)
    BY DEF ReadyInv, UserInv, ArgumentsInv
  <1>8. d \in [FDs -> Descriptors] /\ \A fd \in FDs : PositionOK(d[fd])
    BY DEF ReadyInv, UserInv, FilesInv, DescriptorsInv
  <1> HIDE DEF p, d, k, b, o, arg, p2, d2, k2, b2, o2, r2, arg2
  <1> DEFINE fd == p.fd
             name == CString(arg)
             dentry == read_dentry_by_name(name)
             pos == d[fd].file_position
             text(n) == Shown(Bytes(dentry.inode, n))
  <1>9. /\ Matches(name) # {} /\ Standard(d)
        /\ fd \in OpenFDs /\ d[fd].flags = 1 /\ d[fd].file_ops_table = dentry.file_type
        /\ dentry.file_type = "file" => d[fd].inode = dentry.inode /\ o = text(pos)
        /\ dentry.file_type # "directory" => k = 0
    BY <1>1 DEF CatOK, Opened
  <1>10. dentry.file_type \in FileTypes /\ IsString(name)
    BY <1>7, <1>9, CStringIs, OpenedInode
  <1>11. p2.program = "cat" /\ p2.pc = pc /\ p2.fd = fd
    BY <1>1, <1>4 DEF Moved
  <1>12. FILE_DESC_ARR_SIZE \in Nat /\ BUFSIZE \in Nat /\ BUFSIZE > 0 /\ FILENAME_LEN \in Nat \ {0}
    BY FilesAssumption, UserProgramsAssumption, StringsAssumption
  <1>13. fd \in FDs /\ fd # 0 /\ fd # 1 /\ 0 \in FDs /\ 1 \in FDs
    BY <1>9, <1>12 DEF OpenFDs, FDs
  <1>14. OpsIn(d, fd) = dentry.file_type
    BY <1>9, <1>13 DEF OpsIn
  <1>15. r2 = 0 => pc = "return 0"
    <2> SUFFICES ASSUME r2 = 0 PROVE pc = "return 0"
      OBVIOUS
    <2>1. 0 # -1
      OBVIOUS
    <2> QED
      BY <2>1
  <1> HIDE DEF name, dentry
  <1>16. CatOK(p2, d2, k2, b2, o2, arg2)
    <2>1. CASE dentry.file_type = "file"
      <3> DEFINE inode == dentry.inode
                 data == read_data(inode, pos, BUFSIZE)
                 size == inode_head[inode].length
                 pos2 == pos + Len(data)
      <3>1. d[fd].inode = inode /\ o = text(pos) /\ k = 0
        BY <1>9, <2>1
      <3>2. d2 = [d EXCEPT ![fd].file_position = pos2] /\ k2 = k /\ b2 = data /\ r2 = Len(data)
        BY <1>2, <1>12, <1>14, <2>1, <3>1 DEF ReadRel
      <3>3. d[fd] \in Descriptors
        BY <1>8, <1>13
      <3>4. inode \in DOMAIN inode_head /\ pos \in Nat /\ pos <= size + 1
        BY <1>8, <1>9, <1>13, <2>1, <3>1, <3>3 DEF PositionOK, Descriptors
      <3>5. /\ IsString(data) /\ (Len(data) = 0 => pos = size + 1)
            /\ Bytes(inode, pos) \o data = Bytes(inode, pos2)
        <4>1. /\ inode \in DOMAIN inode_head /\ pos \in Nat /\ BUFSIZE \in Nat
              /\ BUFSIZE # 0 /\ pos <= inode_head[inode].length + 1
          BY <1>12, <3>4
        <4> HIDE DEF inode, pos
        <4> QED
          BY <4>1, ReadContinues, Zenon
      <3>6. Len(data) \in Nat
        BY <3>5 DEF IsString
      <3>7. IsString(Bytes(inode, pos))
        BY <3>4, BytesIs
      <3> HIDE DEF data, inode
      <3>8. Shown(Bytes(inode, pos)) \o Shown(data) = Shown(Bytes(inode, pos2))
        BY <3>5, <3>7, ShownConcat
      <3>9. /\ d2[0] = d[0] /\ d2[1] = d[1] /\ d2[fd].file_position = pos2
            /\ d2[fd].flags = d[fd].flags /\ d2[fd].inode = d[fd].inode
            /\ d2[fd].file_ops_table = d[fd].file_ops_table
        BY <1>8, <1>13, <3>2, <3>3 DEF Descriptors
      <3>10. Standard(d2) /\ Opened(d2, fd, {dentry.file_type}) /\ d2[fd].inode = dentry.inode
        BY <1>9, <3>1, <3>9 DEF Standard, Opened, inode
      <3>11. CASE Len(data) = 0
        <4>1. p2.pc = "return 0" /\ pos = size + 1
          BY <1>11, <1>15, <3>2, <3>5, <3>11
        <4>2. o2 = text(inode_head[dentry.inode].length + 1)
          BY <1>2, <3>1, <4>1 DEF inode
        <4> QED
          BY <1>5, <1>9, <3>1, <3>2, <4>1, <4>2 DEF CatOK, dentry, name
      <3>12. CASE Len(data) # 0
        <4>1. p2.pc = "write"
          BY <1>11, <3>2, <3>6, <3>12
        <4>2. b2 # << >>
          BY <3>2, <3>12
        <4>3. o2 \o Shown(b2) = text(d2[fd].file_position)
          BY <1>2, <3>1, <3>2, <3>8, <3>9 DEF inode
        <4> QED
          BY <1>5, <1>9, <1>11, <3>1, <3>2, <3>10, <4>1, <4>2, <4>3 DEF CatOK, dentry, name
      <3> QED
        BY <3>11, <3>12
    <2>2. CASE dentry.file_type = "directory"
      <3>1. d2 = d
        BY <1>2, <1>12, <1>14, <2>2 DEF ReadRel
      <3>2. CASE k >= entries
        <4>1. k2 = 0 /\ r2 = 0
          BY <1>2, <1>12, <1>14, <2>2, <3>2 DEF ReadRel
        <4>2. p2.pc = "return 0"
          BY <1>11, <1>15, <4>1
        <4> QED
          BY <1>5, <1>9, <2>2, <4>1, <4>2 DEF CatOK, dentry, name
      <3>3. CASE ~(k >= entries)
        <4>1. b2 = EntryRead(k + 1) /\ r2 = FILENAME_LEN
          BY <1>2, <1>12, <1>14, <2>2, <3>3 DEF ReadRel
        <4>2. p2.pc = "write"
          BY <1>11, <1>12, <4>1
        <4>3. b2 # << >>
          <5>1. 1 \in DOMAIN b2
            BY <1>12, <4>1 DEF EntryRead, strncpy
          <5> QED
            BY <5>1
        <4> QED
          BY <1>5, <1>9, <1>11, <2>2, <3>1, <4>2, <4>3 DEF CatOK, dentry, name, Opened
      <3> QED
        BY <3>2, <3>3
    <2>3. CASE dentry.file_type = "rtc"
      <3>1. k2 = k /\ r2 = 0
        BY <1>2, <1>12, <1>14, <2>3 DEF ReadRel
      <3>2. p2.pc = "return 0" /\ k2 = 0
        BY <1>9, <1>11, <1>15, <2>3, <3>1
      <3> QED
        BY <1>5, <1>9, <2>3, <3>2 DEF CatOK, dentry, name
    <2> QED
      BY <1>10, <2>1, <2>2, <2>3 DEF FileTypes
  <1> QED
    BY <1>6, <1>11, <1>16, CatKept DEF p2, d2, k2, b2, o2, arg2

LEMMA CatWriteKeeps ==
  ASSUME ReadyInv, ProgramsInv, NEW t \in Terminals, CatWrite(t)
  PROVE  Kept(t)
  <1> DEFINE p == proc[t]
             d == file_desc_array[t]
             k == read_dir_flag[t]
             b == buf[t]
             o == printed[t]
             arg == argument_array[t]
             p2 == proc'[t]
             d2 == file_desc_array'[t]
             k2 == read_dir_flag'[t]
             b2 == buf'[t]
             o2 == printed'[t]
             r2 == ret'[t]
             arg2 == argument_array'[t]
  <1>1. p.program = "cat" /\ p.pc = "write" /\ CatOK(p, d, k, b, o, arg)
    BY DEF CatWrite, At, ProgramsInv, OKAt, ProgramOK
  <1>2. CallAlone(t) /\ d2 = d /\ k2 = k /\ WriteRel(d, o, 1, b, o2, r2)
    BY WriteAt DEF CatWrite
  <1> DEFINE pc == IF r2 = -1 THEN "return 3" ELSE "read"
  <1>3. Goto(t, pc) /\ UNCHANGED kernelVars
    BY DEF CatWrite
  <1>4. OnlyAt(t, proc, proc') /\ Moved(p, p2, pc, p.fd)
    BY <1>3, GotoAt
  <1>5. OnlyAt(t, argument_array, argument_array') /\ arg2 = arg
    BY <1>3, ArgumentKept
  <1>6. Alone(t)
    BY <1>2, <1>4, <1>5 DEF Alone
  <1>7. IsString(b)
    BY DEF ReadyInv, UserInv, FilesInv, BuffersInv
  <1> HIDE DEF p, d, k, b, o, arg, p2, d2, k2, b2, o2, r2, arg2
  <1>8. Standard(d) /\ b # << >>
    BY <1>1 DEF CatOK
  <1>9. OpsIn(d, 1) = "stdout"
    <2>1. 1 \in FDs
      BY FilesAssumption DEF FDs
    <2> QED
      BY <1>8, <2>1 DEF OpsIn, Standard
  <1>10. o2 = o \o Shown(b) /\ r2 = Len(Shown(b))
    BY <1>2, <1>8, <1>9 DEF WriteRel
  <1>11. r2 # -1
    BY <1>7, <1>10, ShownIs
  <1>12. p2.program = "cat" /\ p2.pc = "read" /\ p2.fd = p.fd
    BY <1>1, <1>4, <1>11 DEF Moved
  <1>13. CatOK(p2, d2, k2, b2, o2, arg2)
    BY <1>1, <1>2, <1>5, <1>10, <1>12 DEF CatOK
  <1> QED
    BY <1>6, <1>12, <1>13, CatKept DEF p2, d2, k2, b2, o2, arg2

LEMMA CatKeeps ==
  ASSUME ReadyInv, ProgramsInv, NEW t \in Terminals, cat(t)
  PROVE  Kept(t)
  <1> QED
    BY CatArgsKeeps, CatOpenKeeps, CatReadKeeps, CatWriteKeeps DEF cat

-----------------------------------------------------------------------------
(* ls                                                                       *)

LEMMA DotIsDirectory ==
  Matches(<<".">>) # {} /\ read_dentry_by_name(<<".">>).file_type = "directory"
  <1> DEFINE s == <<".">>
  <1>1. IsString(s)
    BY DotIsString
  <1>2. s \in Seq({"."}) /\ Len(s) = 1
    OBVIOUS
  <1>3. IsCString(s)
    BY <1>1, <1>2 DEF IsCString, NUL
  <1>4. strlen(s) = 1
    BY <1>2, <1>3, StrlenOfCString
  <1>5. CString(s) = s
    BY <1>2, <1>4, SubSeqFull DEF CString
  <1>6. PICK i \in 1 .. entries : Name(i) = s /\ dir_entries[i].file_type = "directory"
    BY ImageOfProgramsAssumption
  <1> HIDE DEF s
  <1>7. Matches(s) # {} /\ read_dentry_by_name(s) = dir_entries[i]
    BY <1>1, <1>5, <1>6, LookupIs
  <1> QED
    BY <1>6, <1>7 DEF s

LEMMA DotOpens ==
  ASSUME NEW d2, NEW r2, OpenRel(NewTable, <<".">>, d2, r2), r2 # -1
  PROVE  /\ r2 \in OpenFDs /\ Standard(d2) /\ Opened(d2, r2, {"directory"})
         /\ \A g \in OpenFDs \ {r2} : d2[g].flags # 1
  <1> DEFINE d == NewTable
             dentry == read_dentry_by_name(<<".">>)
             new == Desc(dentry.file_type, InodeOf(dentry, <<".">>))
  <1>1. r2 \in OpenFDs /\ d2 = [d EXCEPT ![r2] = new]
    BY DEF OpenRel
  <1>2. new.flags = 1 /\ new.file_ops_table = "directory"
    BY DotIsDirectory DEF Desc
  <1>3. FILE_DESC_ARR_SIZE \in Nat /\ FILE_DESC_ARR_SIZE >= 2
    BY FilesAssumption
  <1>4. /\ DOMAIN d = FDs /\ Standard(d)
        /\ \A g \in OpenFDs : d[g].flags # 1
    BY <1>3 DEF NewTable, Standard, OpenFDs, FDs, Desc, Closed
  <1>5. r2 \in FDs /\ r2 # 0 /\ r2 # 1 /\ 0 \in FDs /\ 1 \in FDs /\ OpenFDs \subseteq FDs
    BY <1>1, <1>3 DEF OpenFDs, FDs
  <1> HIDE DEF new, d
  <1>6. d2[r2] = new /\ \A g \in FDs \ {r2} : d2[g] = d[g]
    BY <1>1, <1>4, <1>5
  <1> QED
    BY <1>1, <1>2, <1>4, <1>5, <1>6 DEF Standard, Opened

LEMMA LsKept ==
  ASSUME NEW t \in Terminals, Alone(t), proc'[t].program = "ls",
         LsOK(proc'[t], file_desc_array'[t], read_dir_flag'[t], ret'[t], buf'[t], printed'[t])
  PROVE  Kept(t)
  <1> DEFINE p2 == proc'[t]
             d2 == file_desc_array'[t]
             k2 == read_dir_flag'[t]
             b2 == buf'[t]
             o2 == printed'[t]
             r2 == ret'[t]
             arg2 == argument_array'[t]
  <1>1. p2.program = "ls" /\ LsOK(p2, d2, k2, r2, b2, o2)
    OBVIOUS
  <1> HIDE DEF p2, d2, k2, b2, o2, r2, arg2
  <1>2. ProgramOK(p2, d2, k2, r2, b2, o2, arg2)
    BY <1>1 DEF ProgramOK
  <1>3. OKAt(t)'
    BY <1>2 DEF OKAt, p2, d2, k2, r2, b2, o2, arg2
  <1> QED
    BY <1>3 DEF Kept

LEMMA LsOpenKeeps ==
  ASSUME ReadyInv, ProgramsInv, NEW t \in Terminals, OpenDirectory(t, "ls", "start")
  PROVE  Kept(t)
  <1> DEFINE p == proc[t]
             d == file_desc_array[t]
             k == read_dir_flag[t]
             r == ret[t]
             b == buf[t]
             o == printed[t]
             p2 == proc'[t]
             d2 == file_desc_array'[t]
             k2 == read_dir_flag'[t]
             b2 == buf'[t]
             o2 == printed'[t]
             r2 == ret'[t]
  <1>1. p.program = "ls" /\ p.pc = "start" /\ LsOK(p, d, k, r, b, o)
    BY DEF OpenDirectory, At, ProgramsInv, OKAt, ProgramOK
  <1>2. CallAlone(t) /\ OpenRel(d, <<".">>, d2, r2) /\ k2 = k /\ o2 = o
    BY OpenAt DEF OpenDirectory
  <1> DEFINE pc == IF r2 = -1 THEN "complain" ELSE "next"
  <1>3. proc' = [proc EXCEPT ![t].fd = r2, ![t].pc = pc] /\ UNCHANGED kernelVars
    BY DEF OpenDirectory
  <1>4. OnlyAt(t, proc, proc') /\ Moved(p, p2, pc, r2)
    BY <1>3, OpenGotoAt
  <1>5. Alone(t)
    BY <1>2, <1>3, <1>4, ArgumentKept DEF Alone
  <1> HIDE DEF p, d, k, r, b, o, p2, d2, k2, b2, o2, r2
  <1>6. d = NewTable /\ o2 = << >> /\ k2 = 0
    BY <1>1, <1>2 DEF LsOK
  <1>7. p2.program = "ls" /\ p2.pc = pc /\ p2.fd = r2
    BY <1>1, <1>4 DEF Moved
  <1>8. LsOK(p2, d2, k2, r2, b2, o2)
    <2>1. CASE r2 = -1
      <3>1. p2.pc = "complain"
        BY <1>7, <2>1
      <3> QED
        BY <1>6, <3>1 DEF LsOK
    <2>2. CASE r2 # -1
      <3>1. p2.pc = "next"
        BY <1>7, <2>2
      <3>2. Standard(d2) /\ Opened(d2, r2, {"directory"})
        BY <1>2, <1>6, <2>2, DotOpens
      <3>3. entries \in Nat /\ Listed(0) = << >>
        <4>1. entries \in Nat
          BY FilesAssumption, LenProperties DEF entries
        <4>2. \E i : i \in 1 .. entries
          BY ImageOfProgramsAssumption
        <4> QED
          BY <4>1, <4>2, ListedStep
      <3>4. k2 \in 0 .. entries /\ o2 = Listed(k2)
        BY <1>6, <3>3
      <3> QED
        BY <1>7, <3>1, <3>2, <3>4 DEF LsOK
    <2> QED
      BY <2>1, <2>2
  <1> QED
    BY <1>5, <1>7, <1>8, LsKept DEF p2, d2, k2, b2, o2, r2

\* The result of a read decides how the loop of ls and grep goes on.
LEMMA ReadDirectoryAt ==
  ASSUME NEW d, NEW k \in 0 .. entries, NEW b, NEW fd, Opened(d, fd, {"directory"}),
         NEW d2, NEW k2, NEW b2, NEW r2,
         ReadRel(d, k, b, fd, FILENAME_LEN, d2, k2, b2, r2)
  PROVE  /\ d2 = d
         /\ \/ k = entries /\ k2 = 0 /\ r2 = 0
            \/ /\ k2 = k + 1 /\ k2 \in 1 .. entries /\ b2 = EntryRead(k2)
               /\ r2 = FILENAME_LEN /\ r2 # 0 /\ r2 # -1
  <1>1. FILENAME_LEN \in Nat /\ FILENAME_LEN > 0 /\ FILE_DESC_ARR_SIZE \in Nat
    BY StringsAssumption, FilesAssumption
  <1>2. entries \in Nat
    BY FilesAssumption, LenProperties DEF entries
  <1>3. OpsIn(d, fd) = "directory"
    BY <1>1 DEF OpsIn, Opened, OpenFDs, FDs
  <1>4. /\ d2 = d
        /\ IF k >= entries THEN k2 = 0 /\ b2 = b /\ r2 = 0
                           ELSE k2 = k + 1 /\ b2 = EntryRead(k + 1) /\ r2 = FILENAME_LEN
    BY <1>1, <1>3 DEF ReadRel
  <1>5. CASE k >= entries
    BY <1>2, <1>4, <1>5
  <1>6. CASE ~(k >= entries)
    BY <1>1, <1>2, <1>4, <1>6
  <1> QED
    BY <1>5, <1>6

LEMMA LsNextKeeps ==
  ASSUME ReadyInv, ProgramsInv, NEW t \in Terminals, NextEntry(t, "ls", "write")
  PROVE  Kept(t)
  <1> DEFINE p == proc[t]
             d == file_desc_array[t]
             k == read_dir_flag[t]
             r == ret[t]
             b == buf[t]
             o == printed[t]
             p2 == proc'[t]
             d2 == file_desc_array'[t]
             k2 == read_dir_flag'[t]
             b2 == buf'[t]
             o2 == printed'[t]
             r2 == ret'[t]
  <1>1. p.program = "ls" /\ p.pc = "next" /\ LsOK(p, d, k, r, b, o)
    BY DEF NextEntry, At, ProgramsInv, OKAt, ProgramOK
  <1>2. CallAlone(t) /\ ReadRel(d, k, b, p.fd, FILENAME_LEN, d2, k2, b2, r2) /\ o2 = o
    BY ReadAt DEF NextEntry
  <1> DEFINE pc == CASE r2 = 0  -> "return 0"
                     [] r2 = -1 -> "complain"
                     [] OTHER   -> "write"
  <1>3. Goto(t, pc) /\ UNCHANGED kernelVars
    BY DEF NextEntry
  <1>4. OnlyAt(t, proc, proc') /\ Moved(p, p2, pc, p.fd)
    BY <1>3, GotoAt
  <1>5. Alone(t)
    BY <1>2, <1>3, <1>4, ArgumentKept DEF Alone
  <1> HIDE DEF p, d, k, r, b, o, p2, d2, k2, b2, o2, r2
  <1>6. /\ Standard(d) /\ Opened(d, p.fd, {"directory"})
        /\ k \in 0 .. entries /\ o2 = Listed(k)
    BY <1>1, <1>2 DEF LsOK
  <1>7. /\ d2 = d
        /\ \/ k = entries /\ k2 = 0 /\ r2 = 0
           \/ /\ k2 = k + 1 /\ k2 \in 1 .. entries /\ b2 = EntryRead(k2)
              /\ r2 = FILENAME_LEN /\ r2 # 0 /\ r2 # -1
    BY <1>2, <1>6, ReadDirectoryAt
  <1>8. r2 = 0 => pc = "return 0"
    <2> SUFFICES ASSUME r2 = 0 PROVE pc = "return 0"
      OBVIOUS
    <2>1. 0 # -1
      OBVIOUS
    <2> QED
      BY <2>1
  <1>9. p2.program = "ls" /\ p2.pc = pc /\ p2.fd = p.fd
    BY <1>1, <1>4 DEF Moved
  <1>10. LsOK(p2, d2, k2, r2, b2, o2)
    <2>1. CASE k = entries /\ k2 = 0 /\ r2 = 0
      <3>1. p2.pc = "return 0"
        BY <1>8, <1>9, <2>1
      <3> QED
        BY <1>6, <2>1, <3>1 DEF LsOK
    <2>2. CASE /\ k2 = k + 1 /\ k2 \in 1 .. entries /\ b2 = EntryRead(k2)
               /\ r2 = FILENAME_LEN /\ r2 # 0 /\ r2 # -1
      <3>1. p2.pc = "write"
        BY <1>9, <2>2
      <3>2. k2 - 1 = k
        BY <1>6, <2>2
      <3> QED
        BY <1>6, <1>7, <1>9, <2>2, <3>1, <3>2 DEF LsOK
    <2> QED
      BY <1>7, <2>1, <2>2
  <1> QED
    BY <1>5, <1>9, <1>10, LsKept DEF p2, d2, k2, b2, o2, r2

LEMMA LsWriteKeeps ==
  ASSUME ReadyInv, ProgramsInv, NEW t \in Terminals, LsWrite(t)
  PROVE  Kept(t)
  <1> DEFINE p == proc[t]
             d == file_desc_array[t]
             k == read_dir_flag[t]
             r == ret[t]
             b == buf[t]
             o == printed[t]
             p2 == proc'[t]
             d2 == file_desc_array'[t]
             k2 == read_dir_flag'[t]
             b2 == buf'[t]
             o2 == printed'[t]
             r2 == ret'[t]
             data == SubSeq(b, 1, r) \o <<NEWLINE>>
  <1>1. p.program = "ls" /\ p.pc = "write" /\ LsOK(p, d, k, r, b, o)
    BY DEF LsWrite, At, ProgramsInv, OKAt, ProgramOK
  <1>2. CallAlone(t) /\ d2 = d /\ k2 = k /\ WriteRel(d, o, 1, data, o2, r2)
    BY WriteAt DEF LsWrite
  <1> DEFINE pc == IF r2 = -1 THEN "return 3" ELSE "next"
  <1>3. Goto(t, pc) /\ UNCHANGED kernelVars
    BY DEF LsWrite
  <1>4. OnlyAt(t, proc, proc') /\ Moved(p, p2, pc, p.fd)
    BY <1>3, GotoAt
  <1>5. Alone(t)
    BY <1>2, <1>3, <1>4, ArgumentKept DEF Alone
  <1> HIDE DEF p, d, k, r, b, o, p2, d2, k2, b2, o2, r2
  <1>6. /\ Standard(d) /\ Opened(d, p.fd, {"directory"}) /\ k \in 1 .. entries
        /\ o = Listed(k - 1) /\ r = FILENAME_LEN /\ b = EntryRead(k)
    BY <1>1 DEF LsOK
  <1> DEFINE line == Name(k) \o <<NEWLINE>>
  <1>7. data = b \o <<NEWLINE>> /\ data # << >>
    <2>1. b \in Seq(Chars) /\ Len(b) = r
      BY <1>6, EntryReadIs
    <2>2. SubSeq(b, 1, r) = b
      BY <2>1, SubSeqFull
    <2>3. NEWLINE \in Chars
      BY DEF Chars
    <2>4. <<NEWLINE>> \in Seq(Chars) /\ Len(<<NEWLINE>>) = 1
      BY <2>3
    <2>5. Len(b) \in Nat /\ Len(b \o <<NEWLINE>>) = Len(b) + Len(<<NEWLINE>>)
      BY <2>1, <2>4, ConcatProperties, LenProperties
    <2>6. Len(b \o <<NEWLINE>>) # 0
      BY <2>4, <2>5
    <2>7. b \o <<NEWLINE>> # << >>
      BY <2>6
    <2> QED
      BY <2>2, <2>7
  <1>8. Shown(data) = line
    BY <1>6, <1>7, EntryReadIs
  <1>9. Len(line) \in Nat
    <2>1. Name(k) \in Seq(Chars) /\ <<NEWLINE>> \in Seq(Chars)
      BY <1>6, NameIs DEF Chars
    <2>2. line \in Seq(Chars)
      BY <2>1, ConcatProperties
    <2> QED
      BY <2>2, LenProperties
  <1>10. OpsIn(d, 1) = "stdout"
    <2>1. 1 \in FDs
      BY FilesAssumption DEF FDs
    <2> QED
      BY <1>6, <2>1 DEF OpsIn, Standard
  <1> HIDE DEF line, data
  <1>11. o2 = o \o line /\ r2 # -1
    <2>1. WriteRel(d, o, 1, data, o2, r2) /\ data # << >>
      BY <1>2, <1>7
    <2>2. o2 = o \o Shown(data) /\ r2 = Len(Shown(data))
      BY <1>10, <2>1, Zenon DEF WriteRel
    <2>3. Len(line) # -1
      BY <1>9
    <2> QED
      BY <1>8, <2>2, <2>3
  <1>12. o2 = Listed(k)
    <2>1. k \in 1 .. entries /\ o = Listed(k - 1)
      BY <1>6
    <2>2. Listed(k) = Listed(k - 1) \o line
      <3>1. Listed(k) = Listed(k - 1) \o (Name(k) \o <<NEWLINE>>)
        BY <2>1, ListedStep
      <3> QED
        BY <3>1 DEF line
    <2> QED
      BY <1>11, <2>1, <2>2, Zenon
  <1>13. p2.program = "ls" /\ p2.pc = "next" /\ p2.fd = p.fd
    BY <1>1, <1>4, <1>11 DEF Moved
  <1>14. k \in 0 .. entries
    BY <1>6
  <1>15. LsOK(p2, d2, k2, r2, b2, o2)
    BY <1>2, <1>6, <1>12, <1>13, <1>14 DEF LsOK
  <1> QED
    BY <1>5, <1>13, <1>15, LsKept DEF p2, d2, k2, b2, o2, r2

LEMMA LsKeeps ==
  ASSUME ReadyInv, ProgramsInv, NEW t \in Terminals, ls(t)
  PROVE  Kept(t)
  <1> QED
    BY LsOpenKeeps, LsNextKeeps, LsWriteKeeps DEF ls

-----------------------------------------------------------------------------
(* grep                                                                     *)

\* The name do_one_file opens is the one of the entry.
LEMMA EntryNameOpens ==
  ASSUME NEW k \in 1 .. entries
  PROVE  LET name == EntryRead(k) \o <<NUL>>
         IN  IsString(name) /\ Matches(name) # {} /\ read_dentry_by_name(name) = dir_entries[k]
  <1> DEFINE b == EntryRead(k)
             name == b \o <<NUL>>
             n == strlen(b)
             m == strlen(name)
             L == Len(b)
  <1>1. b \in Seq(Chars) /\ CString(b) = Name(k) /\ NUL \in Chars
    BY EntryReadIs DEF Chars
  <1>2. <<NUL>> \in Seq(Chars) /\ Len(<<NUL>>) = 1 /\ <<NUL>>[1] = NUL
    BY <1>1
  <1> HIDE DEF b
  <1>3. L \in Nat /\ DOMAIN b = 1 .. L
    BY <1>1, LenProperties
  <1>4. /\ name \in Seq(Chars) /\ Len(name) = L + 1
        /\ \A i \in 1 .. L : name[i] = b[i]
    BY <1>1, <1>2, <1>3, ConcatProperties
  <1>5. name[L + 1] = NUL
    <2>1. \A i \in 1 .. Len(<<NUL>>) : name[Len(b) + i] = <<NUL>>[i]
      BY <1>1, <1>2, ConcatProperties
    <2>2. 1 \in 1 .. Len(<<NUL>>)
      BY <1>2
    <2> QED
      BY <1>2, <2>1, <2>2
  <1>6. IsString(b) /\ IsString(name)
    BY <1>1, <1>4, SequenceIsString
  <1>7. DOMAIN name = 1 .. L + 1
    BY <1>3, <1>4, LenProperties
  <1> HIDE DEF name
  <1>8. /\ n \in 0 .. L /\ Char(b, n + 1) = NUL /\ \A i \in 1 .. n : Char(b, i) # NUL
    BY <1>6, StrlenIs
  <1>9. /\ m \in 0 .. L + 1 /\ Char(name, m + 1) = NUL /\ \A i \in 1 .. m : Char(name, i) # NUL
    BY <1>4, <1>6, StrlenIs
  <1> HIDE DEF n, m, L
  <1>10. \A i \in 1 .. L + 1 : Char(name, i) = Char(b, i)
    <2>1. \A i \in 1 .. L : Char(name, i) = Char(b, i)
      BY <1>3, <1>4, <1>7 DEF Char
    <2>2. Char(name, L + 1) = NUL /\ Char(b, L + 1) = NUL
      BY <1>3, <1>5, <1>7 DEF Char
    <2> QED
      BY <1>3, <2>1, <2>2
  <1>11. m = n
    <2>1. ~(n < m)
      BY <1>3, <1>8, <1>9, <1>10
    <2>2. ~(m < n)
      BY <1>3, <1>8, <1>9, <1>10
    <2> QED
      BY <1>3, <1>8, <1>9, <2>1, <2>2
  <1>12. CString(name) = CString(b)
    <2> DEFINE x == CString(name)
               y == CString(b)
    <2>1. x = SubSeq(name, 1, n) /\ y = SubSeq(b, 1, n)
      BY <1>11 DEF CString, n, m
    <2>2. SubSeq(name, 1, n) = [i \in 1 .. n |-> name[i]] /\ SubSeq(b, 1, n) = [i \in 1 .. n |-> b[i]]
      <3>1. n \in Nat /\ n <= L /\ n <= Len(name)
        BY <1>3, <1>4, <1>8
      <3>2. IsCString(x) /\ IsCString(y)
        BY <1>6, CStringIsCString
      <3>3. /\ Len(x) = n /\ \A i \in 1 .. n : Char(x, i) = Char(name, i)
            /\ Len(y) = n /\ \A i \in 1 .. n : Char(y, i) = Char(b, i)
        BY <1>6, <1>11, CStringIs DEF n, m
      <3>4. x = [i \in 1 .. n |-> x[i]] /\ y = [i \in 1 .. n |-> y[i]]
        BY <3>2, <3>3 DEF IsCString, IsString
      <3> HIDE DEF x, y
      <3>5. \A i \in 1 .. n : x[i] = name[i] /\ y[i] = b[i]
        BY <1>3, <1>7, <3>1, <3>3, <3>4 DEF Char
      <3> QED
        BY <2>1, <3>4, <3>5
    <2>3. \A i \in 1 .. n : name[i] = b[i]
      BY <1>3, <1>4, <1>8
    <2> QED
      BY <2>1, <2>2, <2>3
  <1>13. Matches(name) # {} /\ read_dentry_by_name(name) = dir_entries[k]
    BY <1>1, <1>6, <1>12, LookupIs
  <1> QED
    BY <1>6, <1>13 DEF name, b

LEMMA GrepKept ==
  ASSUME NEW t \in Terminals, Alone(t), proc'[t].program = "grep",
         GrepOK(proc'[t], file_desc_array'[t], read_dir_flag'[t], buf'[t])
  PROVE  Kept(t)
  <1> DEFINE p2 == proc'[t]
             d2 == file_desc_array'[t]
             k2 == read_dir_flag'[t]
             b2 == buf'[t]
             o2 == printed'[t]
             r2 == ret'[t]
             arg2 == argument_array'[t]
  <1>1. p2.program = "grep" /\ GrepOK(p2, d2, k2, b2)
    OBVIOUS
  <1> HIDE DEF p2, d2, k2, b2, o2, r2, arg2
  <1>2. ProgramOK(p2, d2, k2, r2, b2, o2, arg2)
    BY <1>1 DEF ProgramOK
  <1>3. OKAt(t)'
    BY <1>2 DEF OKAt, p2, d2, k2, r2, b2, o2, arg2
  <1> QED
    BY <1>3 DEF Kept

LEMMA GrepArgsKeeps ==
  ASSUME ReadyInv, ProgramsInv, NEW t \in Terminals, GrepArgs(t)
  PROVE  Kept(t)
  <1> DEFINE p == proc[t]
             d == file_desc_array[t]
             k == read_dir_flag[t]
             b == buf[t]
             p2 == proc'[t]
             d2 == file_desc_array'[t]
             k2 == read_dir_flag'[t]
             b2 == buf'[t]
             r2 == ret'[t]
  <1>1. p.program = "grep" /\ p.pc = "start" /\ GrepOK(p, d, k, b)
    BY DEF GrepArgs, At, ProgramsInv, OKAt, ProgramOK
  <1>2. CallAlone(t) /\ d2 = d /\ k2 = k
    BY GetargsAt DEF GrepArgs
  <1> DEFINE pc == IF r2 = 0 THEN "open" ELSE "complain"
  <1>3. Goto(t, pc) /\ UNCHANGED kernelVars
    BY DEF GrepArgs
  <1>4. OnlyAt(t, proc, proc') /\ Moved(p, p2, pc, p.fd)
    BY <1>3, GotoAt
  <1>5. Alone(t)
    BY <1>2, <1>3, <1>4, ArgumentKept DEF Alone
  <1> HIDE DEF p, d, k, b, p2, d2, k2, b2, r2
  <1>6. d2 = NewTable /\ k2 = 0 /\ p2.searched = << >> /\ p2.program = "grep"
    BY <1>1, <1>2, <1>4 DEF GrepOK, Moved
  <1>7. p2.pc = "open" \/ p2.pc = "complain"
    BY <1>4 DEF Moved
  <1>8. GrepOK(p2, d2, k2, b2)
    BY <1>6, <1>7 DEF GrepOK
  <1> QED
    BY <1>5, <1>6, <1>8, GrepKept DEF p2, d2, k2, b2

LEMMA GrepOpenKeeps ==
  ASSUME ReadyInv, ProgramsInv, NEW t \in Terminals, OpenDirectory(t, "grep", "open")
  PROVE  Kept(t)
  <1> DEFINE p == proc[t]
             d == file_desc_array[t]
             k == read_dir_flag[t]
             b == buf[t]
             p2 == proc'[t]
             d2 == file_desc_array'[t]
             k2 == read_dir_flag'[t]
             b2 == buf'[t]
             r2 == ret'[t]
  <1>1. p.program = "grep" /\ p.pc = "open" /\ GrepOK(p, d, k, b)
    BY DEF OpenDirectory, At, ProgramsInv, OKAt, ProgramOK
  <1>2. CallAlone(t) /\ OpenRel(d, <<".">>, d2, r2) /\ k2 = k
    BY OpenAt DEF OpenDirectory
  <1> DEFINE pc == IF r2 = -1 THEN "complain" ELSE "next"
  <1>3. proc' = [proc EXCEPT ![t].fd = r2, ![t].pc = pc] /\ UNCHANGED kernelVars
    BY DEF OpenDirectory
  <1>4. OnlyAt(t, proc, proc') /\ Moved(p, p2, pc, r2)
    BY <1>3, OpenGotoAt
  <1>5. Alone(t)
    BY <1>2, <1>3, <1>4, ArgumentKept DEF Alone
  <1> HIDE DEF p, d, k, b, p2, d2, k2, b2, r2
  <1>6. d = NewTable /\ k2 = 0 /\ p2.searched = << >>
    BY <1>1, <1>2, <1>4 DEF GrepOK, Moved
  <1>7. p2.program = "grep" /\ p2.pc = pc /\ p2.fd = r2
    BY <1>1, <1>4 DEF Moved
  <1>8. GrepOK(p2, d2, k2, b2)
    <2>1. CASE r2 = -1
      <3>1. p2.pc = "complain"
        BY <1>7, <2>1
      <3> QED
        BY <1>6, <3>1 DEF GrepOK
    <2>2. CASE r2 # -1
      <3>1. p2.pc = "next"
        BY <1>7, <2>2
      <3>2. Opened(d2, r2, {"directory"}) /\ \A g \in OpenFDs \ {r2} : d2[g].flags # 1
        BY <1>2, <1>6, <2>2, DotOpens
      <3>3. entries \in Nat /\ SearchedTo(0) = << >>
        <4>1. entries \in Nat
          BY FilesAssumption, LenProperties DEF entries
        <4>2. \E i : i \in 1 .. entries
          BY ImageOfProgramsAssumption
        <4> QED
          BY <4>1, <4>2, SearchedStep
      <3>4. k2 \in 0 .. entries /\ p2.searched = SearchedTo(k2)
        BY <1>6, <3>3
      <3> QED
        BY <1>7, <3>1, <3>2, <3>4 DEF GrepOK
    <2> QED
      BY <2>1, <2>2
  <1> QED
    BY <1>5, <1>7, <1>8, GrepKept DEF p2, d2, k2, b2

LEMMA GrepNextKeeps ==
  ASSUME ReadyInv, ProgramsInv, NEW t \in Terminals, NextEntry(t, "grep", "file")
  PROVE  Kept(t)
  <1> DEFINE p == proc[t]
             d == file_desc_array[t]
             k == read_dir_flag[t]
             b == buf[t]
             p2 == proc'[t]
             d2 == file_desc_array'[t]
             k2 == read_dir_flag'[t]
             b2 == buf'[t]
             r2 == ret'[t]
  <1>1. p.program = "grep" /\ p.pc = "next" /\ GrepOK(p, d, k, b)
    BY DEF NextEntry, At, ProgramsInv, OKAt, ProgramOK
  <1>2. CallAlone(t) /\ ReadRel(d, k, b, p.fd, FILENAME_LEN, d2, k2, b2, r2)
    BY ReadAt DEF NextEntry
  <1> DEFINE pc == CASE r2 = 0  -> "return 0"
                     [] r2 = -1 -> "complain"
                     [] OTHER   -> "file"
  <1>3. Goto(t, pc) /\ UNCHANGED kernelVars
    BY DEF NextEntry
  <1>4. OnlyAt(t, proc, proc') /\ Moved(p, p2, pc, p.fd)
    BY <1>3, GotoAt
  <1>5. Alone(t)
    BY <1>2, <1>3, <1>4, ArgumentKept DEF Alone
  <1> HIDE DEF p, d, k, b, p2, d2, k2, b2, r2
  <1>6. /\ Opened(d, p.fd, {"directory"}) /\ \A g \in OpenFDs \ {p.fd} : d[g].flags # 1
        /\ k \in 0 .. entries /\ p.searched = SearchedTo(k)
    BY <1>1 DEF GrepOK
  <1>7. /\ d2 = d
        /\ \/ k = entries /\ k2 = 0 /\ r2 = 0
           \/ /\ k2 = k + 1 /\ k2 \in 1 .. entries /\ b2 = EntryRead(k2)
              /\ r2 = FILENAME_LEN /\ r2 # 0 /\ r2 # -1
    BY <1>2, <1>6, ReadDirectoryAt
  <1>8. r2 = 0 => pc = "return 0"
    <2> SUFFICES ASSUME r2 = 0 PROVE pc = "return 0"
      OBVIOUS
    <2>1. 0 # -1
      OBVIOUS
    <2> QED
      BY <2>1
  <1>9. p2.program = "grep" /\ p2.pc = pc /\ p2.fd = p.fd /\ p2.searched = p.searched
    BY <1>1, <1>4 DEF Moved
  <1>10. GrepOK(p2, d2, k2, b2)
    <2>1. CASE k = entries /\ k2 = 0 /\ r2 = 0
      <3>1. p2.pc = "return 0"
        BY <1>8, <1>9, <2>1
      <3> QED
        BY <1>6, <1>9, <2>1, <3>1 DEF GrepOK
    <2>2. CASE /\ k2 = k + 1 /\ k2 \in 1 .. entries /\ b2 = EntryRead(k2)
               /\ r2 = FILENAME_LEN /\ r2 # 0 /\ r2 # -1
      <3>1. p2.pc = "file"
        BY <1>9, <2>2
      <3>2. k2 - 1 = k /\ k2 \in 0 .. entries
        BY <1>6, <2>2
      <3> QED
        BY <1>6, <1>7, <1>9, <2>2, <3>1, <3>2 DEF GrepOK
    <2> QED
      BY <1>7, <2>1, <2>2
  <1> QED
    BY <1>5, <1>9, <1>10, GrepKept DEF p2, d2, k2, b2

LEMMA GrepSkipKeeps ==
  ASSUME ReadyInv, ProgramsInv, NEW t \in Terminals, GrepOpenFile(t), buf[t][1] = "."
  PROVE  Kept(t)
  <1> DEFINE p == proc[t]
             d == file_desc_array[t]
             k == read_dir_flag[t]
             b == buf[t]
             p2 == proc'[t]
             d2 == file_desc_array'[t]
             k2 == read_dir_flag'[t]
             b2 == buf'[t]
  <1>1. p.program = "grep" /\ p.pc = "file" /\ GrepOK(p, d, k, b) /\ b[1] = "."
    BY DEF GrepOpenFile, At, ProgramsInv, OKAt, ProgramOK
  <1>2. UNCHANGED fvars /\ UNCHANGED kernelVars /\ Goto(t, "next")
    BY DEF GrepOpenFile
  <1>3. d2 = d /\ k2 = k /\ b2 = b
    BY <1>2 DEF fvars
  <1>4. CallAlone(t)
    BY <1>2, ReadyDomains DEF CallAlone, OnlyAt, fvars
  <1>5. OnlyAt(t, proc, proc') /\ Moved(p, p2, "next", p.fd)
    BY <1>2, GotoAt
  <1>6. Alone(t)
    BY <1>2, <1>4, <1>5, ArgumentKept DEF Alone
  <1> HIDE DEF p, d, k, b, p2, d2, k2, b2
  <1>7. /\ Opened(d, p.fd, {"directory"}) /\ \A g \in OpenFDs \ {p.fd} : d[g].flags # 1
        /\ k \in 1 .. entries /\ p.searched = SearchedTo(k - 1) /\ b = EntryRead(k)
    BY <1>1 DEF GrepOK
  <1>8. SearchedTo(k) = SearchedTo(k - 1)
    <2>1. Name(k)[1] = "."
      BY <1>1, <1>7, EntryReadIs
    <2> QED
      BY <1>7, <2>1, SearchedStep
  <1>9. p2.program = "grep" /\ p2.pc = "next" /\ p2.fd = p.fd /\ p2.searched = SearchedTo(k)
    BY <1>1, <1>5, <1>7, <1>8 DEF Moved
  <1>10. k \in 0 .. entries
    BY <1>7
  <1>11. GrepOK(p2, d2, k2, b2)
    BY <1>3, <1>7, <1>9, <1>10 DEF GrepOK
  <1> QED
    BY <1>6, <1>9, <1>11, GrepKept DEF p2, d2, k2, b2

LEMMA SearchedIs ==
  ASSUME NEW r, IsProcess(r), NEW pc, NEW file, NEW searched
  PROVE  LET p2 == [r EXCEPT !.file = file, !.searched = searched, !.pc = pc]
         IN  /\ p2.program = r.program /\ p2.pc = pc /\ p2.fd = r.fd
             /\ p2.file = file /\ p2.searched = searched
  <1>1. PICK S : r \in ProcessRecords(S)
    BY DEF IsProcess
  <1> QED
    BY <1>1 DEF ProcessRecords

\* do_one_file finds a descriptor: only the directory is open.
LEMMA GrepOpenFileKeeps ==
  ASSUME ReadyInv, ProgramsInv, NEW t \in Terminals, GrepOpenFile(t), buf[t][1] # "."
  PROVE  Kept(t)
  <1> DEFINE p == proc[t]
             d == file_desc_array[t]
             k == read_dir_flag[t]
             b == buf[t]
             p2 == proc'[t]
             d2 == file_desc_array'[t]
             k2 == read_dir_flag'[t]
             b2 == buf'[t]
             r2 == ret'[t]
             name == b \o <<NUL>>
             found == Append(p.searched, CString(b))
             pc == IF r2 = -1 THEN "complain" ELSE "search"
             q == [p EXCEPT !.file = r2, !.searched = found, !.pc = pc]
  <1>1. p.program = "grep" /\ p.pc = "file" /\ GrepOK(p, d, k, b) /\ b[1] # "."
    BY DEF GrepOpenFile, At, ProgramsInv, OKAt, ProgramOK
  <1>2. sys_open(t, name) /\ UNCHANGED kernelVars
    BY DEF GrepOpenFile
  <1>3. proc' = [proc EXCEPT ![t].file = r2, ![t].searched = found, ![t].pc = pc]
    BY DEF GrepOpenFile
  <1>4. CallAlone(t) /\ OpenRel(d, name, d2, r2) /\ k2 = k
    BY <1>2, OpenAt
  <1>5. DOMAIN proc = Terminals /\ IsProcess(p)
    BY DEF ReadyInv, UserInv, ProcessesInv
  <1>6. proc' = [proc EXCEPT ![t] = q]
    BY <1>3, <1>5
  <1>7. d \in [FDs -> Descriptors]
    BY ReadyDomains
  <1> HIDE DEF p, d, k, b, d2, k2, b2, r2, name, found, pc
  <1>8. /\ q.program = "grep" /\ q.pc = pc /\ q.fd = p.fd /\ q.file = r2 /\ q.searched = found
    BY <1>1, <1>5, SearchedIs
  <1> HIDE DEF q
  <1>9. p2 = q /\ OnlyAt(t, proc, proc')
    BY <1>5, <1>6, OnlyAtIs
  <1>10. Alone(t)
    BY <1>2, <1>4, <1>9, ArgumentKept DEF Alone
  <1> HIDE DEF p2
  <1>11. /\ Opened(d, p.fd, {"directory"}) /\ \A g \in OpenFDs \ {p.fd} : d[g].flags # 1
         /\ k \in 1 .. entries /\ p.searched = SearchedTo(k - 1) /\ b = EntryRead(k)
    BY <1>1 DEF GrepOK
  <1>12. IsString(name) /\ Matches(name) # {} /\ read_dentry_by_name(name) = dir_entries[k]
    BY <1>11, EntryNameOpens DEF name
  <1>13. CString(b) = Name(k) /\ Name(k)[1] # "."
    BY <1>1, <1>11, EntryReadIs
  <1>14. found = SearchedTo(k)
    BY <1>11, <1>13, SearchedStep DEF found
  <1> DEFINE dentry == dir_entries[k]
             new == Desc(dentry.file_type, InodeOf(dentry, name))
  <1>15. new.flags = 1 /\ new.file_ops_table \in {"file", "rtc"}
    <2>1. dentry.file_type \in FileTypes
      BY <1>12, OpenedInode
    <2>2. dentry.file_type # "directory"
      BY <1>11, <1>13, ImageOfProgramsAssumption
    <2> QED
      BY <2>1, <2>2 DEF Desc, FileTypes
  <1>16. ~\A g \in OpenFDs : d[g].flags = 1
    <2>1. 2 \in OpenFDs /\ 3 \in OpenFDs
      BY FilesAssumption, ImageOfProgramsAssumption DEF OpenFDs
    <2>2. 2 # p.fd \/ 3 # p.fd
      OBVIOUS
    <2> QED
      BY <1>11, <2>1, <2>2
  <1>17. r2 \in OpenFDs /\ d[r2].flags # 1 /\ d2 = [d EXCEPT ![r2] = new]
    BY <1>4, <1>12, <1>16 DEF OpenRel
  <1>18. r2 # -1 /\ OpenFDs \subseteq FDs
    BY <1>17, FilesAssumption DEF OpenFDs, FDs
  <1>19. r2 # p.fd /\ p.fd \in OpenFDs
    BY <1>11, <1>17 DEF Opened
  <1> HIDE DEF new
  <1>20. d2[r2] = new /\ \A g \in OpenFDs \ {r2} : d2[g] = d[g]
    BY <1>7, <1>17, <1>18
  <1>21. Opened(d2, p.fd, {"directory"}) /\ Opened(d2, r2, {"file", "rtc"})
    BY <1>11, <1>15, <1>17, <1>19, <1>20 DEF Opened
  <1>22. \A g \in OpenFDs \ {p.fd, r2} : d2[g].flags # 1
    BY <1>11, <1>20
  <1>23. p2.pc = "search" /\ p2.fd = p.fd /\ p2.file = r2 /\ p2.searched = SearchedTo(k)
         /\ p2.program = "grep"
    BY <1>8, <1>9, <1>14, <1>18 DEF pc
  <1>24. k2 = k /\ k \in 0 .. entries
    BY <1>4, <1>11
  <1>25. GrepOK(p2, d2, k2, b2)
    BY <1>19, <1>21, <1>22, <1>23, <1>24 DEF GrepOK
  <1> QED
    BY <1>10, <1>23, <1>25, GrepKept DEF p2, d2, k2, b2

LEMMA GrepReadKeeps ==
  ASSUME ReadyInv, ProgramsInv, NEW t \in Terminals, GrepReadFile(t)
  PROVE  Kept(t)
  <1> DEFINE p == proc[t]
             d == file_desc_array[t]
             k == read_dir_flag[t]
             b == buf[t]
             p2 == proc'[t]
             d2 == file_desc_array'[t]
             k2 == read_dir_flag'[t]
             b2 == buf'[t]
             r2 == ret'[t]
             file == p.file
  <1>1. p.program = "grep" /\ p.pc = "search" /\ GrepOK(p, d, k, b)
    BY DEF GrepReadFile, At, ProgramsInv, OKAt, ProgramOK
  <1>2. CallAlone(t) /\ ReadRel(d, k, b, file, BUFSIZE, d2, k2, b2, r2)
    BY ReadAt DEF GrepReadFile
  <1> DEFINE pc == CASE r2 = 0  -> "close"
                     [] r2 = -1 -> "complain"
                     [] OTHER   -> "search"
  <1>3. Goto(t, pc) /\ UNCHANGED kernelVars
    BY DEF GrepReadFile
  <1>4. OnlyAt(t, proc, proc') /\ Moved(p, p2, pc, p.fd)
    BY <1>3, GotoAt
  <1>5. Alone(t)
    BY <1>2, <1>3, <1>4, ArgumentKept DEF Alone
  <1>6. d \in [FDs -> Descriptors] /\ \A fd \in FDs : PositionOK(d[fd])
    BY DEF ReadyInv, UserInv, FilesInv, DescriptorsInv
  <1> HIDE DEF p, d, k, b, p2, d2, k2, b2, r2
  <1>7. /\ Opened(d, p.fd, {"directory"}) /\ k \in 0 .. entries
        /\ file # p.fd /\ Opened(d, file, {"file", "rtc"})
        /\ \A g \in OpenFDs \ {p.fd, file} : d[g].flags # 1
        /\ p.searched = SearchedTo(k)
    BY <1>1 DEF GrepOK
  <1>8. FILE_DESC_ARR_SIZE \in Nat /\ BUFSIZE \in Nat /\ BUFSIZE # 0 /\ BUFSIZE > 0
    BY FilesAssumption, UserProgramsAssumption
  <1>9. file \in FDs /\ OpenFDs \subseteq FDs
    BY <1>7, <1>8 DEF Opened, OpenFDs, FDs
  <1>10. OpsIn(d, file) = d[file].file_ops_table /\ OpsIn(d, file) \in {"file", "rtc"}
    BY <1>7, <1>9 DEF OpsIn, Opened
  <1>11. /\ k2 = k /\ (r2 = 0 \/ r2 # -1)
         /\ \A g \in OpenFDs : d2[g].flags = d[g].flags
                               /\ d2[g].file_ops_table = d[g].file_ops_table
    <2>1. CASE OpsIn(d, file) = "file"
      <3> DEFINE data == read_data(d[file].inode, d[file].file_position, BUFSIZE)
      <3>1. /\ d2 = [d EXCEPT ![file].file_position = @ + Len(data)]
            /\ k2 = k /\ r2 = Len(data)
        BY <1>2, <1>8, <2>1 DEF ReadRel
      <3>2. d[file] \in Descriptors /\ PositionOK(d[file])
        BY <1>6, <1>9
      <3>3. /\ d[file].inode \in DOMAIN inode_head /\ d[file].file_position \in Nat
            /\ d[file].file_position <= inode_head[d[file].inode].length + 1
        BY <1>10, <2>1, <3>2 DEF PositionOK, Descriptors
      <3>4. IsString(data)
        BY <1>8, <3>3, ReadContinues
      <3> HIDE DEF data
      <3>5. r2 # -1
        BY <3>1, <3>4 DEF IsString
      <3>6. \A g \in OpenFDs : d2[g].flags = d[g].flags
                               /\ d2[g].file_ops_table = d[g].file_ops_table
        BY <1>6, <1>9, <3>1, <3>2 DEF Descriptors
      <3> QED
        BY <3>1, <3>5, <3>6
    <2>2. CASE OpsIn(d, file) = "rtc"
      <3>1. d2 = d /\ k2 = k /\ r2 = 0
        BY <1>2, <1>8, <2>2 DEF ReadRel
      <3> QED
        BY <3>1
    <2> QED
      BY <1>10, <2>1, <2>2
  <1>12. pc \in {"close", "search"}
    <2>1. CASE r2 = 0
      <3>1. 0 # -1
        OBVIOUS
      <3>2. pc = "close"
        BY <2>1, <3>1
      <3> QED
        BY <3>2
    <2>2. CASE r2 # 0 /\ r2 # -1
      <3>1. pc = "search"
        BY <2>2
      <3> QED
        BY <3>1
    <2> QED
      BY <1>11, <2>1, <2>2
  <1> HIDE DEF pc
  <1>13. /\ p2.program = "grep" /\ p2.pc \in {"close", "search"} /\ p2.fd = p.fd
         /\ p2.file = file /\ p2.searched = SearchedTo(k)
    BY <1>1, <1>4, <1>7, <1>12 DEF Moved
  <1>14. Opened(d2, p.fd, {"directory"}) /\ Opened(d2, file, {"file", "rtc"})
         /\ \A g \in OpenFDs \ {p.fd, file} : d2[g].flags # 1
    BY <1>7, <1>11 DEF Opened
  <1>15. GrepOK(p2, d2, k2, b2)
    <2> HIDE DEF file
    <2> QED
      BY <1>7, <1>11, <1>13, <1>14 DEF GrepOK
  <1> QED
    BY <1>5, <1>13, <1>15, GrepKept DEF p2, d2, k2, b2

LEMMA GrepCloseKeeps ==
  ASSUME ReadyInv, ProgramsInv, NEW t \in Terminals, GrepCloseFile(t)
  PROVE  Kept(t)
  <1> DEFINE p == proc[t]
             d == file_desc_array[t]
             k == read_dir_flag[t]
             b == buf[t]
             p2 == proc'[t]
             d2 == file_desc_array'[t]
             k2 == read_dir_flag'[t]
             b2 == buf'[t]
             r2 == ret'[t]
             file == p.file
  <1>1. p.program = "grep" /\ p.pc = "close" /\ GrepOK(p, d, k, b)
    BY DEF GrepCloseFile, At, ProgramsInv, OKAt, ProgramOK
  <1>2. CallAlone(t) /\ CloseRel(d, file, d2, r2) /\ k2 = k
    BY CloseAt DEF GrepCloseFile
  <1> DEFINE pc == IF r2 = -1 THEN "complain" ELSE "next"
  <1>3. Goto(t, pc) /\ UNCHANGED kernelVars
    BY DEF GrepCloseFile
  <1>4. OnlyAt(t, proc, proc') /\ Moved(p, p2, pc, p.fd)
    BY <1>3, GotoAt
  <1>5. Alone(t)
    BY <1>2, <1>3, <1>4, ArgumentKept DEF Alone
  <1>6. d \in [FDs -> Descriptors]
    BY ReadyDomains
  <1> HIDE DEF p, d, k, b, p2, d2, k2, b2, r2, file
  <1>7. /\ Opened(d, p.fd, {"directory"}) /\ k \in 0 .. entries
        /\ file # p.fd /\ Opened(d, file, {"file", "rtc"})
        /\ \A g \in OpenFDs \ {p.fd, file} : d[g].flags # 1
        /\ p.searched = SearchedTo(k)
    BY <1>1 DEF GrepOK, file
  <1>8. d2 = [d EXCEPT ![file].flags = 0] /\ r2 = 0
    BY <1>2, <1>7 DEF CloseRel, Opened
  <1>9. file \in FDs /\ OpenFDs \subseteq FDs
    BY <1>7, FilesAssumption DEF Opened, OpenFDs, FDs
  <1>10. d2[file].flags = 0 /\ \A g \in OpenFDs \ {file} : d2[g] = d[g]
    <2>1. d[file] \in Descriptors
      BY <1>6, <1>9
    <2> QED
      BY <1>6, <1>8, <1>9, <2>1 DEF Descriptors
  <1>11. Opened(d2, p.fd, {"directory"}) /\ \A g \in OpenFDs \ {p.fd} : d2[g].flags # 1
    BY <1>7, <1>10 DEF Opened
  <1>12. r2 # -1
    BY <1>8
  <1>13. /\ p2.program = "grep" /\ p2.pc = "next" /\ p2.fd = p.fd
         /\ p2.searched = SearchedTo(k)
    BY <1>1, <1>4, <1>7, <1>12 DEF Moved
  <1>14. GrepOK(p2, d2, k2, b2)
    BY <1>2, <1>7, <1>11, <1>13 DEF GrepOK
  <1> QED
    BY <1>5, <1>13, <1>14, GrepKept DEF p2, d2, k2, b2

LEMMA GrepKeeps ==
  ASSUME ReadyInv, ProgramsInv, NEW t \in Terminals, grep(t)
  PROVE  Kept(t)
  <1> QED
    BY GrepArgsKeeps, GrepOpenKeeps, GrepNextKeeps, GrepSkipKeeps, GrepOpenFileKeeps,
       GrepReadKeeps, GrepCloseKeeps DEF grep

-----------------------------------------------------------------------------
(* Any other program                                                        *)

\* None of its descriptors ever is the directory's.
LEMMA AnyCallsKeep ==
  ASSUME ReadyInv, NEW t \in Terminals, AnyOK(file_desc_array[t]), FilesCall(t)
  PROVE  /\ CallAlone(t) /\ AnyOK(file_desc_array'[t])
         /\ read_dir_flag'[t] = read_dir_flag[t]
  <1> DEFINE d == file_desc_array[t]
             d2 == file_desc_array'[t]
             k == read_dir_flag[t]
             k2 == read_dir_flag'[t]
             b == buf[t]
             b2 == buf'[t]
             r2 == ret'[t]
  <1>1. d \in [FDs -> Descriptors] /\ AnyOK(d)
    BY ReadyDomains
  <1>2. OpenFDs \subseteq FDs
    BY FilesAssumption DEF OpenFDs, FDs
  <1>3. ASSUME NEW name \in Names, sys_open(t, name)
        PROVE  CallAlone(t) /\ AnyOK(d2) /\ k2 = k
    <2>1. CallAlone(t) /\ OpenRel(d, name, d2, r2) /\ k2 = k
      BY <1>3, OpenAt
    <2> DEFINE dentry == read_dentry_by_name(name)
               new == Desc(dentry.file_type, InodeOf(dentry, name))
    <2>2. Matches(name) # {} => new.file_ops_table # "directory"
      <3> SUFFICES ASSUME Matches(name) # {} PROVE new.file_ops_table # "directory"
        OBVIOUS
      <3>1. IsString(name)
        BY FilesAssumption, SequenceIsString
      <3>2. PICK i \in 1 .. entries : Name(i) = CString(name) /\ dentry = dir_entries[i]
        BY <3>1, LookupIs
      <3>3. dentry.file_type # "directory"
        BY <3>2, ImageOfProgramsAssumption
      <3> QED
        BY <3>3 DEF Desc
    <2>3. d2 = d \/ (Matches(name) # {} /\ r2 \in OpenFDs /\ d2 = [d EXCEPT ![r2] = new])
      BY <2>1 DEF OpenRel
    <2> HIDE DEF new, d, d2, k, k2, r2
    <2>4. AnyOK(d2)
      <3>1. CASE d2 = d
        BY <1>1, <3>1
      <3>2. CASE Matches(name) # {} /\ r2 \in OpenFDs /\ d2 = [d EXCEPT ![r2] = new]
        <4>1. \A g \in FDs : d2[g] = d[g] \/ d2[g] = new
          BY <1>1, <3>2
        <4> QED
          BY <1>1, <2>2, <3>2, <4>1 DEF AnyOK
      <3> QED
        BY <2>3, <3>1, <3>2
    <2> QED
      BY <2>1, <2>4
  <1>4. ASSUME NEW fd, sys_close(t, fd)
        PROVE  CallAlone(t) /\ AnyOK(d2) /\ k2 = k
    <2>1. CallAlone(t) /\ CloseRel(d, fd, d2, r2) /\ k2 = k
      BY <1>4, CloseAt
    <2> HIDE DEF d, d2, k, k2, r2
    <2>2. CASE d2 = d
      BY <1>1, <2>1, <2>2
    <2>3. CASE fd \in OpenFDs /\ d2 = [d EXCEPT ![fd].flags = 0]
      <3>1. d[fd] \in Descriptors
        BY <1>1, <1>2, <2>3
      <3>2. \A g \in FDs : d2[g].file_ops_table = d[g].file_ops_table
        BY <1>1, <1>2, <2>3, <3>1 DEF Descriptors
      <3> QED
        BY <1>1, <2>1, <3>2 DEF AnyOK
    <2> QED
      BY <2>1, <2>2, <2>3 DEF CloseRel
  <1>5. ASSUME NEW fd, NEW n, sys_read(t, fd, n)
        PROVE  CallAlone(t) /\ AnyOK(d2) /\ k2 = k
    <2>1. CallAlone(t) /\ ReadRel(d, k, b, fd, n, d2, k2, b2, r2)
      BY <1>5, ReadAt
    <2> HIDE DEF d, d2, k, k2, b, b2, r2
    <2>2. OpsIn(d, fd) # "directory"
      BY <1>1 DEF OpsIn, AnyOK
    <2> DEFINE data == read_data(d[fd].inode, d[fd].file_position, n)
    <2>3. k2 = k /\ (d2 = d \/ (fd \in FDs /\ d2 = [d EXCEPT ![fd].file_position = @ + Len(data)]))
      BY <2>1, <2>2 DEF ReadRel, OpsIn
    <2> HIDE DEF data
    <2>4. CASE d2 = d
      BY <1>1, <2>1, <2>3, <2>4
    <2>5. CASE fd \in FDs /\ d2 = [d EXCEPT ![fd].file_position = @ + Len(data)]
      <3>1. d[fd] \in Descriptors
        BY <1>1, <2>5
      <3>2. \A g \in FDs : d2[g].file_ops_table = d[g].file_ops_table
        BY <1>1, <2>5, <3>1 DEF Descriptors
      <3> QED
        BY <1>1, <2>1, <2>3, <3>2 DEF AnyOK
    <2> QED
      BY <2>3, <2>4, <2>5
  <1>6. ASSUME NEW fd, NEW data, sys_write(t, fd, data)
        PROVE  CallAlone(t) /\ AnyOK(d2) /\ k2 = k
    BY <1>1, <1>6, WriteAt
  <1> HIDE DEF d, d2, k, k2, b, b2, r2
  <1>7. CallAlone(t) /\ AnyOK(d2) /\ k2 = k
    BY <1>3, <1>4, <1>5, <1>6 DEF FilesCall
  <1> QED
    BY <1>7 DEF d2, k, k2

LEMMA AnyKeeps ==
  ASSUME ReadyInv, ProgramsInv, NEW t \in Terminals, AnyCall(t)
  PROVE  Kept(t)
  <1> DEFINE p2 == proc'[t]
             d2 == file_desc_array'[t]
             k2 == read_dir_flag'[t]
             b2 == buf'[t]
             o2 == printed'[t]
             r2 == ret'[t]
             arg2 == argument_array'[t]
  <1>1. /\ proc[t].program = "any" /\ AnyOK(file_desc_array[t]) /\ read_dir_flag[t] = 0
        /\ UNCHANGED kernelVars
    BY DEF AnyCall, At, ProgramsInv, OKAt, ProgramOK
  <1>2. CallAlone(t) /\ AnyOK(d2) /\ k2 = 0 /\ OnlyAt(t, proc, proc') /\ p2.program = "any"
    <2>1. CASE FilesCall(t) /\ UNCHANGED proc
      <3>1. CallAlone(t) /\ AnyOK(d2) /\ k2 = 0
        BY <1>1, <2>1, AnyCallsKeep
      <3>2. OnlyAt(t, proc, proc') /\ p2.program = "any"
        BY <1>1, <2>1, ReadyDomains DEF OnlyAt
      <3> QED
        BY <3>1, <3>2
    <2>2. CASE Goto(t, "return 0") /\ UNCHANGED fvars
      <3>1. CallAlone(t) /\ AnyOK(d2) /\ k2 = 0
        BY <1>1, <2>2, ReadyDomains DEF CallAlone, OnlyAt, fvars
      <3>2. OnlyAt(t, proc, proc') /\ p2.program = "any"
        BY <1>1, <2>2, GotoAt DEF Moved
      <3> QED
        BY <3>1, <3>2
    <2> QED
      BY <2>1, <2>2 DEF AnyCall
  <1>3. Alone(t)
    BY <1>1, <1>2, ArgumentKept DEF Alone
  <1> HIDE DEF p2, d2, k2, b2, o2, r2, arg2
  <1>4. ProgramOK(p2, d2, k2, r2, b2, o2, arg2)
    BY <1>2 DEF ProgramOK
  <1>5. OKAt(t)'
    BY <1>4 DEF OKAt, p2, d2, k2, r2, b2, o2, arg2
  <1> QED
    BY <1>3, <1>5 DEF Kept

-----------------------------------------------------------------------------
(* syserr                                                                   *)

\* The calls that have to fail while nothing but the standard descriptors is open.
MustFail ==
  LET fds == -1 .. FILE_DESC_ARR_SIZE
  IN  {Open(WrongNames[k]) : k \in DOMAIN WrongNames} \cup {Close(fd) : fd \in fds}
        \cup {Read(fd) : fd \in fds \ {0}} \cup {Write(fd) : fd \in fds \ {1}}

\* The calls of syserr by their place: err_open_lots is 7 to 2 N + 3.
LEMMA SysErrTable ==
  LET N == FILE_DESC_ARR_SIZE
  IN  /\ Len(SysErrCalls) \in Nat /\ Len(SysErrCalls) >= N + N + 3
      /\ \A i \in 1 .. Len(SysErrCalls) :
           /\ i <= 6 \/ i > N + N + 3 => SysErrCalls[i] \in MustFail
           /\ i \in 7 .. N + 5 => SysErrCalls[i] = Open(<<".">>)
           /\ i \in N + 6 .. N + N + 3 => SysErrCalls[i] = Close(i - N - 4)
           /\ InOpenLots(i) <=> i \in 7 .. N + N + 3
  <1> DEFINE N == FILE_DESC_ARR_SIZE
             dot == Open(<<".">>)
             U == MustFail \cup {dot}
  <1>1. N \in Nat /\ N >= 2
    BY FilesAssumption
  <1>2. /\ \A k \in DOMAIN WrongNames : Open(WrongNames[k]) \in U
        /\ \A fd \in -1 .. N : Close(fd) \in U
        /\ \A fd \in (-1 .. N) \ {0} : Read(fd) \in U
        /\ \A fd \in (-1 .. N) \ {1} : Write(fd) \in U
    BY DEF MustFail
  <1>3. /\ \A k \in DOMAIN WrongNames : Open(WrongNames[k]) \in MustFail
        /\ \A fd \in -1 .. N : Close(fd) \in MustFail
        /\ \A fd \in (-1 .. N) \ {0} : Read(fd) \in MustFail
        /\ \A fd \in (-1 .. N) \ {1} : Write(fd) \in MustFail
    BY DEF MustFail
  <1> HIDE DEF MustFail
  <1> DEFINE M == MustFail
  <1> HIDE DEF M
  <1>4. \A n \in Nat : \A V : \A s \in [1 .. n -> V] : s \in Seq(V) /\ Len(s) = n
    <2> TAKE n \in Nat
    <2> TAKE V
    <2> TAKE s \in [1 .. n -> V]
    <2>1. s \in Seq(V)
      BY SeqDef
    <2>2. DOMAIN s = 1 .. n /\ DOMAIN s = 1 .. Len(s) /\ Len(s) \in Nat
      BY <2>1, LenProperties
    <2> QED
      BY <2>1, <2>2
  <1> DEFINE A == BadFd(-1)
             B == BadFd(N)
             C == OpenLots
             D == CloseLots
             E == FailingCalls
             w == [k \in DOMAIN WrongNames |-> Open(WrongNames[k])]
             c0 == Each(Close, 0)
             r2 == Each(Read, 2)
             w2 == Each(Write, 2)
             last == <<Write(0), Read(1)>>
  <1>5. A \in Seq(M) /\ Len(A) = 3 /\ B \in Seq(M) /\ Len(B) = 3
    <2>1. -1 \in (-1 .. N) \ {0} /\ -1 \in (-1 .. N) \ {1} /\ N \in (-1 .. N) \ {0}
            /\ N \in (-1 .. N) \ {1} /\ -1 \in -1 .. N /\ N \in -1 .. N
      BY <1>1
    <2>2. /\ Read(-1) \in M /\ Write(-1) \in M /\ Close(-1) \in M
          /\ Read(N) \in M /\ Write(N) \in M /\ Close(N) \in M
      BY <1>3, <2>1 DEF M
    <2> QED
      BY <2>2 DEF BadFd
  <1>6. C \in Seq({dot}) /\ Len(C) = N - 1 /\ \A j \in 1 .. N - 1 : C[j] = dot
    <2>1. C = [j \in 1 .. N - 1 |-> dot]
      BY DEF OpenLots
    <2> HIDE DEF C, dot
    <2>2. C \in [1 .. N - 1 -> {dot}] /\ N - 1 \in Nat
      BY <1>1, <2>1
    <2> QED
      BY <1>4, <2>1, <2>2
  <1>7. D \in Seq(M) /\ Len(D) = N - 2 /\ \A j \in 1 .. N - 2 : D[j] = Close(j + 1)
    <2>1. D = [j \in 1 .. N - 2 |-> Close(2 + j - 1)]
      BY DEF CloseLots, Each
    <2>2. \A j \in 1 .. N - 2 : 2 + j - 1 = j + 1 /\ j + 1 \in -1 .. N
      BY <1>1
    <2>3. \A j \in 1 .. N - 2 : D[j] = Close(j + 1)
      BY <2>1, <2>2
    <2>4. \A j \in 1 .. N - 2 : D[j] \in M
      BY <1>3, <2>2, <2>3 DEF M
    <2> HIDE DEF D
    <2>5. D \in [1 .. N - 2 -> M] /\ N - 2 \in Nat
      BY <1>1, <2>1, <2>4
    <2> QED
      BY <1>4, <2>3, <2>5
  <1>8. E \in Seq(M)
    <2>1. w \in Seq(M)
      <3>1. Len(WrongNames) \in Nat /\ DOMAIN WrongNames = 1 .. Len(WrongNames)
        BY UserProgramsAssumption, LenProperties
      <3>2. w \in [1 .. Len(WrongNames) -> M]
        BY <1>3, <3>1 DEF M
      <3> QED
        BY <1>4, <3>1, <3>2
    <2>2. c0 \in Seq(M)
      <3>1. \A j \in 1 .. N - 0 : 0 + j - 1 \in -1 .. N
        BY <1>1
      <3>2. c0 \in [1 .. N - 0 -> M] /\ N - 0 \in Nat
        BY <1>1, <1>3, <3>1 DEF M, Each
      <3> QED
        BY <1>4, <3>2
    <2>3. r2 \in Seq(M) /\ w2 \in Seq(M)
      <3>1. \A j \in 1 .. N - 2 : 2 + j - 1 \in (-1 .. N) \ {0} /\ 2 + j - 1 \in (-1 .. N) \ {1}
        BY <1>1
      <3>2. N - 2 \in Nat
        BY <1>1
      <3>3. r2 \in [1 .. N - 2 -> M]
        BY <1>3, <3>1 DEF M, Each
      <3>4. w2 \in [1 .. N - 2 -> M]
        BY <1>3, <3>1 DEF M, Each
      <3> QED
        BY <1>4, <3>2, <3>3, <3>4
    <2>4. last \in Seq(M)
      <3>1. 0 \in (-1 .. N) \ {1} /\ 1 \in (-1 .. N) \ {0}
        BY <1>1
      <3>2. Write(0) \in M /\ Read(1) \in M
        BY <1>3, <3>1 DEF M
      <3> QED
        BY <3>2
    <2>5. E = w \o c0 \o r2 \o w2 \o last
      BY DEF FailingCalls
    <2> HIDE DEF E, w, c0, r2, w2, last
    <2>6. w \o c0 \in Seq(M)
      BY <2>1, <2>2, ConcatProperties
    <2>7. w \o c0 \o r2 \in Seq(M)
      BY <2>3, <2>6, ConcatProperties
    <2>8. w \o c0 \o r2 \o w2 \in Seq(M)
      BY <2>3, <2>7, ConcatProperties
    <2> QED
      BY <2>4, <2>5, <2>8, ConcatProperties
  <1>9. M \subseteq U /\ {dot} \subseteq U
    BY DEF M
  <1>10. /\ A \in Seq(U) /\ B \in Seq(U) /\ C \in Seq(U) /\ D \in Seq(U) /\ E \in Seq(U)
    <2> HIDE DEF A, B, C, D, E, U, dot
    <2> QED
      BY <1>5, <1>6, <1>7, <1>8, <1>9, SeqMonotonic
  <1>11. SysErrCalls = A \o B \o C \o D \o E
    BY DEF SysErrCalls
  <1>12. InOpenLots(0) \in BOOLEAN /\ \A i : InOpenLots(i) <=> i \in 7 .. 6 + Len(C) + Len(D)
    BY DEF InOpenLots
  <1>13. E \in Seq(M) /\ Len(E) \in Nat /\ \A j \in 1 .. Len(E) : E[j] \in M
    BY <1>8, LenProperties, ElementOfSeq
  <1> HIDE DEF A, B, C, D, E, U, dot
  <1> DEFINE x1 == A \o B
             x2 == x1 \o C
             x3 == x2 \o D
             x4 == x3 \o E
  <1>14. /\ x1 \in Seq(M) /\ x1 \in Seq(U) /\ Len(x1) = 6 /\ \A j \in 1 .. 6 : x1[j] \in M
    <2>1. x1 \in Seq(M) /\ Len(x1) = Len(A) + Len(B)
      BY <1>5, ConcatProperties
    <2>2. x1 \in Seq(U)
      BY <1>9, <2>1, SeqMonotonic
    <2>3. Len(x1) = 6
      BY <1>5, <2>1
    <2> QED
      BY <2>1, <2>2, <2>3, ElementOfSeq
  <1> HIDE DEF x1
  <1>15. /\ x2 \in Seq(U) /\ Len(x2) = N + 5
         /\ \A i \in 1 .. N + 5 : x2[i] = IF i <= 6 THEN x1[i] ELSE C[i - 6]
    <2>1. /\ x2 \in Seq(U) /\ Len(x2) = Len(x1) + Len(C)
          /\ \A i \in 1 .. Len(x1) + Len(C) : x2[i] = IF i <= Len(x1) THEN x1[i] ELSE C[i - Len(x1)]
      BY <1>10, <1>14, ConcatProperties
    <2>2. Len(x1) + Len(C) = N + 5 /\ Len(x1) = 6
      BY <1>1, <1>6, <1>14
    <2> QED
      BY <2>1, <2>2
  <1> HIDE DEF x2
  <1>16. /\ x3 \in Seq(U) /\ Len(x3) = N + N + 3
         /\ \A i \in 1 .. N + N + 3 : x3[i] = IF i <= N + 5 THEN x2[i] ELSE D[i - (N + 5)]
    <2>1. /\ x3 \in Seq(U) /\ Len(x3) = Len(x2) + Len(D)
          /\ \A i \in 1 .. Len(x2) + Len(D) : x3[i] = IF i <= Len(x2) THEN x2[i] ELSE D[i - Len(x2)]
      BY <1>10, <1>15, ConcatProperties
    <2>2. Len(x2) + Len(D) = N + N + 3 /\ Len(x2) = N + 5
      BY <1>1, <1>7, <1>15
    <2> QED
      BY <2>1, <2>2
  <1> HIDE DEF x3
  <1> DEFINE K == N + N + 3
  <1>17. /\ x4 \in Seq(U) /\ Len(x4) = K + Len(E)
         /\ \A i \in 1 .. K + Len(E) : x4[i] = IF i <= K THEN x3[i] ELSE E[i - K]
    <2>1. /\ x4 \in Seq(U) /\ Len(x4) = Len(x3) + Len(E)
          /\ \A i \in 1 .. Len(x3) + Len(E) : x4[i] = IF i <= Len(x3) THEN x3[i] ELSE E[i - Len(x3)]
      BY <1>10, <1>16, ConcatProperties
    <2>2. Len(x3) = K
      BY <1>16
    <2> QED
      BY <2>1, <2>2
  <1>18. SysErrCalls = x4
    BY <1>11 DEF x1, x2, x3
  <1> HIDE DEF x4
  <1>19. Len(x4) \in Nat /\ Len(x4) >= K
    BY <1>1, <1>13, <1>17
  <1>20. ASSUME NEW i \in 1 .. Len(x4)
         PROVE  /\ i <= 6 \/ i > K => x4[i] \in M
                /\ i \in 7 .. N + 5 => x4[i] = dot
                /\ i \in N + 6 .. K => x4[i] = Close(i - N - 4)
    <2>1. i \in Nat /\ x4[i] = IF i <= K THEN x3[i] ELSE E[i - K]
      BY <1>17, <1>19
    <2>2. CASE i <= 6
      <3>1. i \in 1 .. 6 /\ i \in 1 .. N + 5 /\ i \in 1 .. K
        BY <1>1, <2>1, <2>2
      <3>2. x4[i] = x1[i]
        BY <1>15, <1>16, <2>1, <2>2, <3>1
      <3> QED
        BY <1>1, <1>14, <2>1, <2>2, <3>1, <3>2
    <2>3. CASE i \in 7 .. N + 5
      <3>1. ~(i <= 6) /\ i \in 1 .. N + 5 /\ i \in 1 .. K /\ i - 6 \in 1 .. N - 1
        BY <1>1, <2>3
      <3>2. x4[i] = C[i - 6]
        BY <1>15, <1>16, <2>1, <3>1
      <3>3. x4[i] = dot
        BY <1>6, <3>1, <3>2
      <3> QED
        BY <1>1, <2>3, <3>1, <3>3
    <2>4. CASE i \in N + 6 .. K
      <3>1. ~(i <= N + 5) /\ i \in 1 .. K /\ i - (N + 5) \in 1 .. N - 2
            /\ i - (N + 5) + 1 = i - N - 4
        BY <1>1, <2>4
      <3>2. x4[i] = D[i - (N + 5)]
        BY <1>16, <2>1, <3>1
      <3>3. x4[i] = Close(i - N - 4)
        BY <1>7, <3>1, <3>2
      <3> QED
        BY <1>1, <2>4, <3>3
    <2>5. CASE i > K
      <3>1. i - K \in 1 .. Len(E) /\ ~(i <= K)
        BY <1>1, <1>13, <1>17, <2>1, <2>5
      <3>2. x4[i] \in M
        BY <1>13, <2>1, <3>1
      <3> QED
        BY <1>1, <2>1, <2>5, <3>2
    <2> QED
      BY <1>1, <2>1, <2>2, <2>3, <2>4, <2>5
  <1>21. 6 + Len(C) + Len(D) = K
    BY <1>1, <1>6, <1>7
  <1>22. \A i : InOpenLots(i) <=> i \in 7 .. K
    BY <1>12, <1>21
  <1> QED
    BY <1>18, <1>19, <1>20, <1>22 DEF dot, M

LEMMA CountedIs ==
  ASSUME NEW r, IsProcess(r), NEW n, NEW cnt, NEW fail, NEW pc
  PROVE  LET p2 == [r EXCEPT !.calls = n, !.cnt = cnt, !.fail = fail, !.pc = pc]
         IN  /\ p2.program = r.program /\ p2.calls = n /\ p2.cnt = cnt
             /\ p2.fail = fail /\ p2.pc = pc
  <1>1. PICK S : r \in ProcessRecords(S)
    BY DEF IsProcess
  <1> QED
    BY <1>1 DEF ProcessRecords

\* What a call of syserr does, on the terminal's own values.
SysErrRel(c, d, k, b, o, d2, k2, b2, o2, r2) ==
  /\ c.call = "open" => OpenRel(d, c.name, d2, r2) /\ k2 = k
  /\ c.call = "close" => CloseRel(d, c.fd, d2, r2) /\ k2 = k
  /\ c.call = "read" => ReadRel(d, k, b, c.fd, FILENAME_LEN - 1, d2, k2, b2, r2)
  /\ c.call = "write" => WriteRel(d, o, c.fd, <<NUL>>, o2, r2) /\ d2 = d /\ k2 = k

LEMMA SysErrCallAt ==
  ASSUME ReadyInv, NEW t \in Terminals, NEW c \in Calls,
         CASE c.call = "open"  -> sys_open(t, c.name)
           [] c.call = "close" -> sys_close(t, c.fd)
           [] c.call = "read"  -> sys_read(t, c.fd, FILENAME_LEN - 1)
           [] c.call = "write" -> sys_write(t, c.fd, <<NUL>>)
  PROVE  /\ CallAlone(t)
         /\ SysErrRel(c, file_desc_array[t], read_dir_flag[t], buf[t], printed[t],
                      file_desc_array'[t], read_dir_flag'[t], buf'[t], printed'[t], ret'[t])
  <1>1. c.call \in {"open", "close", "read", "write"}
    BY DEF Calls
  <1>2. CASE c.call = "open"
    <2>1. sys_open(t, c.name)
      BY <1>2
    <2> QED
      BY <1>2, <2>1, OpenAt DEF SysErrRel
  <1>3. CASE c.call = "close"
    <2>1. sys_close(t, c.fd)
      BY <1>3
    <2> QED
      BY <1>3, <2>1, CloseAt DEF SysErrRel
  <1>4. CASE c.call = "read"
    <2>1. sys_read(t, c.fd, FILENAME_LEN - 1)
      BY <1>4
    <2> QED
      BY <1>4, <2>1, ReadAt DEF SysErrRel
  <1>5. CASE c.call = "write"
    <2>1. sys_write(t, c.fd, <<NUL>>)
      BY <1>5
    <2> QED
      BY <1>5, <2>1, WriteAt DEF SysErrRel
  <1> QED
    BY <1>1, <1>2, <1>3, <1>4, <1>5

\* With the standard descriptors alone, each of those calls fails and changes
\* nothing.
LEMMA MustFailFails ==
  ASSUME NEW c \in MustFail, NEW d, Standard(d), \A g \in OpenFDs : d[g].flags # 1,
         NEW k, NEW b, NEW o, NEW d2, NEW k2, NEW b2, NEW o2, NEW r2,
         SysErrRel(c, d, k, b, o, d2, k2, b2, o2, r2)
  PROVE  r2 = -1 /\ d2 = d /\ k2 = k
  <1> DEFINE N == FILE_DESC_ARR_SIZE
             fds == -1 .. N
  <1>1. N \in Nat /\ N >= 2
    BY FilesAssumption
  <1>2. \A fd \in fds : fd \in FDs => fd = 0 \/ fd = 1 \/ fd \in OpenFDs
    BY <1>1 DEF FDs, OpenFDs
  <1>3. \A fd \in fds : OpsIn(d, fd) = IF fd = 0 THEN "stdin" ELSE IF fd = 1 THEN "stdout" ELSE "none"
    <2> TAKE fd \in fds
    <2>1. 0 \in FDs /\ 1 \in FDs
      BY <1>1 DEF FDs
    <2>2. CASE fd = 0 \/ fd = 1
      BY <2>1, <2>2 DEF OpsIn, Standard
    <2>3. CASE fd # 0 /\ fd # 1
      BY <1>2, <2>3 DEF OpsIn
    <2> QED
      BY <2>2, <2>3
  <1>4. CASE c \in {Open(WrongNames[j]) : j \in DOMAIN WrongNames}
    <2>1. PICK j \in DOMAIN WrongNames : c = Open(WrongNames[j])
      BY <1>4
    <2> DEFINE name == WrongNames[j]
    <2>2. c.call = "open" /\ c.name = name
      BY <2>1 DEF Open
    <2>3. IsString(name)
      <3>1. WrongNames[j] \in Seq(STRING)
        BY UserProgramsAssumption, LenProperties
      <3> QED
        BY <3>1, SequenceIsString
    <2>4. \A i \in 1 .. entries : CString(name) # Name(i)
      BY ImageOfProgramsAssumption
    <2>5. Matches(name) = {}
      <3> HIDE DEF name
      <3> QED
        BY <2>3, <2>4, LookupIs
    <2>6. OpenRel(d, name, d2, r2) /\ k2 = k
      BY <2>2 DEF SysErrRel
    <2> QED
      BY <2>5, <2>6 DEF OpenRel
  <1>5. CASE c \in {Close(fd) : fd \in fds}
    <2>1. PICK fd \in fds : c = Close(fd)
      BY <1>5
    <2>2. c.call = "close" /\ c.fd = fd
      BY <2>1 DEF Close
    <2>3. CloseRel(d, fd, d2, r2) /\ k2 = k
      BY <2>2 DEF SysErrRel
    <2> QED
      BY <2>3 DEF CloseRel
  <1>6. CASE c \in {Read(fd) : fd \in fds \ {0}}
    <2>1. PICK fd \in fds \ {0} : c = Read(fd)
      BY <1>6
    <2>2. c.call = "read" /\ c.fd = fd
      BY <2>1 DEF Read
    <2>3. ReadRel(d, k, b, fd, FILENAME_LEN - 1, d2, k2, b2, r2)
      BY <2>2 DEF SysErrRel
    <2>4. OpsIn(d, fd) \in {"none", "stdout"}
      BY <1>3
    <2> QED
      BY <2>3, <2>4 DEF ReadRel
  <1>7. CASE c \in {Write(fd) : fd \in fds \ {1}}
    <2>1. PICK fd \in fds \ {1} : c = Write(fd)
      BY <1>7
    <2>2. c.call = "write" /\ c.fd = fd
      BY <2>1 DEF Write
    <2>3. WriteRel(d, o, fd, <<NUL>>, o2, r2) /\ d2 = d /\ k2 = k
      BY <2>2 DEF SysErrRel
    <2>4. OpsIn(d, fd) \in {"none", "stdin"}
      BY <1>3
    <2> QED
      BY <2>3, <2>4 DEF WriteRel
  <1> QED
    BY <1>4, <1>5, <1>6, <1>7 DEF MustFail

\* The descriptors open after n calls.
OpenAfter(n) ==
  {g \in OpenFDs : n - FILE_DESC_ARR_SIZE - 3 <= g /\ g < n - 4}

\* The call after n calls.
SysErrNext(n, d, k, b, o, d2, k2, b2, o2, r2) ==
  /\ n \in Nat /\ n + 1 <= Len(SysErrCalls) /\ d \in [FDs -> Descriptors]
  /\ Standard(d) /\ \A g \in OpenFDs : d[g].flags = 1 <=> g \in OpenAfter(n)
  /\ SysErrRel(SysErrCalls[n + 1], d, k, b, o, d2, k2, b2, o2, r2)

\* One call further: the table, the failed opens and the other results.
LEMMA SysErrAdvances ==
  ASSUME NEW n, NEW d, NEW k, NEW b, NEW o, NEW d2, NEW k2, NEW b2, NEW o2, NEW r2,
         SysErrNext(n, d, k, b, o, d2, k2, b2, o2, r2)
  PROVE  LET i == n + 1
             c == SysErrCalls[i]
             N == FILE_DESC_ARR_SIZE
         IN  /\ Standard(d2) /\ k2 = k
             /\ \A g \in OpenFDs : d2[g].flags = 1 <=> g \in OpenAfter(i)
             /\ InOpenLots(i) /\ c.call = "open" /\ r2 = -1 <=> i = N + 5
             /\ InOpenLots(i) \/ r2 = -1
  <1> DEFINE i == n + 1
             c == SysErrCalls[i]
             N == FILE_DESC_ARR_SIZE
             K == N + N + 3
  <1>0. /\ n \in Nat /\ n + 1 <= Len(SysErrCalls) /\ d \in [FDs -> Descriptors]
        /\ Standard(d) /\ \A g \in OpenFDs : d[g].flags = 1 <=> g \in OpenAfter(n)
        /\ SysErrRel(SysErrCalls[n + 1], d, k, b, o, d2, k2, b2, o2, r2)
    BY DEF SysErrNext
  <1> USE <1>0
  <1>1. N \in Nat /\ N >= 2
    BY FilesAssumption
  <1>2. i \in 1 .. Len(SysErrCalls) /\ i \in Nat /\ n = i - 1
    <2>1. Len(SysErrCalls) \in Nat
      BY SysErrTable
    <2> QED
      BY <2>1
  <1>3. /\ i <= 6 \/ i > K => c \in MustFail
        /\ i \in 7 .. N + 5 => c = Open(<<".">>)
        /\ i \in N + 6 .. K => c = Close(i - N - 4)
        /\ InOpenLots(i) <=> i \in 7 .. K
    BY <1>2, SysErrTable
  <1>4. SysErrRel(c, d, k, b, o, d2, k2, b2, o2, r2)
    OBVIOUS
  <1>5. /\ \A g \in OpenFDs : d[g].flags = 1 <=> n - N - 3 <= g /\ g < n - 4
        /\ \A g \in OpenFDs : g \in Nat /\ g >= 2 /\ g < N /\ g \in FDs
        /\ 0 \in FDs /\ 1 \in FDs /\ 0 \notin OpenFDs /\ 1 \notin OpenFDs
    BY <1>1 DEF OpenAfter, OpenFDs, FDs
  <1> HIDE DEF i, c
  <1>6. CASE i <= 6 \/ i > K
    <2>1. \A g \in OpenFDs : d[g].flags # 1
      BY <1>1, <1>2, <1>5, <1>6
    <2>2. r2 = -1 /\ d2 = d /\ k2 = k
      BY <1>3, <1>4, <1>6, <2>1, MustFailFails
    <2>3. \A g \in OpenFDs : g \notin OpenAfter(i)
      BY <1>1, <1>2, <1>5, <1>6 DEF OpenAfter
    <2>4. ~InOpenLots(i) /\ i # N + 5
      BY <1>1, <1>2, <1>3, <1>6
    <2>5. \A g \in OpenFDs : d2[g].flags = 1 <=> g \in OpenAfter(i)
      BY <2>1, <2>2, <2>3
    <2> QED
      BY <2>2, <2>4, <2>5 DEF i, c
  <1>7. CASE i \in 7 .. N + 5
    <2>1. c.call = "open" /\ c.name = <<".">> /\ InOpenLots(i)
      BY <1>1, <1>2, <1>3, <1>7 DEF Open
    <2>2. OpenRel(d, <<".">>, d2, r2) /\ k2 = k
      BY <1>4, <2>1 DEF SysErrRel
    <2> DEFINE dentry == read_dentry_by_name(<<".">>)
               new == Desc(dentry.file_type, InodeOf(dentry, <<".">>))
    <2>3. Matches(<<".">>) # {} /\ new.flags = 1
      BY DotIsDirectory DEF Desc
    <2>4. CASE i = N + 5
      <3>1. \A g \in OpenFDs : d[g].flags = 1
        BY <1>1, <1>2, <1>5, <2>4
      <3>2. r2 = -1 /\ d2 = d
        BY <2>2, <3>1 DEF OpenRel
      <3>3. \A g \in OpenFDs : g \in OpenAfter(i)
        BY <1>1, <1>2, <1>5, <2>4 DEF OpenAfter
      <3>4. \A g \in OpenFDs : d2[g].flags = 1 <=> g \in OpenAfter(i)
        BY <3>1, <3>2, <3>3
      <3> QED
        BY <2>1, <2>2, <2>4, <3>2, <3>4 DEF i, c
    <2>5. CASE i # N + 5
      <3>1. n - 4 \in OpenFDs
        BY <1>1, <1>2, <1>7, <2>5 DEF OpenFDs
      <3>2. d[n - 4].flags # 1
        BY <1>2, <1>5, <3>1
      <3>3. r2 \in OpenFDs /\ d[r2].flags # 1 /\ d2 = [d EXCEPT ![r2] = new]
            /\ \A g \in OpenFDs : g < r2 => d[g].flags = 1
        BY <2>2, <2>3, <3>1, <3>2 DEF OpenRel
      <3>4. r2 = n - 4
        <4>1. ~(n - 4 < r2)
          BY <3>1, <3>2, <3>3
        <4>2. ~(r2 < n - 4)
          BY <1>1, <1>2, <1>5, <1>7, <3>3
        <4> QED
          BY <1>2, <1>5, <3>3, <4>1, <4>2
      <3> HIDE DEF new
      <3>5. d2[r2] = new /\ \A g \in FDs \ {r2} : d2[g] = d[g]
        BY <1>5, <3>3
      <3>6. Standard(d2)
        BY <1>5, <3>3, <3>5 DEF Standard
      <3>7. ASSUME NEW g \in OpenFDs PROVE d2[g].flags = 1 <=> g \in OpenAfter(i)
        <4>1. g \in OpenAfter(i) <=> i - N - 3 <= g /\ g < i - 4
          BY DEF OpenAfter
        <4>2. CASE g = r2
          BY <1>1, <1>2, <1>5, <1>7, <2>3, <3>4, <3>5, <4>1, <4>2
        <4>3. CASE g # r2
          <5>1. d2[g].flags = 1 <=> n - N - 3 <= g /\ g < n - 4
            BY <1>5, <3>5, <4>3
          <5>2. i - N - 3 <= g /\ n - N - 3 <= g
            BY <1>1, <1>2, <1>5, <1>7
          <5>3. g < i - 4 <=> g < n - 4
            BY <1>2, <1>5, <3>4, <4>3
          <5> QED
            BY <4>1, <5>1, <5>2, <5>3
        <4> QED
          BY <4>2, <4>3
      <3>8. r2 # -1
        BY <1>5, <3>3
      <3> QED
        BY <2>1, <2>2, <2>5, <3>6, <3>7, <3>8 DEF i, c
    <2> QED
      BY <2>4, <2>5
  <1>8. CASE i \in N + 6 .. K
    <2> DEFINE fd == i - N - 4
    <2>1. c.call = "close" /\ c.fd = fd /\ InOpenLots(i) /\ i # N + 5
      BY <1>1, <1>2, <1>3, <1>8 DEF Close
    <2>2. CloseRel(d, fd, d2, r2) /\ k2 = k
      BY <1>4, <2>1 DEF SysErrRel
    <2>3. fd \in OpenFDs /\ fd = n - N - 3
      BY <1>1, <1>2, <1>8 DEF OpenFDs
    <2>4. d[fd].flags = 1
      BY <1>1, <1>2, <1>5, <2>3
    <2> HIDE DEF fd
    <2>5. d2 = [d EXCEPT ![fd].flags = 0]
      BY <2>2, <2>3, <2>4 DEF CloseRel
    <2>6. d2[fd].flags = 0 /\ \A g \in FDs \ {fd} : d2[g] = d[g]
      <3>1. d[fd] \in Descriptors /\ fd \in FDs
        BY <1>5, <2>3
      <3> QED
        BY <2>5, <3>1 DEF Descriptors
    <2>7. Standard(d2)
      BY <1>5, <2>3, <2>6 DEF Standard
    <2>8. ASSUME NEW g \in OpenFDs PROVE d2[g].flags = 1 <=> g \in OpenAfter(i)
      <3>1. g \in OpenAfter(i) <=> i - N - 3 <= g /\ g < i - 4
        BY DEF OpenAfter
      <3>2. CASE g = fd
        BY <1>1, <1>2, <1>5, <2>3, <2>6, <3>1, <3>2
      <3>3. CASE g # fd
        <4>1. d2[g].flags = 1 <=> n - N - 3 <= g /\ g < n - 4
          BY <1>5, <2>6, <3>3
        <4> QED
          BY <1>1, <1>2, <1>5, <1>8, <2>3, <3>1, <3>3, <4>1
      <3> QED
        BY <3>2, <3>3
    <2>9. c.call # "open"
      BY <2>1
    <2> QED
      BY <2>1, <2>2, <2>7, <2>8, <2>9 DEF i, c
  <1> QED
    BY <1>1, <1>2, <1>6, <1>7, <1>8

LEMMA SysErrLong == Len(SysErrCalls) >= FILE_DESC_ARR_SIZE + 5
  <1> DEFINE N == FILE_DESC_ARR_SIZE
             L == Len(SysErrCalls)
  <1>1. N \in Nat /\ N >= 2
    BY FilesAssumption
  <1>2. L \in Nat /\ L >= N + N + 3
    BY SysErrTable
  <1> HIDE DEF L, N
  <1>3. L >= N + 5
    BY <1>1, <1>2
  <1> QED
    BY <1>3 DEF L, N

LEMMA SysErrKeeps ==
  ASSUME ReadyInv, ProgramsInv, NEW t \in Terminals, SysErrCall(t)
  PROVE  Kept(t)
  <1> DEFINE p == proc[t]
             d == file_desc_array[t]
             k == read_dir_flag[t]
             b == buf[t]
             o == printed[t]
             p2 == proc'[t]
             d2 == file_desc_array'[t]
             k2 == read_dir_flag'[t]
             b2 == buf'[t]
             o2 == printed'[t]
             r2 == ret'[t]
             arg2 == argument_array'[t]
             n == p.calls
             i == n + 1
             c == SysErrCalls[i]
             N == FILE_DESC_ARR_SIZE
             counts == InOpenLots(i) /\ c.call = "open" /\ r2 = -1
             wrong == ~InOpenLots(i) /\ r2 # -1
             cnt == IF counts THEN p.cnt + 1 ELSE p.cnt
             fail == p.fail \/ wrong
             pc == IF i = Len(SysErrCalls) THEN "return 0" ELSE p.pc
             q == [p EXCEPT !.calls = i, !.cnt = cnt, !.fail = fail, !.pc = pc]
  <1>1. /\ p.program = "syserr" /\ p.pc = "start" /\ SysErrOK(p, d) /\ k = 0
        /\ i <= Len(SysErrCalls) /\ UNCHANGED kernelVars
    BY DEF SysErrCall, At, ProgramsInv, OKAt, ProgramOK
  <1>2. IsProcess(p) /\ DOMAIN proc = Terminals
    BY DEF ReadyInv, UserInv, ProcessesInv
  <1>3. n \in Nat
    BY <1>2, ProcessCounts
  <1>4. (CASE c.call = "open"  -> sys_open(t, c.name)
           [] c.call = "close" -> sys_close(t, c.fd)
           [] c.call = "read"  -> sys_read(t, c.fd, FILENAME_LEN - 1)
           [] c.call = "write" -> sys_write(t, c.fd, <<NUL>>))
    BY DEF SysErrCall
  <1>5. proc' = [proc EXCEPT ![t].calls = i, ![t].cnt = cnt, ![t].fail = fail, ![t].pc = pc]
    BY DEF SysErrCall
  <1>6. proc' = [proc EXCEPT ![t] = q]
    <2> HIDE DEF i, cnt, fail, pc
    <2> QED
      BY <1>2, <1>5
  <1>7. c \in Calls
    <2>1. Len(SysErrCalls) \in Nat /\ SysErrCalls \in [1 .. Len(SysErrCalls) -> Calls]
      BY SysErrCallsType, LenProperties
    <2> QED
      BY <1>1, <1>3, <2>1
  <1>8. CallAlone(t) /\ SysErrRel(c, d, k, b, o, d2, k2, b2, o2, r2)
    <2> HIDE DEF c
    <2> QED
      BY <1>4, <1>7, SysErrCallAt
  <1>9. d \in [FDs -> Descriptors]
    BY ReadyDomains
  <1> HIDE DEF p, d, k, b, o, d2, k2, b2, o2, r2, arg2, cnt, fail, pc, n
  <1>10. /\ q.program = "syserr" /\ q.calls = i /\ q.cnt = cnt /\ q.fail = fail /\ q.pc = pc
    BY <1>1, <1>2, CountedIs
  <1> HIDE DEF q
  <1>11. p2 = q /\ OnlyAt(t, proc, proc')
    BY <1>2, <1>6, OnlyAtIs
  <1>12. Alone(t)
    BY <1>1, <1>8, <1>11, ArgumentKept DEF Alone
  <1> HIDE DEF p2
  <1>13. /\ ~p.fail /\ p.cnt = IF n >= N + 5 THEN 1 ELSE 0
         /\ Standard(d) /\ \A g \in OpenFDs : d[g].flags = 1 <=> g \in OpenAfter(n)
    BY <1>1 DEF SysErrOK, OpenAfter, n
  <1>14. /\ Standard(d2) /\ k2 = k
         /\ \A g \in OpenFDs : d2[g].flags = 1 <=> g \in OpenAfter(i)
         /\ counts <=> i = N + 5
         /\ ~wrong
    <2>1. SysErrNext(n, d, k, b, o, d2, k2, b2, o2, r2)
      BY <1>1, <1>3, <1>8, <1>9, <1>13 DEF SysErrNext
    <2>2. /\ Standard(d2) /\ k2 = k
          /\ \A g \in OpenFDs : d2[g].flags = 1 <=> g \in OpenAfter(n + 1)
          /\ InOpenLots(n + 1) /\ SysErrCalls[n + 1].call = "open" /\ r2 = -1
               <=> n + 1 = FILE_DESC_ARR_SIZE + 5
          /\ InOpenLots(n + 1) \/ r2 = -1
      BY <2>1, SysErrAdvances
    <2> QED
      BY <2>2
  <1> HIDE DEF counts, wrong
  <1>15. N \in Nat
    BY FilesAssumption
  <1>16. cnt = IF i >= N + 5 THEN 1 ELSE 0
    BY <1>3, <1>13, <1>14, <1>15 DEF cnt
  <1>17. ~fail
    BY <1>13, <1>14 DEF fail
  <1>18. p2.pc = "start" \/ (p2.pc = "return 0" /\ p2.calls = Len(SysErrCalls))
    BY <1>1, <1>10, <1>11 DEF pc
  <1>19. ~p2.fail
    BY <1>10, <1>11, <1>17
  <1> HIDE DEF i
  <1>20. SysErrOK(p2, d2)
    BY <1>10, <1>11, <1>14, <1>16, <1>18, <1>19 DEF SysErrOK, OpenAfter
  <1>21. ProgramOK(p2, d2, k2, r2, b2, o2, arg2)
    BY <1>1, <1>10, <1>11, <1>14, <1>20 DEF ProgramOK
  <1>22. OKAt(t)'
    BY <1>21 DEF OKAt, p2, d2, k2, r2, b2, o2, arg2
  <1> QED
    BY <1>12, <1>22 DEF Kept

-----------------------------------------------------------------------------
(* The invariant of the programs                                            *)

LEMMA ProgramsStep ==
  ASSUME ReadyInv, ProgramsInv, UserNext
  PROVE  \E t \in Terminals : Kept(t)
  <1>1. PICK t \in Terminals :
          Running(t) \/ AnyCall(t) \/ \E line \in Lines[t] : ShellReads(t, line)
    BY DEF UserNext
  <1>2. CASE Running(t)
    <2>1. CASE ShellExecutes(t)
      BY <2>1, ShellKeeps, ExecuteKeeps DEF ShellExecutes
    <2> QED
      BY <1>2, <2>1, ShellKeeps, HaltKeeps, ComplainKeeps, CatKeeps, LsKeeps, GrepKeeps,
         SysErrKeeps DEF Running
  <1> QED
    BY <1>1, <1>2, AnyKeeps, ShellKeeps

LEMMA ProgramsInit == UserInit => ReadyInv /\ ProgramsInv
  <1> SUFFICES ASSUME UserInit PROVE ReadyInv /\ ProgramsInv
    OBVIOUS
  <1>1. UserInv
    BY UserInvInit
  <1>2. ReadyInv
    BY <1>1 DEF ReadyInv, UserInit, FilesInit
  <1>3. ASSUME NEW t \in Terminals PROVE OKAt(t)
    <2>1. proc[t].program = "shell" /\ read_dir_flag[t] = 0
      BY DEF UserInit, FilesInit, Start, Process
    <2> QED
      BY <2>1, ShellOK DEF OKAt
  <1> QED
    BY <1>2, <1>3 DEF ProgramsInv

LEMMA ProgramsInductive ==
  ReadyInv /\ ProgramsInv /\ [UserNext]_uvars => ReadyInv' /\ ProgramsInv'
  <1> SUFFICES ASSUME ReadyInv, ProgramsInv, [UserNext]_uvars PROVE ReadyInv' /\ ProgramsInv'
    OBVIOUS
  <1>1. UserInv'
    BY UserInvStep DEF ReadyInv
  <1>2. CASE UNCHANGED uvars
    <2>1. /\ proc' = proc /\ file_desc_array' = file_desc_array /\ read_dir_flag' = read_dir_flag
          /\ ret' = ret /\ buf' = buf /\ printed' = printed /\ argument_array' = argument_array
      BY <1>2 DEF uvars, fvars, kernelVars
    <2>2. ReadyInv'
      BY <1>1, <2>1 DEF ReadyInv
    <2>3. ASSUME NEW u \in Terminals PROVE OKAt(u)'
      <3>1. OKAt(u)
        BY DEF ProgramsInv
      <3> QED
        BY <2>1, <3>1 DEF OKAt
    <2> QED
      BY <2>2, <2>3 DEF ProgramsInv
  <1>3. CASE UserNext
    <2>1. PICK t \in Terminals : Alone(t) /\ OKAt(t)'
      BY <1>3, ProgramsStep DEF Kept
    <2>2. ReadyInv'
      BY <1>1, <2>1 DEF ReadyInv, Alone, CallAlone, OnlyAt
    <2>3. ASSUME NEW u \in Terminals PROVE OKAt(u)'
      <3>1. CASE u = t
        BY <2>1, <3>1
      <3>2. CASE u # t
        <4>1. /\ proc'[u] = proc[u] /\ file_desc_array'[u] = file_desc_array[u]
              /\ read_dir_flag'[u] = read_dir_flag[u] /\ ret'[u] = ret[u] /\ buf'[u] = buf[u]
              /\ printed'[u] = printed[u] /\ argument_array'[u] = argument_array[u]
          BY <2>1, <3>2 DEF Alone, CallAlone, OnlyAt
        <4>2. OKAt(u)
          BY DEF ProgramsInv
        <4> QED
          BY <4>1, <4>2 DEF OKAt
      <3> QED
        BY <3>1, <3>2
    <2> QED
      BY <2>2, <2>3 DEF ProgramsInv
  <1> QED
    BY <1>2, <1>3

LEMMA ProgramsInvariant == UserSpec => [](ReadyInv /\ ProgramsInv)
  <1> DEFINE Inv == ReadyInv /\ ProgramsInv
  <1>1. UserInit => Inv
    BY ProgramsInit
  <1>2. Inv /\ [UserNext]_uvars => Inv'
    BY ProgramsInductive
  <1> QED
    BY <1>1, <1>2, PTL DEF UserSpec

\* Six of syserr's tests pass on every terminal, whatever the programs of the
\* other terminals do between its calls and have done before: the opens of
\* err_open_lots fail exactly once, and every other bad call fails.
THEOREM SysErrAlwaysPasses == UserSpec => []SysErrPasses
  <1>1. ReadyInv /\ ProgramsInv => SysErrPasses
    <2> SUFFICES ASSUME ReadyInv, ProgramsInv, NEW t \in Terminals, At(t, "syserr", "return 0")
                 PROVE  ~proc[t].fail /\ proc[t].cnt = 1
      BY DEF SysErrPasses
    <2> DEFINE p == proc[t]
               N == FILE_DESC_ARR_SIZE
    <2>1. SysErrOK(p, file_desc_array[t]) /\ p.pc = "return 0"
      BY DEF At, ProgramsInv, OKAt, ProgramOK
    <2>2. /\ ~p.fail /\ p.cnt = IF p.calls >= N + 5 THEN 1 ELSE 0
          /\ p.calls = Len(SysErrCalls)
      BY <2>1 DEF SysErrOK
    <2>3. p.calls >= N + 5
      BY <2>2, SysErrLong
    <2> QED
      BY <2>2, <2>3
  <1> QED
    BY <1>1, ProgramsInvariant, PTL

\* ls prints every name of the directory once and in order, and grep searches
\* every file but the directory, although all programs of a terminal share one
\* position in the directory, for any number of entries and of terminals.
THEOREM ListingsComplete == UserSpec => []ListingComplete
  <1>1. ReadyInv /\ ProgramsInv => ListingComplete
    <2> SUFFICES ASSUME ProgramsInv, NEW t \in Terminals
                 PROVE  /\ At(t, "ls", "return 0") => printed[t] = Listed(entries)
                        /\ At(t, "grep", "return 0") => proc[t].searched = SearchedTo(entries)
      BY DEF ListingComplete, Listed, SearchedTo, Hidden
    <2>1. ASSUME At(t, "ls", "return 0") PROVE printed[t] = Listed(entries)
      BY <2>1 DEF At, ProgramsInv, OKAt, ProgramOK, LsOK
    <2>2. ASSUME At(t, "grep", "return 0") PROVE proc[t].searched = SearchedTo(entries)
      BY <2>2 DEF At, ProgramsInv, OKAt, ProgramOK, GrepOK
    <2> QED
      BY <2>1, <2>2
  <1> QED
    BY <1>1, ProgramsInvariant, PTL

\* cat prints exactly the file its argument names, read BUFSIZE bytes at a time
\* and in whichever blocks, but for the one byte behind its end, for every image
\* and every BUFSIZE.
THEOREM CatPrints == UserSpec => []CatPrintsFile
  <1>1. ReadyInv /\ ProgramsInv => CatPrintsFile
    <2> SUFFICES ASSUME ReadyInv, ProgramsInv, NEW t \in Terminals, At(t, "cat", "return 0")
                 PROVE  LET name == CString(argument_array[t])
                        IN  /\ Matches(name) # {}
                            /\ read_dentry_by_name(name).file_type = "file" =>
                                 LET text == Shown(Contents(read_dentry_by_name(name).inode))
                                 IN  \/ printed[t] = text
                                     \/ \E c \in {data_blocks[a] : a \in DOMAIN data_blocks} :
                                          printed[t] = Append(text, c)
      BY DEF CatPrintsFile
    <2> DEFINE name == CString(argument_array[t])
               dentry == read_dentry_by_name(name)
               inode == dentry.inode
    <2>1. /\ Matches(name) # {}
          /\ dentry.file_type = "file" =>
               printed[t] = Shown(Bytes(inode, inode_head[inode].length + 1))
      BY DEF At, ProgramsInv, OKAt, ProgramOK, CatOK
    <2>2. IsString(name)
      BY CStringIs DEF ReadyInv, UserInv, ArgumentsInv
    <2>3. dentry.file_type = "file" => inode \in DOMAIN inode_head
      <3> HIDE DEF name
      <3> QED
        BY <2>1, <2>2, OpenedInode
    <2> HIDE DEF name, inode
    <2>4. ASSUME dentry.file_type = "file"
          PROVE  LET text == Shown(Contents(inode))
                 IN  \/ printed[t] = text
                     \/ \E c \in {data_blocks[a] : a \in DOMAIN data_blocks} :
                          printed[t] = Append(text, c)
      BY <2>1, <2>3, <2>4, ShownWhole
    <2> QED
      BY <2>1, <2>4 DEF name, inode
  <1> QED
    BY <1>1, ProgramsInvariant, PTL
=============================================================================
