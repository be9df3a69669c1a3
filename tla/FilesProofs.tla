----------------------------- MODULE FilesProofs -----------------------------
(***************************************************************************)
(* Theorems about the file system, the descriptors and the command parser, *)
(* for every image and block size, every length of names and lines, and    *)
(* every interleaving of the programs that use them.                       *)
(***************************************************************************)
EXTENDS UserPrograms, SequenceTheorems, WellFoundedInduction, TLAPS

-----------------------------------------------------------------------------
(* Strings                                                                  *)

\* A sequence of characters, of whatever length.
IsString(s) == Len(s) \in Nat /\ s = [i \in 1 .. Len(s) |-> s[i]]

\* A set of natural numbers that is not empty has a least element.
LEMMA LeastNumber ==
  ASSUME NEW S \in SUBSET Nat, S # {}
  PROVE  \E k \in S : \A j \in S : ~(j < k)
  <1>1. PICK k \in S : \A j \in S : <<j, k>> \notin OpToRel(<, Nat)
    BY NatLessThanWellFounded, WFMin
  <1>2. \A j \in S : ~(j < k)
    BY <1>1 DEF OpToRel
  <1> QED
    BY <1>2

\* What a loop that fills n bytes leaves is a string of n bytes.
LEMMA Filled ==
  ASSUME NEW n \in Nat, NEW s, s = [i \in 1 .. n |-> s[i]]
  PROVE  IsString(s) /\ Len(s) = n
  <1> DEFINE S == {s[i] : i \in 1 .. n}
  <1>1. s \in [1 .. n -> S]
    OBVIOUS
  <1>2. s \in Seq(S)
    BY <1>1, SeqDef
  <1>3. Len(s) \in Nat /\ DOMAIN s = 1 .. Len(s)
    BY <1>2, LenProperties
  <1>4. DOMAIN s = 1 .. n
    BY <1>1
  <1>5. Len(s) = n
    BY <1>3, <1>4
  <1> QED
    BY <1>5 DEF IsString

\* Sequences are strings, and strings are sequences.
LEMMA SequenceIsString ==
  ASSUME NEW S, NEW s \in Seq(S)
  PROVE  IsString(s)
  <1>1. Len(s) \in Nat /\ s \in [1 .. Len(s) -> S]
    BY LenProperties
  <1> QED
    BY <1>1 DEF IsString

LEMMA StringIsSequence ==
  ASSUME NEW s, IsString(s)
  PROVE  /\ s \in Seq({s[i] : i \in 1 .. Len(s)})
         /\ DOMAIN s = 1 .. Len(s)
  <1> DEFINE n == Len(s)
             S == {s[i] : i \in 1 .. n}
  <1>1. n \in Nat /\ s = [i \in 1 .. n |-> s[i]]
    BY DEF IsString
  <1> HIDE DEF n
  <1>2. s \in [1 .. n -> S] /\ DOMAIN s = 1 .. n
    BY <1>1
  <1>3. s \in Seq(S)
    BY <1>1, <1>2, SeqDef
  <1> QED
    BY <1>2, <1>3 DEF n

\* strlen stops at the first NUL, or behind the string.
LEMMA StrlenIs ==
  ASSUME NEW s, IsString(s)
  PROVE  /\ strlen(s) \in 0 .. Len(s)
         /\ Char(s, strlen(s) + 1) = NUL
         /\ \A k \in 1 .. strlen(s) : Char(s, k) # NUL
  <1> DEFINE n == Len(s)
             Stop(j) == /\ j = n + 1 \/ Char(s, j) = NUL
                        /\ \A k \in 1 .. j - 1 : ~(Char(s, k) = NUL)
             Ends == {j \in Nat : j \in 1 .. n + 1 /\ (j = n + 1 \/ Char(s, j) = NUL)}
  <1>1. n \in Nat /\ DOMAIN s = 1 .. n
    BY StringIsSequence DEF IsString
  <1>2. strlen(s) = (CHOOSE j \in 1 .. n + 1 : Stop(j)) - 1
    BY DEF strlen, FirstFrom
  <1>3. n + 1 \in Ends
    BY <1>1
  <1>4. PICK j \in Ends : \A i \in Ends : ~(i < j)
    BY <1>3, LeastNumber
  <1>5. j \in 1 .. n + 1 /\ Stop(j)
    BY <1>1, <1>4
  <1>6. \E i \in 1 .. n + 1 : Stop(i)
    BY <1>5
  <1> DEFINE e == CHOOSE i \in 1 .. n + 1 : Stop(i)
  <1> HIDE DEF Stop
  <1>7. e \in 1 .. n + 1 /\ Stop(e)
    BY <1>6
  <1>8. Char(s, n + 1) = NUL
    BY <1>1 DEF Char
  <1>9. strlen(s) = e - 1
    BY <1>2
  <1> HIDE DEF e, n
  <1>10. e \in 1 .. n + 1 /\ (e = n + 1 \/ Char(s, e) = NUL)
         /\ \A k \in 1 .. e - 1 : ~(Char(s, k) = NUL)
    BY <1>7 DEF Stop
  <1>11. strlen(s) + 1 = e /\ strlen(s) \in 0 .. n
    BY <1>1, <1>9, <1>10
  <1>12. \A k \in 1 .. strlen(s) : Char(s, k) # NUL
    BY <1>9, <1>10
  <1>13. Char(s, e) = NUL
    BY <1>8, <1>10
  <1> QED
    BY <1>11, <1>12, <1>13 DEF n

\* The C string in s, as far as the functions that read it can tell.
LEMMA CStringIs ==
  ASSUME NEW s, IsString(s)
  PROVE  /\ IsString(CString(s)) /\ Len(CString(s)) = strlen(s)
         /\ \A i \in 1 .. strlen(s) : Char(CString(s), i) = Char(s, i)
         /\ \A i \in Nat : i > strlen(s) => Char(CString(s), i) = NUL
  <1> DEFINE n == strlen(s)
             c == CString(s)
  <1>1. n \in 0 .. Len(s) /\ Len(s) \in Nat
    BY StrlenIs DEF IsString
  <1>2. c = [i \in 1 .. n |-> s[i]]
    <2>1. s \in Seq({s[i] : i \in 1 .. Len(s)})
      BY StringIsSequence
    <2>2. c = SubSeq(s, 1, n)
      BY DEF CString
    <2> HIDE DEF n, c
    <2> QED
      BY <1>1, <2>1, <2>2
  <1>3. DOMAIN s = 1 .. Len(s)
    BY StringIsSequence
  <1> HIDE DEF n, c
  <1>4. c = [i \in 1 .. n |-> c[i]] /\ DOMAIN c = 1 .. n
    BY <1>2
  <1>5. IsString(c) /\ Len(c) = n
    BY <1>1, <1>4, Filled
  <1>6. \A i \in 1 .. n : Char(c, i) = Char(s, i)
    BY <1>1, <1>2, <1>3, <1>4 DEF Char
  <1>7. \A i \in Nat : i > n => Char(c, i) = NUL
    BY <1>1, <1>4 DEF Char
  <1> QED
    BY <1>5, <1>6, <1>7 DEF n, c

-----------------------------------------------------------------------------
(* The lookup of a name                                                     *)

\* strncmp sees no difference between two strings that are equal up to their
\* NUL, which both have behind as many characters.
LEMMA ComparesCString ==
  ASSUME NEW s, NEW c, NEW d, NEW n \in Nat, NEW len \in Nat,
         Char(s, len + 1) = NUL, Char(c, len + 1) = NUL,
         \A k \in 1 .. len : Char(s, k) # NUL /\ Char(c, k) = Char(s, k),
         strncmp(s, d, n)
  PROVE  strncmp(c, d, n)
  <1> SUFFICES ASSUME NEW i \in 1 .. n
               PROVE  \/ Char(c, i) = Char(d, i)
                      \/ \E j \in 1 .. i - 1 : Char(c, j) = NUL /\ Char(d, j) = NUL
    BY DEF strncmp
  <1>1. \A k \in 1 .. n :
          \/ Char(s, k) = Char(d, k)
          \/ \E j \in 1 .. k - 1 : Char(s, j) = NUL /\ Char(d, j) = NUL
    BY DEF strncmp
  <1>2. ASSUME NEW k \in 1 .. n, k <= len + 1
        PROVE  Char(c, k) = Char(s, k) /\ Char(s, k) = Char(d, k)
    <2>1. ~\E j \in 1 .. k - 1 : Char(s, j) = NUL
      BY <1>2
    <2>2. Char(s, k) = Char(d, k)
      BY <1>1, <2>1
    <2>3. k \in 1 .. len \/ k = len + 1
      BY <1>2
    <2> QED
      BY <2>2, <2>3
  <1>3. CASE i <= len + 1
    BY <1>2, <1>3
  <1>4. CASE i > len + 1
    <2>1. len + 1 \in 1 .. i - 1 /\ len + 1 \in 1 .. n /\ len + 1 <= len + 1
      BY <1>4
    <2>2. Char(d, len + 1) = NUL
      BY <2>1, <1>2
    <2> QED
      BY <2>1, <2>2
  <1> QED
    BY <1>3, <1>4

\* sys_open looks a name up, and _sys_open_file its copy once more: both find
\* the same entry, also for a name that fills its entry.
LEMMA SecondLookup ==
  ASSUME NEW name, IsString(name), Matches(name) # {}
  PROVE  Matches(Cut(CString(name), FILENAME_LEN)) = Matches(name)
  <1> DEFINE c == CString(name)
             n == strlen(name)
  <1>1. /\ n \in Nat /\ n <= FILENAME_LEN /\ Char(name, 1) # NUL
        /\ Char(name, n + 1) = NUL
        /\ \A k \in 1 .. n : Char(name, k) # NUL
    <2>1. ~(Char(name, 1) = NUL \/ strlen(name) > FILENAME_LEN)
      BY DEF Matches
    <2>2. /\ strlen(name) \in 0 .. Len(name)
          /\ Char(name, strlen(name) + 1) = NUL
          /\ \A k \in 1 .. strlen(name) : Char(name, k) # NUL
      BY StrlenIs
    <2>3. Len(name) \in Nat
      BY DEF IsString
    <2> HIDE DEF c
    <2>4. n \in Nat
      BY <2>2, <2>3
    <2>5. n <= FILENAME_LEN
      BY <2>1, <2>4, StringsAssumption
    <2> QED
      BY <2>1, <2>2, <2>4, <2>5
  <1>2. /\ IsString(c) /\ Len(c) = n
        /\ \A i \in 1 .. n : Char(c, i) = Char(name, i)
        /\ \A i \in Nat : i > n => Char(c, i) = NUL
    BY CStringIs
  <1>3. c \in Seq({c[i] : i \in 1 .. Len(c)})
    BY <1>2, StringIsSequence
  <1>4. /\ strlen(c) \in 0 .. Len(c)
        /\ Char(c, strlen(c) + 1) = NUL
        /\ \A k \in 1 .. strlen(c) : Char(c, k) # NUL
    BY <1>2, StrlenIs
  <1> HIDE DEF c, n
  <1>5. Cut(c, FILENAME_LEN) = c
    <2>1. Cut(c, FILENAME_LEN) = SubSeq(c, 1, n)
      BY <1>1, <1>2 DEF Cut
    <2> QED
      BY <2>1, <1>1, <1>2, <1>3
  <1>6. Char(c, n + 1) = NUL
    BY <1>1, <1>2
  <1>7. n # 0 /\ Char(c, 1) # NUL
    BY <1>1, <1>2
  <1>8. ~(strlen(c) > FILENAME_LEN)
    BY <1>1, <1>2, <1>4, StringsAssumption
  <1>9. \A i \in 1 .. entries :
          strncmp(c, dir_entries[i].file_name, FILENAME_LEN)
            <=> strncmp(name, dir_entries[i].file_name, FILENAME_LEN)
    <2> TAKE i \in 1 .. entries
    <2> DEFINE d == dir_entries[i].file_name
    <2> HIDE DEF d
    <2>1. FILENAME_LEN \in Nat
      BY StringsAssumption
    <2>2. ASSUME strncmp(name, d, FILENAME_LEN) PROVE strncmp(c, d, FILENAME_LEN)
      BY <1>1, <1>2, <1>6, <2>1, <2>2, ComparesCString
    <2>3. \A k \in 1 .. n : Char(c, k) # NUL /\ Char(name, k) = Char(c, k)
      BY <1>1, <1>2
    <2>4. ASSUME strncmp(c, d, FILENAME_LEN) PROVE strncmp(name, d, FILENAME_LEN)
      BY <1>1, <1>6, <2>1, <2>3, <2>4, ComparesCString
    <2> QED
      BY <2>2, <2>4 DEF d
  <1>10. Matches(c) = {i \in 1 .. entries :
                         strncmp(c, dir_entries[i].file_name, FILENAME_LEN)}
    BY <1>7, <1>8 DEF Matches
  <1>11. Matches(name) = {i \in 1 .. entries :
                            strncmp(name, dir_entries[i].file_name, FILENAME_LEN)}
    BY <1>1, StringsAssumption DEF Matches, n
  <1> QED
    BY <1>5, <1>9, <1>10, <1>11 DEF c

\* The entry found is one of the directory.
LEMMA FoundEntry ==
  ASSUME NEW name, Matches(name) # {}
  PROVE  \E i \in 1 .. entries : read_dentry_by_name(name) = dir_entries[i]
  <1> DEFINE S == Matches(name)
             First(i) == \A j \in S : i <= j
  <1>1. S \subseteq 1 .. entries
    BY DEF Matches
  <1>2. entries \in Nat
    BY FilesAssumption, LenProperties DEF entries
  <1> HIDE DEF S
  <1>3. S \in SUBSET Nat /\ S # {}
    BY <1>1, <1>2 DEF S
  <1>4. PICK i \in S : \A j \in S : ~(j < i)
    BY <1>3, LeastNumber
  <1>5. First(i)
    BY <1>3, <1>4
  <1> HIDE DEF First
  <1>6. (CHOOSE k \in S : First(k)) \in S
    BY <1>5
  <1>7. read_dentry_by_name(name) = dir_entries[CHOOSE k \in S : First(k)]
    BY DEF read_dentry_by_name, S, First
  <1> QED
    BY <1>1, <1>6, <1>7

\* The inode _sys_open_file gives a file's descriptor is the one of its entry.
LEMMA OpenedInode ==
  ASSUME NEW name, IsString(name), Matches(name) # {}
  PROVE  LET dentry == read_dentry_by_name(name)
         IN  /\ dentry.file_type \in FileTypes
             /\ dentry.file_type = "file" =>
                  /\ InodeOf(dentry, name) = dentry.inode
                  /\ dentry.inode \in DOMAIN inode_head
             /\ dentry.file_type # "file" => InodeOf(dentry, name) = 0
  <1> DEFINE file == Cut(CString(name), FILENAME_LEN)
             dentry == read_dentry_by_name(name)
  <1>1. Matches(file) = Matches(name)
    BY SecondLookup
  <1>2. _sys_open_file(name) = dentry.inode
    <2>1. read_dentry_by_name(file) = read_dentry_by_name(name)
      BY <1>1 DEF read_dentry_by_name
    <2>2. Matches(file) # {}
      BY <1>1
    <2> QED
      BY <2>1, <2>2 DEF _sys_open_file
  <1>3. PICK i \in 1 .. entries : dentry = dir_entries[i]
    BY FoundEntry
  <1>4. dentry \in Dentries
    <2>1. dir_entries \in [1 .. Len(dir_entries) -> Dentries]
      BY FilesAssumption, LenProperties
    <2> QED
      BY <2>1, <1>3 DEF entries
  <1>5. dentry.file_type = "file" => dentry.inode \in DOMAIN inode_head
    BY <1>3, ImageAssumption
  <1>6. dentry.file_type \in FileTypes
    BY <1>4 DEF Dentries
  <1> QED
    BY <1>2, <1>5, <1>6 DEF InodeOf

-----------------------------------------------------------------------------
(* read_data                                                                *)

\* A place is a block and an offset in it.
LEMMA PlaceIs ==
  ASSUME NEW B \in Nat \ {0}, NEW n \in Nat
  PROVE  /\ n \div B \in Nat /\ n % B \in 0 .. B - 1
         /\ n = B * (n \div B) + (n % B)
  OBVIOUS

LEMMA PlaceUnique ==
  ASSUME NEW B \in Nat \ {0}, NEW q \in Nat, NEW r \in 0 .. B - 1
  PROVE  (B * q + r) \div B = q /\ (B * q + r) % B = r
  <1> DEFINE n == B * q + r
  <1>1. n \in Nat
    BY SMT
  <1>2. n = B * q + r
    OBVIOUS
  <1> DEFINE p == n \div B
             m == n % B
  <1>3. p \in Nat /\ m \in 0 .. B - 1 /\ n = B * p + m
    BY <1>1, PlaceIs
  <1> HIDE DEF n, p, m
  <1>4. B * (p - q) = r - m
    BY <1>2, <1>3
  <1>5. p - q < 1
    <2> SUFFICES ASSUME p - q >= 1 PROVE FALSE
      BY <1>3
    <2>1. B * (p - q) >= B
      BY <1>3
    <2> QED
      BY <1>3, <1>4, <2>1
  <1>6. p - q > -1
    <2> SUFFICES ASSUME q - p >= 1 PROVE FALSE
      BY <1>3
    <2>1. B * (q - p) >= B
      BY <1>3
    <2>2. B * (q - p) = m - r
      BY <1>2, <1>3
    <2> QED
      BY <1>3, <2>1, <2>2
  <1>7. p = q
    BY <1>3, <1>5, <1>6
  <1>8. m = r
    BY <1>2, <1>3, <1>7
  <1> QED
    BY <1>7, <1>8 DEF n, p, m

\* The next place: the next byte of the block, or the first of the next block.
LEMMA NextPlace ==
  ASSUME NEW B \in Nat \ {0}, NEW n \in Nat
  PROVE  /\ n % B = B - 1 => (n + 1) \div B = n \div B + 1 /\ (n + 1) % B = 0
         /\ n % B # B - 1 => (n + 1) \div B = n \div B /\ (n + 1) % B = (n % B) + 1
  <1> DEFINE q == n \div B
             r == n % B
  <1>1. q \in Nat /\ r \in 0 .. B - 1 /\ n = B * q + r
    BY PlaceIs
  <1> HIDE DEF q, r
  <1>2. ASSUME r = B - 1 PROVE (n + 1) \div B = q + 1 /\ (n + 1) % B = 0
    <2>1. n + 1 = B * (q + 1) + 0
      BY <1>1, <1>2
    <2>2. q + 1 \in Nat /\ 0 \in 0 .. B - 1
      BY <1>1
    <2>3. (B * (q + 1) + 0) \div B = q + 1 /\ (B * (q + 1) + 0) % B = 0
      BY <2>2, PlaceUnique
    <2> QED
      BY <2>1, <2>3
  <1>3. ASSUME r # B - 1 PROVE (n + 1) \div B = q /\ (n + 1) % B = r + 1
    <2>1. n + 1 = B * q + (r + 1)
      BY <1>1
    <2>2. r + 1 \in 0 .. B - 1
      BY <1>1, <1>3
    <2> QED
      BY <1>1, <2>1, <2>2, PlaceUnique
  <1> QED
    BY <1>2, <1>3 DEF q, r

\* A place that is not behind another is in no later block.
LEMMA BlockOrder ==
  ASSUME NEW B \in Nat \ {0}, NEW m \in Nat, NEW n \in Nat, m <= n
  PROVE  m \div B \in 0 .. n \div B
  <1> DEFINE a == m \div B
             b == n \div B
             c == m % B
             d == n % B
  <1>1. a \in Nat /\ c \in 0 .. B - 1 /\ m = B * a + c
    BY PlaceIs
  <1>2. b \in Nat /\ d \in 0 .. B - 1 /\ n = B * b + d
    BY PlaceIs
  <1> HIDE DEF a, b, c, d
  <1>3. a <= b
    <2> SUFFICES ASSUME a >= b + 1 PROVE FALSE
      BY <1>1, <1>2
    <2> DEFINE x == B * a
               y == B * b
               z == B * (b + 1)
    <2>1. x \in Int /\ y \in Int /\ z \in Int
      BY <1>1, <1>2
    <2>2. x >= z /\ z = y + B /\ m = x + c /\ n = y + d
      BY <1>1, <1>2
    <2> HIDE DEF x, y, z
    <2> QED
      BY <1>1, <1>2, <2>1, <2>2
  <1> QED
    BY <1>1, <1>2, <1>3 DEF a, b

\* The loop of read_data leaves at the first byte behind the end, or with all
\* the bytes asked for.
LEMMA BytesReadIs ==
  ASSUME NEW inode \in DOMAIN inode_head, NEW offset \in Nat, NEW length \in Nat
  PROVE  LET k    == BytesRead(inode, offset, length)
             size == inode_head[inode].length
         IN  /\ k \in 0 .. length
             /\ k = length \/ k + offset > size
             /\ \A j \in 0 .. k - 1 : j + offset <= size
  <1> DEFINE size == inode_head[inode].length
             Leaves(k) == /\ k = length \/ BeyondEnd(inode, k + offset)
                          /\ \A j \in 0 .. k - 1 : ~BeyondEnd(inode, j + offset)
             Ends == {k \in Nat : k \in 0 .. length
                                    /\ (k = length \/ BeyondEnd(inode, k + offset))}
  <1>1. size \in Nat
    BY ImageAssumption
  <1>2. length \in Ends
    OBVIOUS
  <1>3. PICK k \in Ends : \A j \in Ends : ~(j < k)
    BY <1>2, LeastNumber
  <1>4. k \in 0 .. length /\ Leaves(k)
    BY <1>3
  <1> HIDE DEF Leaves
  <1> DEFINE e == CHOOSE i \in 0 .. length : Leaves(i)
  <1>5. e \in 0 .. length /\ Leaves(e)
    BY <1>4
  <1>6. BytesRead(inode, offset, length) = e
    BY DEF BytesRead, Leaves
  <1> HIDE DEF e
  <1>7. (e = length \/ e + offset > size) /\ \A j \in 0 .. e - 1 : ~(j + offset > size)
    BY <1>5 DEF Leaves, BeyondEnd
  <1>8. \A j \in 0 .. e - 1 : j + offset <= size
    <2> HIDE DEF size
    <2> QED
      BY <1>1, <1>5, <1>7
  <1> QED
    BY <1>5, <1>6, <1>7, <1>8

-----------------------------------------------------------------------------

\* Where read_data stands before the first byte, and from one to the next.
FirstCursor(nums, offset) ==
  [block |-> offset \div BLOCK_SIZE,
   cur   |-> BLOCK_SIZE * nums[offset \div BLOCK_SIZE] + (offset % BLOCK_SIZE)]

NextCursor(nums, last, more) ==
  IF (last.cur + 1) % BLOCK_SIZE = 0 /\ more
    THEN [block |-> last.block + 1, cur |-> BLOCK_SIZE * nums[last.block + 1]]
    ELSE [last EXCEPT !.cur = @ + 1]

IsCursor(g, nums, offset, length, n) ==
  g = [k \in 0 .. n |-> IF k = 0 THEN FirstCursor(nums, offset)
                                 ELSE NextCursor(nums, g[k - 1], k < length)]

\* The recursive function of Cursor exists, by the least number of bytes for
\* which it would not.
LEMMA CursorExists ==
  ASSUME NEW nums, NEW offset, NEW length, NEW n \in Nat
  PROVE  \E g : IsCursor(g, nums, offset, length, n)
  <1> DEFINE first == FirstCursor(nums, offset)
             next(last, k) == NextCursor(nums, last, k < length)
             Bad == {k \in Nat : ~\E g : IsCursor(g, nums, offset, length, k)}
  <1> SUFFICES ASSUME Bad # {}
               PROVE  FALSE
    OBVIOUS
  <1>1. PICK k \in Bad : \A j \in Bad : ~(j < k)
    BY LeastNumber
  <1>2. k \in Nat /\ ~\E g : IsCursor(g, nums, offset, length, k)
    BY <1>1
  <1>3. k # 0
    <2> DEFINE g == [j \in 0 .. 0 |-> first]
    <2>1. g = [j \in 0 .. 0 |-> IF j = 0 THEN first ELSE next(g[j - 1], j)]
      BY DEF g
    <2> QED
      BY <1>2, <2>1 DEF IsCursor
  <1>4. k - 1 \in Nat /\ k - 1 \notin Bad
    BY <1>1, <1>2, <1>3
  <1>5. PICK g : IsCursor(g, nums, offset, length, k - 1)
    BY <1>4
  <1> DEFINE h == [j \in 0 .. k |-> IF j = k THEN next(g[k - 1], k) ELSE g[j]]
  <1>6. \A i \in 0 .. k - 1 : g[i] = IF i = 0 THEN first ELSE next(g[i - 1], i)
    BY <1>5, <1>2, <1>3 DEF IsCursor
  <1> HIDE DEF first, next
  <1>7. \A j \in 0 .. k : h[j] = IF j = 0 THEN first ELSE next(h[j - 1], j)
    <2> TAKE j \in 0 .. k
    <2>2. CASE j = k
      <3>1. h[k] = next(g[k - 1], k) /\ h[k - 1] = g[k - 1]
        BY <1>2, <1>3
      <3> QED
        BY <3>1, <2>2, <1>3
    <2>3. CASE j = 0
      BY <1>6, <2>3, <1>2, <1>3
    <2>4. CASE j # 0 /\ j # k
      <3>1. j \in 0 .. k - 1 /\ j - 1 \in 0 .. k /\ j - 1 # k
        BY <2>4, <1>2
      <3>2. h[j] = g[j] /\ h[j - 1] = g[j - 1]
        BY <3>1, <2>4
      <3> QED
        BY <1>6, <2>4, <3>1, <3>2
    <2> QED
      BY <2>2, <2>3, <2>4
  <1>8. h = [j \in 0 .. k |-> IF j = 0 THEN first ELSE next(h[j - 1], j)]
    <2>1. h = [j \in 0 .. k |-> h[j]]
      OBVIOUS
    <2> HIDE DEF h
    <2> QED
      BY <2>1, <1>7
  <1> HIDE DEF h
  <1>9. IsCursor(h, nums, offset, length, k)
    BY <1>8 DEF IsCursor, first, next
  <1> QED
    BY <1>2, <1>9

\* One byte further, in the next block when this one ends.
LEMMA CursorMoves ==
  ASSUME NEW nums, NEW n \in Nat,
         nums[n \div BLOCK_SIZE] \in Nat, nums[(n + 1) \div BLOCK_SIZE] \in Nat
  PROVE  NextCursor(nums, FirstCursor(nums, n), TRUE) = FirstCursor(nums, n + 1)
  <1> DEFINE B == BLOCK_SIZE
             q == n \div B
             r == n % B
             d == nums[q]
             last == FirstCursor(nums, n)
  <1>1. B \in Nat \ {0}
    BY FilesAssumption
  <1>2. q \in Nat /\ r \in 0 .. B - 1 /\ n = B * q + r
    BY <1>1, PlaceIs
  <1>3. /\ r = B - 1 => (n + 1) \div B = q + 1 /\ (n + 1) % B = 0
        /\ r # B - 1 => (n + 1) \div B = q /\ (n + 1) % B = r + 1
    BY <1>1, NextPlace
  <1>4. last = [block |-> q, cur |-> B * d + r] /\ d \in Nat
    BY DEF FirstCursor
  <1>5. /\ FirstCursor(nums, n + 1)
             = [block |-> (n + 1) \div B, cur |-> B * nums[(n + 1) \div B] + ((n + 1) % B)]
        /\ NextCursor(nums, last, TRUE)
             = IF (last.cur + 1) % B = 0
                 THEN [block |-> last.block + 1, cur |-> B * nums[last.block + 1]]
                 ELSE [last EXCEPT !.cur = @ + 1]
    BY DEF FirstCursor, NextCursor
  <1> DEFINE here == B * d + r
  <1> HIDE DEF B, q, r, d, last
  <1>6. here \in Nat
    BY <1>1, <1>2, <1>4
  <1>7. last.block = q /\ last.cur = here
    BY <1>4
  <1>8. CASE r = B - 1
    <2>1. d + 1 \in Nat /\ 0 \in 0 .. B - 1
      BY <1>1, <1>4
    <2>2. (B * (d + 1) + 0) % B = 0
      BY <1>1, <2>1, PlaceUnique
    <2>3. here + 1 = B * (d + 1) + 0
      <3>1. B * d \in Nat /\ B * (d + 1) = B * d + B
        BY <1>1, <1>4
      <3> QED
        BY <1>1, <1>8, <3>1
    <2>4. (last.cur + 1) % B = 0
      BY <1>7, <2>2, <2>3
    <2>5. NextCursor(nums, last, TRUE) = [block |-> q + 1, cur |-> B * nums[q + 1]]
      BY <1>5, <1>7, <2>4
    <2>6. FirstCursor(nums, n + 1) = [block |-> q + 1, cur |-> B * nums[q + 1] + 0]
      BY <1>3, <1>5, <1>8
    <2> DEFINE w == B * nums[q + 1]
    <2>7. w \in Nat
      BY <1>1, <1>3, <1>8 DEF B
    <2> HIDE DEF w
    <2>8. w + 0 = w
      BY <2>7
    <2> QED
      BY <2>5, <2>6, <2>8 DEF last, w
  <1>9. CASE r # B - 1
    <2>1. r + 1 \in 0 .. B - 1
      BY <1>1, <1>2, <1>9
    <2>2. (B * d + (r + 1)) % B = r + 1
      BY <1>1, <1>4, <2>1, PlaceUnique
    <2>3. here + 1 = B * d + (r + 1)
      <3>1. B * d \in Nat
        BY <1>1, <1>4
      <3> QED
        BY <1>2, <3>1
    <2>4. (last.cur + 1) % B # 0
      BY <1>2, <1>7, <2>2, <2>3
    <2>5. NextCursor(nums, last, TRUE) = [last EXCEPT !.cur = @ + 1]
      BY <1>5, <2>4
    <2>6. [last EXCEPT !.cur = @ + 1] = [block |-> q, cur |-> here + 1]
      BY <1>4
    <2>7. FirstCursor(nums, n + 1) = [block |-> q, cur |-> B * d + (r + 1)]
      BY <1>3, <1>5, <1>9 DEF d
    <2> DEFINE w == B * d + (r + 1)
    <2> HIDE DEF w, here
    <2>8. here + 1 = w
      BY <2>3 DEF w
    <2>9. FirstCursor(nums, n + 1) = [block |-> q, cur |-> w]
      BY <2>7 DEF w
    <2> QED
      BY <2>5, <2>6, <2>8, <2>9 DEF last
  <1> QED
    BY <1>8, <1>9 DEF last

\* Before byte k, counted from the offset, read_data stands where the block list
\* of the inode puts it, as long as it has not gone beyond the end.
LEMMA CursorIs ==
  ASSUME NEW inode \in DOMAIN inode_head, NEW offset \in Nat, NEW length \in Nat,
         NEW k \in Nat, k < length, offset + k <= inode_head[inode].length
  PROVE  Cursor(inode, offset, length)[k]
           = FirstCursor(inode_head[inode].datablock_nums, offset + k)
  <1> DEFINE nums == inode_head[inode].datablock_nums
             size == inode_head[inode].length
             g == CHOOSE h : IsCursor(h, nums, offset, length, length)
             Good(j) == g[j] = FirstCursor(nums, offset + j)
             Bad == {j \in Nat : j <= k /\ ~Good(j)}
  <1>1. Cursor(inode, offset, length) = g
    BY DEF Cursor, IsCursor, FirstCursor, NextCursor
  <1>2. IsCursor(g, nums, offset, length, length)
    BY CursorExists
  <1>3. size \in Nat /\ \A b \in 0 .. size \div BLOCK_SIZE : nums[b] \in Nat
    BY ImageAssumption
  <1>4. BLOCK_SIZE \in Nat \ {0}
    BY FilesAssumption
  <1> HIDE DEF g, nums, size
  <1>5. \A j \in 0 .. length :
          g[j] = IF j = 0 THEN FirstCursor(nums, offset)
                          ELSE NextCursor(nums, g[j - 1], j < length)
    BY <1>2 DEF IsCursor
  <1>6. Bad = {}
    <2> SUFFICES ASSUME Bad # {} PROVE FALSE
      OBVIOUS
    <2>1. PICK j \in Bad : \A i \in Bad : ~(i < j)
      BY LeastNumber
    <2>2. j \in Nat /\ j <= k /\ j \in 0 .. length /\ j < length
      BY <2>1
    <2>3. j # 0
      <3>1. g[0] = FirstCursor(nums, offset)
        BY <1>5
      <3>2. offset + 0 = offset
        OBVIOUS
      <3> QED
        BY <2>1, <3>1, <3>2
    <2>4. j - 1 \in Nat /\ Good(j - 1)
      BY <2>1, <2>2, <2>3
    <2> DEFINE n == offset + (j - 1)
    <2>5. n \in Nat /\ n + 1 = offset + j /\ n <= size /\ n + 1 <= size
      BY <2>2, <2>4, <1>3 DEF size
    <2> HIDE DEF n
    <2>6. nums[n \div BLOCK_SIZE] \in Nat /\ nums[(n + 1) \div BLOCK_SIZE] \in Nat
      <3>1. n + 1 \in Nat
        BY <2>5
      <3>2. n \div BLOCK_SIZE \in 0 .. size \div BLOCK_SIZE
        BY <1>3, <1>4, <2>5, BlockOrder
      <3>3. (n + 1) \div BLOCK_SIZE \in 0 .. size \div BLOCK_SIZE
        BY <1>3, <1>4, <2>5, <3>1, BlockOrder
      <3> QED
        BY <1>3, <3>2, <3>3
    <2>7. g[j] = NextCursor(nums, g[j - 1], TRUE)
      BY <1>5, <2>2, <2>3
    <2>8. NextCursor(nums, FirstCursor(nums, n), TRUE) = FirstCursor(nums, n + 1)
      BY <2>5, <2>6, CursorMoves
    <2>9. g[j - 1] = FirstCursor(nums, n)
      BY <2>4 DEF n
    <2> QED
      BY <2>1, <2>5, <2>7, <2>8, <2>9
  <1>7. Good(k)
    BY <1>6
  <1> QED
    BY <1>1, <1>7 DEF nums

\* What of a read the file has: all that was asked for, or what is left.
Wanted(left, n) == IF left < 0 THEN 0 ELSE IF n <= left THEN n ELSE left

\* read_data gives the bytes of the file from the offset on, and at most one
\* more than the file has.
LEMMA ReadDataIs ==
  ASSUME NEW inode \in DOMAIN inode_head, NEW offset \in Nat, NEW n \in Nat,
         offset <= inode_head[inode].length + 1
  PROVE  LET data == read_data(inode, offset, n)
             left == inode_head[inode].length - offset
         IN  /\ IsString(data)
             /\ Wanted(left, n) <= Len(data) /\ Len(data) <= left + 1
             /\ \A i \in 1 .. Wanted(left, n) : data[i] = Contents(inode)[offset + i]
  <1> DEFINE data == read_data(inode, offset, n)
             size == inode_head[inode].length
             nums == inode_head[inode].datablock_nums
             left == size - offset
             k == BytesRead(inode, offset, n)
             want == Wanted(left, n)
  <1>1. size \in Nat
    BY ImageAssumption
  <1>2. /\ k \in 0 .. n /\ (k = n \/ k + offset > size)
        /\ \A j \in 0 .. k - 1 : j + offset <= size
    BY BytesReadIs
  <1>3. data = [i \in 1 .. k |-> data_blocks[Cursor(inode, offset, n)[i - 1].cur]]
    BY DEF read_data
  <1>4. Contents(inode) =
          [i \in 1 .. size |->
             data_blocks[BLOCK_SIZE * nums[(i - 1) \div BLOCK_SIZE] + ((i - 1) % BLOCK_SIZE)]]
    BY DEF Contents
  <1>5. \A i \in Nat : i < n /\ offset + i <= size =>
          Cursor(inode, offset, n)[i] = FirstCursor(nums, offset + i)
    BY CursorIs
  <1>6. offset <= size + 1
    OBVIOUS
  <1> HIDE DEF data, size, nums, k
  <1>7. k \in Nat
    BY <1>2
  <1>8. data = [i \in 1 .. k |-> data[i]]
    BY <1>3
  <1>9. IsString(data) /\ Len(data) = k
    BY <1>7, <1>8, Filled
  <1>10. k <= left + 1
    <2>1. CASE k = 0
      BY <1>1, <1>6, <2>1
    <2>2. CASE k # 0
      <3>1. k - 1 \in 0 .. k - 1
        BY <1>7, <2>2
      <3>2. k - 1 + offset <= size
        BY <1>2, <3>1
      <3> QED
        BY <1>1, <1>7, <3>2
    <2> QED
      BY <2>1, <2>2
  <1>11. want \in Nat /\ want <= n /\ (want # 0 => want <= left)
    BY <1>1 DEF Wanted
  <1>12. want <= k
    <2>1. CASE k = n
      BY <1>11, <2>1
    <2>2. CASE k + offset > size
      BY <1>1, <1>7, <1>11, <2>2
    <2> QED
      BY <1>2, <2>1, <2>2
  <1> HIDE DEF want
  <1>13. ASSUME NEW i \in 1 .. want PROVE data[i] = Contents(inode)[offset + i]
    <2>1. /\ i \in 1 .. k /\ i - 1 \in Nat /\ i - 1 < n
          /\ offset + (i - 1) <= size /\ offset + i \in 1 .. size
          /\ offset + (i - 1) = (offset + i) - 1
      BY <1>1, <1>7, <1>11, <1>12
    <2> DEFINE m == (offset + i) - 1
    <2>2. Cursor(inode, offset, n)[i - 1] = FirstCursor(nums, m)
      BY <1>5, <2>1
    <2>3. data[i] = data_blocks[FirstCursor(nums, m).cur]
      BY <1>3, <2>1, <2>2
    <2>4. Contents(inode)[offset + i]
            = data_blocks[BLOCK_SIZE * nums[m \div BLOCK_SIZE] + (m % BLOCK_SIZE)]
      BY <1>4, <2>1
    <2> HIDE DEF m
    <2>5. FirstCursor(nums, m).cur
            = BLOCK_SIZE * nums[m \div BLOCK_SIZE] + (m % BLOCK_SIZE)
      BY DEF FirstCursor
    <2> QED
      BY <2>3, <2>4, <2>5
  <1> QED
    BY <1>9, <1>10, <1>12, <1>13 DEF data, size, want

-----------------------------------------------------------------------------
(* The descriptors                                                          *)

Descriptors ==
  [file_ops_table : FileTypes \cup {"stdin", "stdout", "none"},
   inode : DOMAIN inode_head \cup {0}, file_position : Nat, flags : {0, 1}]

\* A file's descriptor has an inode and stands at most one byte behind the end.
PositionOK(d) ==
  d.file_ops_table = "file" =>
    /\ d.inode \in DOMAIN inode_head
    /\ d.file_position <= inode_head[d.inode].length + 1

DescriptorsInv ==
  /\ file_desc_array \in [Terminals -> [FDs -> Descriptors]]
  /\ \A t \in Terminals, fd \in FDs : PositionOK(file_desc_array[t][fd])

\* What programs pass to open is a string.
BuffersInv ==
  /\ DOMAIN ret = Terminals /\ DOMAIN buf = Terminals
  /\ \A t \in Terminals : IsString(buf[t])

\* The inductive invariant of all system calls.
FilesInv == DescriptorsInv /\ BuffersInv

\* What a call does to the descriptors: nothing, a new table for the terminal's
\* next program, or a change of one descriptor.
Touches(t) ==
  \/ UNCHANGED file_desc_array
  \/ CloseAll(t)
  \/ \E fd \in FDs : \E d \in Descriptors :
       /\ PositionOK(d)
       /\ file_desc_array' = [file_desc_array EXCEPT ![t][fd] = d]

LEMMA NewTableType == NewTable \in [FDs -> Descriptors]
                        /\ \A fd \in FDs : PositionOK(NewTable[fd])
  <1>1. Desc("stdin", 0) \in Descriptors /\ Desc("stdout", 0) \in Descriptors
          /\ Closed \in Descriptors
    BY DEF Desc, Closed, Descriptors
  <1>2. PositionOK(Desc("stdin", 0)) /\ PositionOK(Desc("stdout", 0)) /\ PositionOK(Closed)
    BY DEF Desc, Closed, PositionOK
  <1>3. \A fd \in FDs : NewTable[fd] \in {Desc("stdin", 0), Desc("stdout", 0), Closed}
    BY DEF NewTable
  <1>4. NewTable = [fd \in FDs |-> NewTable[fd]]
    BY DEF NewTable
  <1> QED
    BY <1>1, <1>2, <1>3, <1>4

LEMMA TouchesKeepsDescriptors ==
  ASSUME DescriptorsInv, NEW t \in Terminals, Touches(t)
  PROVE  DescriptorsInv'
  <1>1. CASE UNCHANGED file_desc_array
    BY <1>1 DEF DescriptorsInv
  <1>2. CASE CloseAll(t)
    BY <1>2, NewTableType DEF CloseAll, DescriptorsInv
  <1>3. ASSUME NEW fd \in FDs, NEW d \in Descriptors, PositionOK(d),
               file_desc_array' = [file_desc_array EXCEPT ![t][fd] = d]
        PROVE  DescriptorsInv'
    BY <1>3 DEF DescriptorsInv
  <1> QED
    BY <1>1, <1>2, <1>3 DEF Touches

LEMMA TouchesOne ==
  ASSUME DescriptorsInv, NEW v \in Terminals, Touches(v),
         NEW t \in Terminals, NEW fd \in FDs,
         file_desc_array'[t][fd] # file_desc_array[t][fd]
  PROVE  \/ CloseAll(t)
         \/ \A u \in Terminals, g \in FDs :
              <<u, g>> # <<t, fd>> => file_desc_array'[u][g] = file_desc_array[u][g]
  <1>1. CASE CloseAll(v)
    <2>1. t = v
      BY <1>1 DEF CloseAll, DescriptorsInv
    <2> QED
      BY <1>1, <2>1
  <1>2. ASSUME NEW e \in FDs, NEW d \in Descriptors,
               file_desc_array' = [file_desc_array EXCEPT ![v][e] = d]
        PROVE  \A u \in Terminals, g \in FDs :
                 <<u, g>> # <<t, fd>> => file_desc_array'[u][g] = file_desc_array[u][g]
    <2>1. t = v /\ fd = e
      BY <1>2 DEF DescriptorsInv
    <2> QED
      BY <1>2, <2>1 DEF DescriptorsInv
  <1> QED
    BY <1>1, <1>2 DEF Touches

-----------------------------------------------------------------------------
(* The system calls                                                         *)

\* A call changes one entry of ret, and at most one buffer, to a string.
LEMMA BufferSet ==
  ASSUME BuffersInv, NEW t \in Terminals, NEW val, Returns(t, val), NEW s, IsString(s),
         buf' = buf \/ buf' = [buf EXCEPT ![t] = s]
  PROVE  BuffersInv'
  <1>1. DOMAIN ret' = Terminals
    BY DEF BuffersInv, Returns
  <1>2. DOMAIN buf' = Terminals
    BY DEF BuffersInv
  <1>3. ASSUME NEW u \in Terminals PROVE IsString(buf'[u])
    <2>1. buf'[u] = buf[u] \/ buf'[u] = s
      BY DEF BuffersInv
    <2>2. IsString(buf[u])
      BY DEF BuffersInv
    <2> QED
      BY <2>1, <2>2
  <1> QED
    BY <1>1, <1>2, <1>3 DEF BuffersInv, IsString

LEMMA BufferKept ==
  ASSUME BuffersInv, NEW t \in Terminals, NEW val, Returns(t, val), buf' = buf
  PROVE  BuffersInv'
  <1>1. IsString(buf[t])
    BY DEF BuffersInv
  <1> QED
    BY <1>1, BufferSet

LEMMA BadDescriptorCall ==
  ASSUME FilesInv, NEW t \in Terminals, BadDescriptor(t)
  PROVE  Touches(t) /\ BuffersInv'
  <1>1. BuffersInv /\ Returns(t, -1) /\ buf' = buf /\ UNCHANGED file_desc_array
    BY DEF FilesInv, BadDescriptor
  <1> QED
    BY <1>1, BufferKept DEF Touches

LEMMA OpenCall ==
  ASSUME FilesInv, NEW t \in Terminals, NEW name, IsString(name), sys_open(t, name)
  PROVE  Touches(t) /\ BuffersInv'
  <1>1. BuffersInv
    BY DEF FilesInv
  <1>2. CASE OpenFails(t, name)
    <2>1. Returns(t, -1) /\ buf' = buf /\ UNCHANGED file_desc_array
      BY <1>2 DEF OpenFails
    <2> QED
      BY <1>1, <2>1, BufferKept DEF Touches
  <1>3. CASE OpenSucceeds(t, name)
    <2> DEFINE S == FreeFDs(t)
               First(f) == \A g \in S : f <= g
               fd == CHOOSE f \in S : First(f)
               dentry == read_dentry_by_name(name)
               d == Desc(dentry.file_type, InodeOf(dentry, name))
    <2>1. /\ S # {} /\ Matches(name) # {}
          /\ file_desc_array' = [file_desc_array EXCEPT ![t][fd] = d]
          /\ Returns(t, fd) /\ buf' = buf
      BY <1>3 DEF OpenSucceeds
    <2>2. FILE_DESC_ARR_SIZE \in Nat
      BY FilesAssumption
    <2>3. S \subseteq FDs /\ S \in SUBSET Nat
      BY <2>2 DEF FreeFDs, FDs
    <2>4. PICK f \in S : \A g \in S : ~(g < f)
      BY <2>1, <2>3, LeastNumber
    <2>5. First(f)
      BY <2>3, <2>4
    <2> HIDE DEF First, S
    <2>6. fd \in S
      BY <2>5
    <2>7. /\ dentry.file_type \in FileTypes
          /\ dentry.file_type = "file" =>
               /\ InodeOf(dentry, name) = dentry.inode
               /\ dentry.inode \in DOMAIN inode_head
          /\ dentry.file_type # "file" => InodeOf(dentry, name) = 0
      BY <2>1, OpenedInode
    <2> HIDE DEF dentry, fd
    <2> DEFINE inode == InodeOf(dentry, name)
    <2>8. d = [file_ops_table |-> dentry.file_type, inode |-> inode,
               file_position |-> 0, flags |-> 1]
      BY DEF Desc
    <2> HIDE DEF d
    <2>9. d \in Descriptors
      BY <2>7, <2>8 DEF Descriptors
    <2>10. PositionOK(d)
      <3>1. ASSUME dentry.file_type = "file"
            PROVE  inode \in DOMAIN inode_head /\ 0 <= inode_head[inode].length + 1
        BY <2>7, <3>1, ImageAssumption
      <3> HIDE DEF inode
      <3> QED
        BY <2>8, <3>1 DEF PositionOK
    <2>11. Touches(t)
      BY <2>1, <2>3, <2>6, <2>9, <2>10 DEF Touches
    <2> QED
      BY <1>1, <2>1, <2>11, BufferKept
  <1> QED
    BY <1>2, <1>3 DEF sys_open

LEMMA CloseCall ==
  ASSUME FilesInv, NEW t \in Terminals, NEW fd, sys_close(t, fd)
  PROVE  Touches(t) /\ BuffersInv'
  <1>1. BuffersInv
    BY DEF FilesInv
  <1>2. CASE Active(t, fd) /\ fd >= 2
    <2> DEFINE d == [file_desc_array[t][fd] EXCEPT !.flags = 0]
    <2>1. /\ file_desc_array' = [file_desc_array EXCEPT ![t][fd].flags = 0]
          /\ Returns(t, 0) /\ buf' = buf
      BY <1>2 DEF sys_close
    <2>2. /\ fd \in FDs /\ file_desc_array \in [Terminals -> [FDs -> Descriptors]]
          /\ PositionOK(file_desc_array[t][fd])
      BY <1>2 DEF Active, FilesInv, DescriptorsInv
    <2>3. file_desc_array' = [file_desc_array EXCEPT ![t][fd] = d]
      BY <2>1
    <2>4. d \in Descriptors /\ PositionOK(d)
      BY <2>2 DEF Descriptors, PositionOK
    <2>5. Touches(t)
      BY <2>2, <2>3, <2>4 DEF Touches
    <2> QED
      BY <1>1, <2>1, <2>5, BufferKept
  <1>3. CASE ~(Active(t, fd) /\ fd >= 2)
    BY <1>3, BadDescriptorCall DEF sys_close
  <1> QED
    BY <1>2, <1>3

LEMMA ReadFileCall ==
  ASSUME FilesInv, NEW t \in Terminals, NEW fd, NEW n \in Nat, ReadFile(t, fd, n)
  PROVE  Touches(t) /\ BuffersInv'
  <1> DEFINE desc == file_desc_array[t][fd]
             data == read_data(desc.inode, desc.file_position, n)
             d == [desc EXCEPT !.file_position = @ + Len(data)]
             left == inode_head[desc.inode].length - desc.file_position
  <1>1. BuffersInv
    BY DEF FilesInv
  <1>2. /\ file_desc_array' = [file_desc_array EXCEPT
                                 ![t][fd].file_position = @ + Len(data)]
        /\ buf' = [buf EXCEPT ![t] = data]
        /\ Returns(t, Len(data))
    BY DEF ReadFile
  <1>3. fd \in FDs /\ desc.file_ops_table = "file"
    BY DEF ReadFile, Ops, Active
  <1>4. /\ file_desc_array \in [Terminals -> [FDs -> Descriptors]]
        /\ PositionOK(desc)
    BY <1>3 DEF FilesInv, DescriptorsInv
  <1>5. /\ desc \in Descriptors /\ desc.file_position \in Nat
        /\ desc.inode \in DOMAIN inode_head
        /\ desc.file_position <= inode_head[desc.inode].length + 1
    BY <1>3, <1>4 DEF Descriptors, PositionOK
  <1>6. inode_head[desc.inode].length \in Nat
    BY <1>5, ImageAssumption
  <1>7. IsString(data) /\ Len(data) <= left + 1
    BY <1>5, ReadDataIs
  <1>8. Len(data) \in Nat
    BY <1>7 DEF IsString
  <1>9. file_desc_array' = [file_desc_array EXCEPT ![t][fd] = d]
    BY <1>2
  <1> DEFINE k == Len(data)
             p == desc.file_position
             size == inode_head[desc.inode].length
  <1> HIDE DEF k, desc, size
  <1>10. p + k \in Nat /\ p + k <= size + 1
    <2> HIDE DEF p
    <2>1. p \in Nat /\ size \in Nat /\ k \in Nat /\ k <= size - p + 1
      BY <1>5, <1>6, <1>7, <1>8 DEF p, k, size
    <2> QED
      BY <2>1
  <1>11. d \in Descriptors /\ d.file_ops_table = "file" /\ d.inode = desc.inode
           /\ d.file_position = p + k
    BY <1>3, <1>5, <1>10 DEF Descriptors, k
  <1> HIDE DEF d
  <1>12. PositionOK(d)
    BY <1>5, <1>10, <1>11 DEF PositionOK, size
  <1>13. Touches(t)
    BY <1>3, <1>9, <1>11, <1>12 DEF Touches
  <1> QED
    BY <1>1, <1>2, <1>7, <1>13, BufferSet

\* strncpy fills the n bytes of its destination.
LEMMA CopyIsString ==
  ASSUME NEW src, NEW n \in Nat
  PROVE  IsString(strncpy(src, n))
  <1> DEFINE s == strncpy(src, n)
  <1>1. s = [i \in 1 .. n |-> IF i <= strlen(src) THEN src[i] ELSE NUL]
    BY DEF strncpy
  <1> HIDE DEF s
  <1>2. s = [i \in 1 .. n |-> s[i]]
    BY <1>1
  <1>3. IsString(s)
    BY <1>2, Filled
  <1> QED
    BY <1>3 DEF s

LEMMA EmptyIsString == IsString(<< >>)
  <1>1. << >> \in Seq(STRING)
    OBVIOUS
  <1> QED
    BY <1>1, SequenceIsString

LEMMA DotIsString == IsString(<<".">>)
  <1>1. <<".">> \in Seq({"."})
    OBVIOUS
  <1> QED
    BY <1>1, SequenceIsString

LEMMA ReadCall ==
  ASSUME FilesInv, NEW t \in Terminals, NEW fd, NEW n \in Nat, sys_read(t, fd, n)
  PROVE  Touches(t) /\ BuffersInv'
  <1>1. BuffersInv
    BY DEF FilesInv
  <1>2. CASE ReadFile(t, fd, n)
    BY <1>2, ReadFileCall
  <1>3. CASE ReadDirectory(t, fd, n)
    <2> DEFINE s == strncpy(dir_entries[read_dir_flag[t] + 1].file_name, FILENAME_LEN)
    <2>1. IsString(s)
      BY CopyIsString, StringsAssumption
    <2>2. UNCHANGED file_desc_array
      BY <1>3 DEF ReadDirectory
    <2>3. \E val : Returns(t, val) /\ (buf' = buf \/ buf' = [buf EXCEPT ![t] = s])
      <3>1. CASE read_dir_flag[t] >= entries
        BY <1>3, <3>1 DEF ReadDirectory
      <3>2. CASE ~(read_dir_flag[t] >= entries)
        BY <1>3, <3>2 DEF ReadDirectory
      <3> QED
        BY <3>1, <3>2
    <2> HIDE DEF s
    <2> QED
      BY <1>1, <2>1, <2>2, <2>3, BufferSet DEF Touches
  <1>4. CASE ReadRtc(t, fd, n)
    <2>1. Returns(t, 0) /\ buf' = buf /\ UNCHANGED file_desc_array
      BY <1>4 DEF ReadRtc
    <2> QED
      BY <1>1, <2>1, BufferKept DEF Touches
  <1>5. CASE ReadFails(t, fd, n)
    BY <1>5, BadDescriptorCall DEF ReadFails
  <1> QED
    BY <1>2, <1>3, <1>4, <1>5 DEF sys_read

LEMMA WriteCall ==
  ASSUME FilesInv, NEW t \in Terminals, NEW fd, NEW data, sys_write(t, fd, data)
  PROVE  Touches(t) /\ BuffersInv'
  <1>1. BuffersInv
    BY DEF FilesInv
  <1>2. CASE WriteTerminal(t, fd, data)
    <2>1. UNCHANGED file_desc_array /\ buf' = buf /\ \E val : Returns(t, val)
      BY <1>2 DEF WriteTerminal
    <2> QED
      BY <1>1, <2>1, BufferKept DEF Touches
  <1>3. CASE WriteFails(t, fd, data)
    BY <1>3, BadDescriptorCall DEF WriteFails
  <1> QED
    BY <1>2, <1>3 DEF sys_write

\* Any call of a program that makes any calls.
LEMMA AnyFilesCall ==
  ASSUME FilesInv, NEW t \in Terminals, FilesCall(t)
  PROVE  Touches(t) /\ BuffersInv'
  <1>1. ASSUME NEW name \in Names, sys_open(t, name)
        PROVE  Touches(t) /\ BuffersInv'
    <2>1. IsString(name)
      BY FilesAssumption, SequenceIsString
    <2> QED
      BY <1>1, <2>1, OpenCall
  <1>2. ASSUME NEW fd \in -1 .. FILE_DESC_ARR_SIZE, sys_close(t, fd)
        PROVE  Touches(t) /\ BuffersInv'
    BY <1>2, CloseCall
  <1>3. ASSUME NEW fd \in -1 .. FILE_DESC_ARR_SIZE, NEW n \in Lengths, sys_read(t, fd, n)
        PROVE  Touches(t) /\ BuffersInv'
    BY <1>3, ReadCall, FilesAssumption
  <1>4. ASSUME NEW fd \in -1 .. FILE_DESC_ARR_SIZE, NEW data \in {<< >>, <<NUL>>},
               sys_write(t, fd, data)
        PROVE  Touches(t) /\ BuffersInv'
    BY <1>4, WriteCall
  <1> QED
    BY <1>1, <1>2, <1>3, <1>4 DEF FilesCall

-----------------------------------------------------------------------------
(* The programs                                                             *)

\* A record of a process; only its count of calls matters, to syserr.
ProcessRecords(S) ==
  [program : S, pc : S, fd : S, file : S, searched : S, calls : Nat, cnt : S, fail : S]

IsProcess(r) == \E S : r \in ProcessRecords(S)

ProcessesInv ==
  /\ DOMAIN proc = Terminals
  /\ \A t \in Terminals : IsProcess(proc[t])

ArgumentsInv ==
  /\ DOMAIN argument_array = Terminals
  /\ \A t \in Terminals : IsString(argument_array[t])

\* The inductive invariant of the programs.
UserInv == FilesInv /\ ProcessesInv /\ ArgumentsInv

LEMMA ProcessSet ==
  ASSUME ProcessesInv, NEW t \in Terminals, NEW r, IsProcess(r),
         proc' = [proc EXCEPT ![t] = r]
  PROVE  ProcessesInv'
  <1>1. DOMAIN proc' = Terminals
    BY DEF ProcessesInv
  <1>2. ASSUME NEW u \in Terminals PROVE IsProcess(proc'[u])
    <2>1. proc'[u] = proc[u] \/ proc'[u] = r
      BY DEF ProcessesInv
    <2>2. IsProcess(proc[u])
      BY DEF ProcessesInv
    <2> QED
      BY <2>1, <2>2
  <1> QED
    BY <1>1, <1>2 DEF ProcessesInv, IsProcess

\* Only syserr's steps change calls.
LEMMA ProcessMoves ==
  ASSUME NEW r, IsProcess(r), NEW pc, NEW fd
  PROVE  /\ IsProcess([r EXCEPT !.pc = pc])
         /\ IsProcess([r EXCEPT !.fd = fd, !.pc = pc])
  <1>1. PICK S : r \in ProcessRecords(S)
    BY DEF IsProcess
  <1>2. /\ [r EXCEPT !.pc = pc] \in ProcessRecords(S \cup {pc, fd})
        /\ [r EXCEPT !.fd = fd, !.pc = pc] \in ProcessRecords(S \cup {pc, fd})
    BY <1>1 DEF ProcessRecords
  <1> QED
    BY <1>2 DEF IsProcess

LEMMA ProcessSearches ==
  ASSUME NEW r, IsProcess(r), NEW pc, NEW file, NEW searched
  PROVE  IsProcess([r EXCEPT !.file = file, !.searched = searched, !.pc = pc])
  <1>1. PICK S : r \in ProcessRecords(S)
    BY DEF IsProcess
  <1>2. [r EXCEPT !.file = file, !.searched = searched, !.pc = pc]
          \in ProcessRecords(S \cup {pc, file, searched})
    BY <1>1 DEF ProcessRecords
  <1> QED
    BY <1>2 DEF IsProcess

LEMMA ProcessCounts ==
  ASSUME NEW r, IsProcess(r), NEW n \in Nat, NEW cnt, NEW fail, NEW pc
  PROVE  /\ r.calls \in Nat
         /\ IsProcess([r EXCEPT !.calls = n, !.cnt = cnt, !.fail = fail, !.pc = pc])
  <1>1. PICK S : r \in ProcessRecords(S)
    BY DEF IsProcess
  <1>2. /\ r.calls \in Nat
        /\ [r EXCEPT !.calls = n, !.cnt = cnt, !.fail = fail, !.pc = pc]
             \in ProcessRecords(S \cup {cnt, fail, pc})
    BY <1>1 DEF ProcessRecords
  <1> QED
    BY <1>2 DEF IsProcess

LEMMA NewProcess ==
  ASSUME NEW program, NEW pc
  PROVE  IsProcess(Process(program, pc)) /\ IsProcess(Start(program))
  <1>1. ASSUME NEW p, NEW q PROVE IsProcess(Process(p, q))
    <2>1. Process(p, q) \in ProcessRecords({p, q, 0, << >>, FALSE})
      BY DEF Process, ProcessRecords
    <2> QED
      BY <2>1 DEF IsProcess
  <1> QED
    BY <1>1 DEF Start

LEMMA GotoKeeps ==
  ASSUME ProcessesInv, NEW t \in Terminals, NEW pc, Goto(t, pc)
  PROVE  ProcessesInv'
  <1> DEFINE r == [proc[t] EXCEPT !.pc = pc]
  <1>1. IsProcess(proc[t])
    BY DEF ProcessesInv
  <1>2. IsProcess(r)
    BY <1>1, ProcessMoves
  <1>3. proc' = [proc EXCEPT ![t] = r]
    BY DEF Goto
  <1> HIDE DEF r
  <1> QED
    BY <1>2, <1>3, ProcessSet

\* What a step of terminal t's program keeps.
StepOK(t) == Touches(t) /\ BuffersInv' /\ ProcessesInv' /\ ArgumentsInv'

LEMMA ArgumentsKept ==
  ASSUME ArgumentsInv, UNCHANGED kernelVars
  PROVE  ArgumentsInv'
  <1>1. argument_array' = argument_array
    BY DEF kernelVars
  <1> QED
    BY <1>1 DEF ArgumentsInv, IsString

LEMMA ArgumentSet ==
  ASSUME ArgumentsInv, NEW t \in Terminals, NEW s, IsString(s),
         argument_array' = [argument_array EXCEPT ![t] = s]
  PROVE  ArgumentsInv'
  <1>1. DOMAIN argument_array' = Terminals
    BY DEF ArgumentsInv
  <1>2. ASSUME NEW u \in Terminals PROVE IsString(argument_array'[u])
    <2>1. argument_array'[u] = argument_array[u] \/ argument_array'[u] = s
      BY DEF ArgumentsInv
    <2>2. IsString(argument_array[u])
      BY DEF ArgumentsInv
    <2> QED
      BY <2>1, <2>2
  <1> QED
    BY <1>1, <1>2 DEF ArgumentsInv, IsString

LEMMA GetargsCall ==
  ASSUME UserInv, NEW t \in Terminals, sys_getargs(t)
  PROVE  Touches(t) /\ BuffersInv'
  <1>1. BuffersInv /\ IsString(argument_array[t])
    BY DEF UserInv, FilesInv, ArgumentsInv
  <1>2. UNCHANGED file_desc_array
    BY DEF sys_getargs
  <1>3. \E val : Returns(t, val) /\ (buf' = buf \/ buf' = [buf EXCEPT ![t] = argument_array[t]])
    <2>1. CASE arg_flag[t] = 0
      BY <2>1 DEF sys_getargs
    <2>2. CASE arg_flag[t] # 0
      BY <2>2 DEF sys_getargs
    <2> QED
      BY <2>1, <2>2
  <1> QED
    BY <1>1, <1>2, <1>3, BufferSet DEF Touches

LEMMA ShellReadsStep ==
  ASSUME UserInv, NEW t \in Terminals, NEW line \in Lines[t], ShellReads(t, line)
  PROVE  StepOK(t)
  <1>1. IsString(line)
    BY UserProgramsAssumption, SequenceIsString
  <1>2. /\ buf' = [buf EXCEPT ![t] = line] /\ UNCHANGED file_desc_array
        /\ UNCHANGED kernelVars
        /\ \E val : Returns(t, val)
        /\ \E pc : Goto(t, pc)
    BY DEF ShellReads
  <1>3. BuffersInv'
    BY <1>1, <1>2, BufferSet DEF UserInv, FilesInv
  <1>4. ProcessesInv'
    BY <1>2, GotoKeeps DEF UserInv
  <1>5. ArgumentsInv'
    BY <1>2, ArgumentsKept DEF UserInv
  <1> QED
    BY <1>2, <1>3, <1>4, <1>5 DEF StepOK, Touches

LEMMA ShellExecutesStep ==
  ASSUME UserInv, NEW t \in Terminals, ShellExecutes(t)
  PROVE  StepOK(t)
  <1>1. CASE ExecuteFails(t)
    <2>1. /\ Returns(t, -1) /\ Goto(t, "reply") /\ buf' = buf
          /\ UNCHANGED file_desc_array /\ argument_array' = argument_array
      BY <1>1 DEF ExecuteFails
    <2>2. BuffersInv'
      BY <2>1, BufferKept DEF UserInv, FilesInv
    <2>3. ProcessesInv'
      BY <2>1, GotoKeeps DEF UserInv
    <2>4. ArgumentsInv'
      BY <2>1 DEF UserInv, ArgumentsInv, IsString
    <2> QED
      BY <2>1, <2>2, <2>3, <2>4 DEF StepOK, Touches
  <1>2. CASE ExecuteStarts(t)
    <2> DEFINE parsed == _execute_parse_args(buf[t])
               s == strncpy(parsed.arg, KEYBOARD_BUFFER_SIZE)
               r == Start(Main[parsed.prog_name])
    <2>1. /\ CloseAll(t) /\ Returns(t, 0)
          /\ argument_array' = [argument_array EXCEPT ![t] = s]
          /\ proc' = [proc EXCEPT ![t] = r]
          /\ buf' = [buf EXCEPT ![t] = << >>]
      BY <1>2 DEF ExecuteStarts
    <2>2. IsString(s)
      BY CopyIsString, ArgumentsAssumption
    <2>3. IsProcess(r)
      BY NewProcess
    <2> HIDE DEF parsed, s, r
    <2>4. BuffersInv'
      BY <2>1, EmptyIsString, BufferSet DEF UserInv, FilesInv
    <2>5. ProcessesInv'
      BY <2>1, <2>3, ProcessSet DEF UserInv
    <2>6. ArgumentsInv'
      BY <2>1, <2>2, ArgumentSet DEF UserInv
    <2> QED
      BY <2>1, <2>4, <2>5, <2>6 DEF StepOK, Touches
  <1> QED
    BY <1>1, <1>2 DEF ShellExecutes

LEMMA ShellRepliesStep ==
  ASSUME UserInv, NEW t \in Terminals, ShellReplies(t)
  PROVE  StepOK(t)
  <1>1. /\ buf' = [buf EXCEPT ![t] = << >>] /\ UNCHANGED file_desc_array
        /\ UNCHANGED kernelVars /\ Returns(t, 0) /\ Goto(t, "prompt")
    BY DEF ShellReplies
  <1>2. BuffersInv'
    BY <1>1, EmptyIsString, BufferSet DEF UserInv, FilesInv
  <1>3. ProcessesInv'
    BY <1>1, GotoKeeps DEF UserInv
  <1>4. ArgumentsInv'
    BY <1>1, ArgumentsKept DEF UserInv
  <1> QED
    BY <1>1, <1>2, <1>3, <1>4 DEF StepOK, Touches

LEMMA HaltStep ==
  ASSUME UserInv, NEW t \in Terminals, sys_halt(t)
  PROVE  StepOK(t)
  <1>1. /\ CloseAll(t) /\ buf' = [buf EXCEPT ![t] = << >>]
        /\ argument_array' = [argument_array EXCEPT ![t] = NoArgument]
    BY DEF sys_halt
  <1>2. (\E val : Returns(t, val)) /\ \E r : IsProcess(r) /\ proc' = [proc EXCEPT ![t] = r]
    <2>1. IsProcess(Start("shell")) /\ IsProcess(Process("shell", "reply"))
      BY NewProcess
    <2>2. CASE shells[t] = 0
      BY <2>1, <2>2 DEF sys_halt
    <2>3. CASE shells[t] # 0
      BY <2>1, <2>3 DEF sys_halt
    <2> QED
      BY <2>2, <2>3
  <1>3. IsString(NoArgument)
    BY CopyIsString, ArgumentsAssumption DEF NoArgument
  <1>4. BuffersInv'
    BY <1>1, <1>2, EmptyIsString, BufferSet DEF UserInv, FilesInv
  <1>5. ProcessesInv'
    BY <1>2, ProcessSet DEF UserInv
  <1>6. ArgumentsInv'
    BY <1>1, <1>3, ArgumentSet DEF UserInv
  <1> QED
    BY <1>1, <1>4, <1>5, <1>6 DEF StepOK, Touches

\* A call followed by a jump, the shape of most steps of the programs.
LEMMA CallAndGoto ==
  ASSUME UserInv, NEW t \in Terminals, NEW pc, Goto(t, pc), UNCHANGED kernelVars,
         Touches(t), BuffersInv'
  PROVE  StepOK(t)
  <1>1. ProcessesInv'
    BY GotoKeeps DEF UserInv
  <1>2. ArgumentsInv'
    BY ArgumentsKept DEF UserInv
  <1> QED
    BY <1>1, <1>2 DEF StepOK

\* A call followed by a jump that keeps the call's result as a descriptor.
LEMMA OpenAndGoto ==
  ASSUME UserInv, NEW t \in Terminals, NEW name, IsString(name), sys_open(t, name),
         NEW pc, proc' = [proc EXCEPT ![t].fd = ret'[t], ![t].pc = pc],
         UNCHANGED kernelVars
  PROVE  StepOK(t)
  <1> DEFINE fd == ret'[t]
             r == [proc[t] EXCEPT !.fd = fd, !.pc = pc]
  <1>1. Touches(t) /\ BuffersInv'
    BY OpenCall DEF UserInv
  <1>2. IsProcess(proc[t])
    BY DEF UserInv, ProcessesInv
  <1>3. DOMAIN proc = Terminals
    BY DEF UserInv, ProcessesInv
  <1>4. proc' = [proc EXCEPT ![t] = r]
    BY <1>3
  <1> HIDE DEF fd
  <1>5. IsProcess(r)
    BY <1>2, ProcessMoves
  <1> HIDE DEF r
  <1>6. ProcessesInv'
    BY <1>4, <1>5, ProcessSet DEF UserInv
  <1>7. ArgumentsInv'
    BY ArgumentsKept DEF UserInv
  <1> QED
    BY <1>1, <1>6, <1>7 DEF StepOK

LEMMA ComplainStep ==
  ASSUME UserInv, NEW t \in Terminals, Complain(t)
  PROVE  StepOK(t)
  <1>1. sys_write(t, 1, <<"message">>) /\ Goto(t, "return 3") /\ UNCHANGED kernelVars
    BY DEF Complain
  <1>2. Touches(t) /\ BuffersInv'
    BY <1>1, WriteCall DEF UserInv
  <1> QED
    BY <1>1, <1>2, CallAndGoto

LEMMA CatStep ==
  ASSUME UserInv, NEW t \in Terminals, cat(t)
  PROVE  StepOK(t)
  <1>1. CASE CatArgs(t)
    <2>1. sys_getargs(t) /\ UNCHANGED kernelVars /\ \E pc : Goto(t, pc)
      BY <1>1 DEF CatArgs
    <2> QED
      BY <2>1, GetargsCall, CallAndGoto
  <1>2. CASE CatOpen(t)
    <2>1. sys_open(t, buf[t]) /\ UNCHANGED kernelVars
      BY <1>2 DEF CatOpen
    <2>2. \E pc : proc' = [proc EXCEPT ![t].fd = ret'[t], ![t].pc = pc]
      BY <1>2 DEF CatOpen
    <2>3. IsString(buf[t])
      BY DEF UserInv, FilesInv, BuffersInv
    <2> QED
      BY <2>1, <2>2, <2>3, OpenAndGoto
  <1>3. CASE CatRead(t)
    <2>1. sys_read(t, proc[t].fd, BUFSIZE) /\ UNCHANGED kernelVars /\ \E pc : Goto(t, pc)
      BY <1>3 DEF CatRead
    <2>2. BUFSIZE \in Nat
      BY UserProgramsAssumption
    <2>3. Touches(t) /\ BuffersInv'
      BY <2>1, <2>2, ReadCall DEF UserInv
    <2> QED
      BY <2>1, <2>3, CallAndGoto
  <1>4. CASE CatWrite(t)
    <2>1. sys_write(t, 1, buf[t]) /\ UNCHANGED kernelVars /\ \E pc : Goto(t, pc)
      BY <1>4 DEF CatWrite
    <2>2. Touches(t) /\ BuffersInv'
      BY <2>1, WriteCall DEF UserInv
    <2> QED
      BY <2>1, <2>2, CallAndGoto
  <1> QED
    BY <1>1, <1>2, <1>3, <1>4 DEF cat

LEMMA OpenDirectoryStep ==
  ASSUME UserInv, NEW t \in Terminals, NEW program, NEW pc, OpenDirectory(t, program, pc)
  PROVE  StepOK(t)
  <1>1. sys_open(t, <<".">>) /\ UNCHANGED kernelVars
    BY DEF OpenDirectory
  <1>2. \E q : proc' = [proc EXCEPT ![t].fd = ret'[t], ![t].pc = q]
    BY DEF OpenDirectory
  <1> QED
    BY <1>1, <1>2, DotIsString, OpenAndGoto

LEMMA NextEntryStep ==
  ASSUME UserInv, NEW t \in Terminals, NEW program, NEW found, NextEntry(t, program, found)
  PROVE  StepOK(t)
  <1>1. /\ sys_read(t, proc[t].fd, FILENAME_LEN)
        /\ UNCHANGED kernelVars /\ \E pc : Goto(t, pc)
    BY DEF NextEntry
  <1>2. FILENAME_LEN \in Nat
    BY StringsAssumption
  <1>3. Touches(t) /\ BuffersInv'
    BY <1>1, <1>2, ReadCall DEF UserInv
  <1> QED
    BY <1>1, <1>3, CallAndGoto

LEMMA LsStep ==
  ASSUME UserInv, NEW t \in Terminals, ls(t)
  PROVE  StepOK(t)
  <1>1. CASE LsWrite(t)
    <2>1. UNCHANGED kernelVars /\ \E pc : Goto(t, pc)
      BY <1>1 DEF LsWrite
    <2>2. \E data : sys_write(t, 1, data)
      BY <1>1 DEF LsWrite
    <2>3. Touches(t) /\ BuffersInv'
      BY <2>2, WriteCall DEF UserInv
    <2> QED
      BY <2>1, <2>3, CallAndGoto
  <1> QED
    BY <1>1, OpenDirectoryStep, NextEntryStep DEF ls

LEMMA GrepOpenFileStep ==
  ASSUME UserInv, NEW t \in Terminals, GrepOpenFile(t)
  PROVE  StepOK(t)
  <1>1. UNCHANGED kernelVars
    BY DEF GrepOpenFile
  <1>2. CASE buf[t][1] = "."
    <2>1. Goto(t, "next") /\ UNCHANGED fvars
      BY <1>2 DEF GrepOpenFile
    <2>2. Touches(t) /\ BuffersInv'
      BY <2>1 DEF Touches, fvars, UserInv, FilesInv, BuffersInv, IsString
    <2> QED
      BY <1>1, <2>1, <2>2, CallAndGoto
  <1>3. CASE buf[t][1] # "."
    <2> DEFINE name == buf[t] \o <<NUL>>
               file == ret'[t]
    <2>1. sys_open(t, name)
      BY <1>3 DEF GrepOpenFile
    <2>2. \E pc, searched :
            proc' = [proc EXCEPT ![t].file = file, ![t].searched = searched, ![t].pc = pc]
      BY <1>3 DEF GrepOpenFile
    <2>3. IsString(name)
      <3> DEFINE S == {buf[t][i] : i \in 1 .. Len(buf[t])}
      <3>1. buf[t] \in Seq(S)
        BY StringIsSequence DEF UserInv, FilesInv, BuffersInv
      <3> HIDE DEF S
      <3>2. buf[t] \in Seq(S \cup {NUL}) /\ <<NUL>> \in Seq(S \cup {NUL})
        BY <3>1
      <3>3. name \in Seq(S \cup {NUL})
        BY <3>2
      <3> QED
        BY <3>3, SequenceIsString
    <2>4. Touches(t) /\ BuffersInv'
      BY <2>1, <2>3, OpenCall DEF UserInv
    <2> HIDE DEF file
    <2>5. PICK pc, searched :
            proc' = [proc EXCEPT ![t].file = file, ![t].searched = searched, ![t].pc = pc]
      BY <2>2
    <2> DEFINE r == [proc[t] EXCEPT !.file = file, !.searched = searched, !.pc = pc]
    <2>6. IsProcess(proc[t]) /\ DOMAIN proc = Terminals
      BY DEF UserInv, ProcessesInv
    <2>7. proc' = [proc EXCEPT ![t] = r]
      BY <2>5, <2>6
    <2>8. IsProcess(r)
      BY <2>6, ProcessSearches
    <2> HIDE DEF r
    <2>9. ProcessesInv'
      BY <2>7, <2>8, ProcessSet DEF UserInv
    <2>10. ArgumentsInv'
      BY <1>1, ArgumentsKept DEF UserInv
    <2> QED
      BY <2>4, <2>9, <2>10 DEF StepOK
  <1> QED
    BY <1>2, <1>3

LEMMA GrepStep ==
  ASSUME UserInv, NEW t \in Terminals, grep(t)
  PROVE  StepOK(t)
  <1>1. CASE GrepArgs(t)
    <2>1. sys_getargs(t) /\ UNCHANGED kernelVars /\ \E pc : Goto(t, pc)
      BY <1>1 DEF GrepArgs
    <2> QED
      BY <2>1, GetargsCall, CallAndGoto
  <1>2. CASE GrepReadFile(t)
    <2>1. sys_read(t, proc[t].file, BUFSIZE) /\ UNCHANGED kernelVars /\ \E pc : Goto(t, pc)
      BY <1>2 DEF GrepReadFile
    <2>2. BUFSIZE \in Nat
      BY UserProgramsAssumption
    <2>3. Touches(t) /\ BuffersInv'
      BY <2>1, <2>2, ReadCall DEF UserInv
    <2> QED
      BY <2>1, <2>3, CallAndGoto
  <1>3. CASE GrepCloseFile(t)
    <2>1. sys_close(t, proc[t].file) /\ UNCHANGED kernelVars /\ \E pc : Goto(t, pc)
      BY <1>3 DEF GrepCloseFile
    <2>2. Touches(t) /\ BuffersInv'
      BY <2>1, CloseCall DEF UserInv
    <2> QED
      BY <2>1, <2>2, CallAndGoto
  <1> QED
    BY <1>1, <1>2, <1>3, GrepOpenFileStep, OpenDirectoryStep, NextEntryStep DEF grep

-----------------------------------------------------------------------------
(* syserr and the whole                                                     *)

SysErrNames == Seq(STRING) \cup {<<".">>}
Calls == [call : {"open", "close", "read", "write"}, name : SysErrNames, fd : Int]

\* Every call of syserr is one of the four.
LEMMA SysErrCallsType == SysErrCalls \in Seq(Calls)
  <1> DEFINE N == FILE_DESC_ARR_SIZE
  <1>1. N \in Nat /\ N >= 2
    BY FilesAssumption
  <1>2. WrongNames \in Seq(Seq(STRING))
    BY UserProgramsAssumption
  <1>3. << >> \in SysErrNames /\ <<".">> \in SysErrNames
    BY DEF SysErrNames
  <1>4. \A fd \in Int : Read(fd) \in Calls /\ Write(fd) \in Calls /\ Close(fd) \in Calls
    BY <1>3 DEF Read, Write, Close, Calls
  <1>5. \A name \in SysErrNames : Open(name) \in Calls
    BY DEF Open, Calls
  <1> HIDE DEF Calls
  <1>6. BadFd(-1) \in Seq(Calls) /\ BadFd(N) \in Seq(Calls)
    BY <1>1, <1>4 DEF BadFd
  <1>7. OpenLots \in Seq(Calls)
    <2>1. OpenLots \in [1 .. N - 1 -> Calls]
      BY <1>3, <1>5 DEF OpenLots
    <2>2. N - 1 \in Nat
      BY <1>1
    <2> QED
      BY <2>1, <2>2, SeqDef
  <1>8. Each(Close, 2) \in Seq(Calls) /\ Each(Read, 2) \in Seq(Calls)
          /\ Each(Write, 2) \in Seq(Calls) /\ Each(Close, 0) \in Seq(Calls)
    <2>1. \A i \in 1 .. N - 2 : 2 + i - 1 \in Int
      BY <1>1
    <2>2. \A i \in 1 .. N - 0 : 0 + i - 1 \in Int
      BY <1>1
    <2>3. /\ Each(Close, 2) \in [1 .. N - 2 -> Calls]
          /\ Each(Read, 2) \in [1 .. N - 2 -> Calls]
          /\ Each(Write, 2) \in [1 .. N - 2 -> Calls]
      BY <1>4, <2>1 DEF Each
    <2>4. Each(Close, 0) \in [1 .. N - 0 -> Calls]
      BY <1>4, <2>2 DEF Each
    <2>5. N - 2 \in Nat /\ N - 0 \in Nat
      BY <1>1
    <2>6. \A n \in Nat : [1 .. n -> Calls] \subseteq Seq(Calls)
      BY SeqDef
    <2>7. [1 .. N - 2 -> Calls] \subseteq Seq(Calls) /\ [1 .. N - 0 -> Calls] \subseteq Seq(Calls)
      BY <2>5, <2>6
    <2> QED
      BY <2>3, <2>4, <2>7, Zenon
  <1> DEFINE wrong == [i \in DOMAIN WrongNames |-> Open(WrongNames[i])]
  <1>9. wrong \in Seq(Calls)
    <2>1. Len(WrongNames) \in Nat /\ WrongNames \in [1 .. Len(WrongNames) -> Seq(STRING)]
      BY <1>2, LenProperties
    <2>2. wrong \in [1 .. Len(WrongNames) -> Calls]
      BY <2>1, <1>5 DEF SysErrNames
    <2> QED
      BY <2>1, <2>2, SeqDef
  <1>10. <<Write(0), Read(1)>> \in Seq(Calls)
    BY <1>4
  <1> HIDE DEF wrong
  <1>11. FailingCalls \in Seq(Calls)
    <2>1. FailingCalls =
            wrong \o Each(Close, 0) \o Each(Read, 2) \o Each(Write, 2) \o <<Write(0), Read(1)>>
      BY DEF FailingCalls, wrong
    <2>2. wrong \o Each(Close, 0) \in Seq(Calls)
      BY <1>8, <1>9, ConcatProperties
    <2>3. wrong \o Each(Close, 0) \o Each(Read, 2) \in Seq(Calls)
      BY <1>8, <2>2, ConcatProperties
    <2>4. wrong \o Each(Close, 0) \o Each(Read, 2) \o Each(Write, 2) \in Seq(Calls)
      BY <1>8, <2>3, ConcatProperties
    <2> QED
      BY <1>10, <2>1, <2>4, ConcatProperties
  <1>12. CloseLots \in Seq(Calls)
    BY <1>8 DEF CloseLots
  <1>13. SysErrCalls = BadFd(-1) \o BadFd(N) \o OpenLots \o CloseLots \o FailingCalls
    BY DEF SysErrCalls
  <1>14. BadFd(-1) \o BadFd(N) \in Seq(Calls)
    BY <1>6, ConcatProperties
  <1>15. BadFd(-1) \o BadFd(N) \o OpenLots \in Seq(Calls)
    BY <1>7, <1>14, ConcatProperties
  <1>16. BadFd(-1) \o BadFd(N) \o OpenLots \o CloseLots \in Seq(Calls)
    BY <1>12, <1>15, ConcatProperties
  <1> QED
    BY <1>11, <1>13, <1>16, ConcatProperties

LEMMA SysErrCallStep ==
  ASSUME UserInv, NEW t \in Terminals, SysErrCall(t)
  PROVE  StepOK(t)
  <1> DEFINE i == proc[t].calls + 1
             c == SysErrCalls[i]
  <1>1. IsProcess(proc[t]) /\ DOMAIN proc = Terminals
    BY DEF UserInv, ProcessesInv
  <1>2. proc[t].calls \in Nat
    BY <1>1, ProcessCounts
  <1>3. i <= Len(SysErrCalls) /\ UNCHANGED kernelVars
    BY DEF SysErrCall
  <1>4. i \in Nat /\ i >= 1
    BY <1>2
  <1> HIDE DEF i
  <1>5. c \in Calls
    <2>1. Len(SysErrCalls) \in Nat /\ SysErrCalls \in [1 .. Len(SysErrCalls) -> Calls]
      BY SysErrCallsType, LenProperties
    <2> QED
      BY <2>1, <1>3, <1>4
  <1>6. /\ c.call = "open" => sys_open(t, c.name)
        /\ c.call = "close" => sys_close(t, c.fd)
        /\ c.call = "read" => sys_read(t, c.fd, FILENAME_LEN - 1)
        /\ c.call = "write" => sys_write(t, c.fd, <<NUL>>)
    BY DEF SysErrCall, i
  <1>7. PICK cnt, fail, pc :
          proc' = [proc EXCEPT ![t].calls = i, ![t].cnt = cnt, ![t].fail = fail, ![t].pc = pc]
    BY DEF SysErrCall, i
  <1> HIDE DEF c
  <1>8. c.call \in {"open", "close", "read", "write"} /\ c.name \in SysErrNames
    BY <1>5 DEF Calls
  <1>9. Touches(t) /\ BuffersInv'
    <2>1. CASE c.call = "open"
      <3>1. sys_open(t, c.name)
        BY <1>6, <2>1
      <3>2. IsString(c.name)
        BY <1>8, SequenceIsString, DotIsString DEF SysErrNames
      <3> QED
        BY <3>1, <3>2, OpenCall DEF UserInv
    <2>2. CASE c.call = "close"
      BY <1>6, <2>2, CloseCall DEF UserInv
    <2>3. CASE c.call = "read"
      <3>1. sys_read(t, c.fd, FILENAME_LEN - 1) /\ FILENAME_LEN - 1 \in Nat
        BY <1>6, <2>3, StringsAssumption
      <3> QED
        BY <3>1, ReadCall DEF UserInv
    <2>4. CASE c.call = "write"
      BY <1>6, <2>4, WriteCall DEF UserInv
    <2> QED
      BY <1>8, <2>1, <2>2, <2>3, <2>4
  <1> DEFINE r == [proc[t] EXCEPT !.calls = i, !.cnt = cnt, !.fail = fail, !.pc = pc]
  <1>10. proc' = [proc EXCEPT ![t] = r]
    BY <1>1, <1>7
  <1>11. IsProcess(r)
    BY <1>1, <1>4, ProcessCounts
  <1> HIDE DEF r
  <1>12. ProcessesInv'
    BY <1>10, <1>11, ProcessSet DEF UserInv
  <1>13. ArgumentsInv'
    BY <1>3, ArgumentsKept DEF UserInv
  <1> QED
    BY <1>9, <1>12, <1>13 DEF StepOK

LEMMA AnyCallStep ==
  ASSUME UserInv, NEW t \in Terminals, AnyCall(t)
  PROVE  StepOK(t)
  <1>1. UNCHANGED kernelVars
    BY DEF AnyCall
  <1>2. CASE FilesCall(t) /\ UNCHANGED proc
    <2>1. Touches(t) /\ BuffersInv'
      BY <1>2, AnyFilesCall DEF UserInv
    <2>2. ProcessesInv'
      BY <1>2 DEF UserInv, ProcessesInv, IsProcess
    <2>3. ArgumentsInv'
      BY <1>1, ArgumentsKept DEF UserInv
    <2> QED
      BY <2>1, <2>2, <2>3 DEF StepOK
  <1>3. CASE Goto(t, "return 0") /\ UNCHANGED fvars
    <2>1. Touches(t) /\ BuffersInv'
      BY <1>3 DEF Touches, fvars, UserInv, FilesInv, BuffersInv, IsString
    <2> QED
      BY <1>1, <1>3, <2>1, CallAndGoto
  <1> QED
    BY <1>2, <1>3 DEF AnyCall

\* Every step is a step of one terminal's program.
LEMMA UserStep ==
  ASSUME UserInv, UserNext
  PROVE  \E t \in Terminals : StepOK(t)
  <1>1. PICK t \in Terminals :
          Running(t) \/ AnyCall(t) \/ \E line \in Lines[t] : ShellReads(t, line)
    BY DEF UserNext
  <1>2. CASE Running(t)
    BY <1>2, ShellExecutesStep, ShellRepliesStep, HaltStep, ComplainStep, CatStep, LsStep,
       GrepStep, SysErrCallStep DEF Running
  <1> QED
    BY <1>1, <1>2, AnyCallStep, ShellReadsStep

LEMMA UserInvInit == UserInit => UserInv
  <1> SUFFICES ASSUME UserInit PROVE UserInv
    OBVIOUS
  <1>1. DescriptorsInv
    BY NewTableType DEF UserInit, FilesInit, DescriptorsInv
  <1>2. BuffersInv
    BY EmptyIsString DEF UserInit, FilesInit, BuffersInv
  <1>3. ProcessesInv
    BY NewProcess DEF UserInit, ProcessesInv
  <1>4. ArgumentsInv
    <2>1. IsString(NoArgument)
      BY CopyIsString, ArgumentsAssumption DEF NoArgument
    <2> QED
      BY <2>1 DEF UserInit, ArgumentsInv
  <1> QED
    BY <1>1, <1>2, <1>3, <1>4 DEF UserInv, FilesInv

LEMMA UserInvStep == UserInv /\ [UserNext]_uvars => UserInv'
  <1>1. ASSUME UserInv, UserNext PROVE UserInv'
    BY <1>1, UserStep, TouchesKeepsDescriptors DEF UserInv, FilesInv, StepOK
  <1>2. ASSUME UserInv, UNCHANGED uvars PROVE UserInv'
    <2>1. UNCHANGED <<file_desc_array, ret, buf, proc, argument_array>>
      BY <1>2 DEF uvars, fvars, kernelVars
    <2> QED
      BY <1>2, <2>1 DEF UserInv, FilesInv, DescriptorsInv, BuffersInv, ProcessesInv,
                        ArgumentsInv, IsString, IsProcess
  <1> QED
    BY <1>1, <1>2

LEMMA UserInvariant == UserSpec => []UserInv
  <1> QED
    BY UserInvInit, UserInvStep, PTL DEF UserSpec

\* Whatever programs open, close and read in whichever order, a call changes no
\* descriptor but the one it names, of its own process: open takes a free one,
\* read moves one position, and halt alone closes several.
THEOREM DescriptorsApart == UserSpec => DescriptorsIndependent
  <1> DEFINE Apart ==
        \A t \in Terminals, fd \in FDs :
          file_desc_array'[t][fd] # file_desc_array[t][fd] =>
            \/ CloseAll(t)
            \/ \A u \in Terminals, g \in FDs :
                 <<u, g>> # <<t, fd>> => file_desc_array'[u][g] = file_desc_array[u][g]
  <1>1. ASSUME UserInv, UserNext PROVE Apart
    BY <1>1, UserStep, TouchesOne DEF UserInv, FilesInv, StepOK
  <1>2. UNCHANGED uvars => UNCHANGED fvars
    BY DEF uvars
  <1>3. UserInv /\ [UserNext]_uvars => [Apart]_fvars
    BY <1>1, <1>2
  <1> QED
    BY <1>3, UserInvariant, PTL DEF UserSpec, DescriptorsIndependent

\* For every image, block size and position, a read of a file returns the bytes
\* that follow the last read of its descriptor: the loop of read_data over the
\* block list computes the contents of the file.
THEOREM ReadsConsecutive == UserSpec => ReadsAreConsecutive
  <1> DEFINE Consecutive ==
        \A t \in Terminals, fd \in FDs, n \in Lengths :
          ReadFile(t, fd, n) =>
            LET desc == file_desc_array[t][fd]
                left == inode_head[desc.inode].length - desc.file_position
                want == IF left < 0 THEN 0 ELSE IF n <= left THEN n ELSE left
            IN  /\ want <= ret'[t] /\ ret'[t] <= left + 1
                /\ \A i \in 1 .. want :
                     buf'[t][i] = Contents(desc.inode)[desc.file_position + i]
  <1>1. ASSUME UserInv PROVE Consecutive
    <2> SUFFICES ASSUME NEW t \in Terminals, NEW fd \in FDs, NEW n \in Lengths,
                        ReadFile(t, fd, n)
                 PROVE  LET desc == file_desc_array[t][fd]
                            left == inode_head[desc.inode].length - desc.file_position
                        IN  /\ Wanted(left, n) <= ret'[t] /\ ret'[t] <= left + 1
                            /\ \A i \in 1 .. Wanted(left, n) :
                                 buf'[t][i] = Contents(desc.inode)[desc.file_position + i]
      BY DEF Wanted
    <2> DEFINE desc == file_desc_array[t][fd]
               data == read_data(desc.inode, desc.file_position, n)
    <2>1. buf' = [buf EXCEPT ![t] = data] /\ ret' = [ret EXCEPT ![t] = Len(data)]
            /\ desc.file_ops_table = "file"
      BY DEF ReadFile, Returns, Ops, Active
    <2>2. n \in Nat
      BY FilesAssumption
    <2>3. desc \in Descriptors /\ PositionOK(desc)
      BY <1>1 DEF UserInv, FilesInv, DescriptorsInv
    <2>4. /\ desc.file_position \in Nat /\ desc.inode \in DOMAIN inode_head
          /\ desc.file_position <= inode_head[desc.inode].length + 1
      BY <2>1, <2>3 DEF Descriptors, PositionOK
    <2>5. DOMAIN ret = Terminals /\ DOMAIN buf = Terminals
      BY <1>1 DEF UserInv, FilesInv, BuffersInv
    <2>6. buf'[t] = data /\ ret'[t] = Len(data)
      BY <2>1, <2>5
    <2> DEFINE inode == desc.inode
               offset == desc.file_position
               left == inode_head[inode].length - offset
    <2>7. /\ Wanted(left, n) <= Len(data) /\ Len(data) <= left + 1
          /\ \A i \in 1 .. Wanted(left, n) : data[i] = Contents(inode)[offset + i]
      <3>1. /\ inode \in DOMAIN inode_head /\ offset \in Nat /\ n \in Nat
            /\ offset <= inode_head[inode].length + 1
        BY <2>2, <2>4
      <3> DEFINE read == read_data(inode, offset, n)
      <3>2. read = data
        OBVIOUS
      <3> HIDE DEF inode, offset, data
      <3>3. /\ Wanted(left, n) <= Len(read) /\ Len(read) <= left + 1
            /\ \A i \in 1 .. Wanted(left, n) : read[i] = Contents(inode)[offset + i]
        BY <3>1, ReadDataIs, Zenon
      <3> HIDE DEF read
      <3> QED
        BY <3>2, <3>3, Zenon
    <2> QED
      BY <2>6, <2>7, Zenon
  <1>2. UserInv /\ [UserNext]_uvars => [Consecutive]_fvars
    BY <1>1
  <1> QED
    BY <1>2, UserInvariant, PTL DEF UserSpec, ReadsAreConsecutive

-----------------------------------------------------------------------------
(* The lookup against names compared as a whole                             *)

\* A string with no NUL in it, as a C string is between its ends.
IsCString(s) == IsString(s) /\ \A i \in 1 .. Len(s) : s[i] # NUL

LEMMA CStringIsCString ==
  ASSUME NEW s, IsString(s)
  PROVE  IsCString(CString(s))
  <1> DEFINE c == CString(s)
             n == strlen(s)
  <1>1. IsString(c) /\ Len(c) = n /\ \A i \in 1 .. n : Char(c, i) = Char(s, i)
    BY CStringIs
  <1>2. \A k \in 1 .. n : Char(s, k) # NUL
    BY StrlenIs
  <1>3. DOMAIN c = 1 .. Len(c)
    BY <1>1, StringIsSequence
  <1> HIDE DEF c, n
  <1>4. \A i \in 1 .. Len(c) : c[i] # NUL
    BY <1>1, <1>2, <1>3 DEF Char
  <1>5. IsCString(c)
    BY <1>1, <1>4 DEF IsCString
  <1> QED
    BY <1>5 DEF c

LEMMA StrlenOfCString ==
  ASSUME NEW s, IsCString(s)
  PROVE  strlen(s) = Len(s)
  <1>1. IsString(s) /\ Len(s) \in Nat /\ DOMAIN s = 1 .. Len(s)
    BY StringIsSequence DEF IsCString, IsString
  <1>2. strlen(s) \in 0 .. Len(s) /\ Char(s, strlen(s) + 1) = NUL
    BY <1>1, StrlenIs
  <1>3. \A i \in 1 .. Len(s) : Char(s, i) # NUL
    BY <1>1 DEF IsCString, Char
  <1> DEFINE n == strlen(s)
  <1> HIDE DEF n
  <1>4. n \in 0 .. Len(s) /\ Char(s, n + 1) = NUL
    BY <1>2 DEF n
  <1>5. ~(n < Len(s))
    <2> SUFFICES ASSUME n < Len(s) PROVE FALSE
      OBVIOUS
    <2>1. n + 1 \in 1 .. Len(s)
      BY <1>1, <1>4
    <2> QED
      BY <1>3, <1>4, <2>1
  <1> QED
    BY <1>1, <1>4, <1>5 DEF n

\* strncmp with an entry of the directory is equality with its name.
LEMMA CompareIsEquality ==
  ASSUME NEW name, IsCString(name), NEW d, IsString(d), Len(d) = FILENAME_LEN,
         Len(name) <= FILENAME_LEN
  PROVE  strncmp(name, d, FILENAME_LEN) <=> CString(d) = name
  <1> DEFINE F == FILENAME_LEN
             n == Len(name)
             m == strlen(d)
             c == CString(d)
  <1>1. F \in Nat /\ n \in Nat /\ IsString(name) /\ DOMAIN name = 1 .. n
    BY StringsAssumption, StringIsSequence DEF IsCString, IsString
  <1>2. /\ m \in 0 .. F /\ Char(d, m + 1) = NUL
        /\ \A k \in 1 .. m : Char(d, k) # NUL
    BY StrlenIs
  <1>3. /\ IsString(c) /\ Len(c) = m
        /\ \A i \in 1 .. m : Char(c, i) = Char(d, i)
        /\ \A i \in Nat : i > m => Char(c, i) = NUL
    BY CStringIs
  <1>4. DOMAIN c = 1 .. m
    BY <1>3, StringIsSequence
  <1>5. (\A i \in 1 .. n : Char(name, i) = name[i] /\ Char(name, i) # NUL)
          /\ Char(name, n + 1) = NUL
    BY <1>1 DEF Char, IsCString
  <1>6. strncmp(name, d, F) <=>
          \A i \in 1 .. F :
            \/ Char(name, i) = Char(d, i)
            \/ \E j \in 1 .. i - 1 : Char(name, j) = NUL /\ Char(d, j) = NUL
    BY DEF strncmp
  <1>7. n <= F
    OBVIOUS
  <1>8. name = [i \in 1 .. n |-> name[i]]
    BY DEF IsCString, IsString
  <1>9. c = [i \in 1 .. m |-> c[i]]
    BY <1>3 DEF IsString
  <1> HIDE DEF F, n, m, c
  <1>10. ASSUME strncmp(name, d, F) PROVE c = name
    <2>1. ASSUME NEW i \in 1 .. F, i <= n + 1 PROVE Char(name, i) = Char(d, i)
      <3>1. ~\E j \in 1 .. i - 1 : Char(name, j) = NUL
        BY <1>1, <1>5, <2>1
      <3> QED
        BY <1>6, <1>10, <3>1
    <2>2. m = n
      <3>1. ~(m < n)
        <4> SUFFICES ASSUME m < n PROVE FALSE
          OBVIOUS
        <4>1. m + 1 \in 1 .. F /\ m + 1 <= n + 1 /\ m + 1 \in 1 .. n
          BY <1>1, <1>2, <1>7
        <4> QED
          BY <1>2, <1>5, <2>1, <4>1
      <3>2. ~(n < m)
        <4> SUFFICES ASSUME n < m PROVE FALSE
          OBVIOUS
        <4>1. n + 1 \in 1 .. F /\ n + 1 <= n + 1 /\ n + 1 \in 1 .. m
          BY <1>1, <1>2
        <4> QED
          BY <1>2, <1>5, <2>1, <4>1
      <3> QED
        BY <1>1, <1>2, <3>1, <3>2
    <2>3. ASSUME NEW i \in 1 .. n PROVE c[i] = name[i]
      <3>1. i \in 1 .. F /\ i <= n + 1 /\ i \in 1 .. m
        BY <1>1, <1>7, <2>2
      <3>2. Char(name, i) = Char(d, i) /\ Char(c, i) = Char(d, i)
        BY <1>3, <2>1, <3>1
      <3>3. Char(c, i) = c[i]
        BY <1>4, <3>1 DEF Char
      <3> QED
        BY <1>5, <3>2, <3>3
    <2> QED
      BY <1>8, <1>9, <2>2, <2>3
  <1>11. ASSUME c = name PROVE strncmp(name, d, F)
    <2>1. m = n
      BY <1>3, <1>11 DEF n
    <2> SUFFICES ASSUME NEW i \in 1 .. F
                 PROVE  \/ Char(name, i) = Char(d, i)
                        \/ \E j \in 1 .. i - 1 : Char(name, j) = NUL /\ Char(d, j) = NUL
      BY <1>6
    <2>2. CASE i <= n
      BY <1>1, <1>3, <1>11, <2>1, <2>2
    <2>3. CASE i = n + 1
      BY <1>2, <1>5, <2>1, <2>3
    <2>4. CASE i > n + 1
      <3>1. n + 1 \in 1 .. i - 1
        BY <1>1, <2>4
      <3> QED
        BY <1>2, <1>5, <2>1, <3>1
    <2> QED
      BY <1>1, <2>2, <2>3, <2>4
  <1> QED
    BY <1>10, <1>11 DEF F, c

\* Whatever the directory holds, a name is found exactly if an entry has it.
LEMMA FoundRightAlways ==
  ASSUME NEW name, IsCString(name)
  PROVE  FoundRight(name)
  <1> DEFINE d(i) == dir_entries[i].file_name
             called == {i \in 1 .. entries : CString(d(i)) = name}
  <1>1. /\ entries \in Nat
        /\ \A i \in 1 .. entries : dir_entries[i] \in Dentries
    BY FilesAssumption, LenProperties DEF entries
  <1>2. \A i \in 1 .. entries : IsString(d(i)) /\ Len(d(i)) = FILENAME_LEN
    <2> TAKE i \in 1 .. entries
    <2>1. d(i) \in Seq(STRING)
      BY <1>1 DEF Dentries
    <2> QED
      BY <2>1, SequenceIsString, FilesAssumption
  <1>3. IsString(name) /\ Len(name) \in Nat /\ strlen(name) = Len(name)
          /\ DOMAIN name = 1 .. Len(name)
    BY StrlenOfCString, StringIsSequence DEF IsCString, IsString
  <1>4. \A i \in 1 .. entries : CString(d(i)) # << >>
    BY ImageAssumption
  <1>5. Matches(name) = IF name = << >> THEN {} ELSE called
    <2>1. CASE name = << >>
      <3>1. Char(name, 1) = NUL
        BY <2>1 DEF Char
      <3> QED
        BY <2>1, <3>1 DEF Matches
    <2>2. CASE name # << >> /\ Len(name) > FILENAME_LEN
      <3>1. Matches(name) = {}
        BY <1>3, <2>2 DEF Matches
      <3>2. ASSUME NEW i \in 1 .. entries PROVE CString(d(i)) # name
        <4>1. Len(CString(d(i))) = strlen(d(i)) /\ strlen(d(i)) \in 0 .. FILENAME_LEN
          BY <1>2, CStringIs, StrlenIs
        <4> QED
          BY <4>1, <1>3, <2>2, StringsAssumption
      <3> QED
        BY <2>2, <3>1, <3>2
    <2>3. CASE name # << >> /\ ~(Len(name) > FILENAME_LEN)
      <3>1. Len(name) # 0
        <4> SUFFICES ASSUME Len(name) = 0 PROVE FALSE
          OBVIOUS
        <4>1. name \in Seq({name[i] : i \in 1 .. Len(name)})
          BY <1>3, StringIsSequence
        <4> QED
          BY <2>3, <4>1, EmptySeq
      <3>2. Char(name, 1) # NUL
        BY <1>3, <3>1 DEF Char, IsCString
      <3>3. Matches(name) =
              {i \in 1 .. entries : strncmp(name, d(i), FILENAME_LEN)}
        BY <1>3, <2>3, <3>2 DEF Matches
      <3>4. Len(name) <= FILENAME_LEN
        BY <1>3, <2>3, StringsAssumption
      <3>5. \A i \in 1 .. entries :
              strncmp(name, d(i), FILENAME_LEN) <=> CString(d(i)) = name
        BY <1>2, <3>4, CompareIsEquality
      <3> QED
        BY <2>3, <3>3, <3>5
    <2> QED
      BY <2>1, <2>2, <2>3
  <1>6. ASSUME NEW i \in called
        PROVE  /\ read_dentry_by_name(name) = dir_entries[i]
               /\ dir_entries[i].file_type = "file" =>
                    _sys_open_file(name) = dir_entries[i].inode
    <2>1. i \in 1 .. entries /\ CString(d(i)) = name /\ name # << >>
      BY <1>4, <1>6
    <2>2. Matches(name) = {i}
      <3>1. \A j \in called : j = i
        BY <2>1, ImageAssumption
      <3> QED
        BY <1>5, <1>6, <2>1, <3>1
    <2>3. Matches(Cut(CString(name), FILENAME_LEN)) = {i}
      BY <1>3, <2>2, SecondLookup
    <2> DEFINE only == CHOOSE k \in {i} : \A j \in {i} : k <= j
    <2>4. only = i
      <3>1. \A j \in {i} : i <= j
        BY <1>1, <2>1
      <3> QED
        BY <3>1
    <2>5. read_dentry_by_name(name) = dir_entries[i]
      BY <2>2, <2>4 DEF read_dentry_by_name
    <2>6. _sys_open_file(name) = dir_entries[i].inode
      BY <2>3, <2>4 DEF _sys_open_file, read_dentry_by_name
    <2> QED
      BY <2>5, <2>6
  <1> QED
    BY <1>5, <1>6 DEF FoundRight

\* For every directory with a name of its own for each entry, open and execute
\* find the file with exactly the name they are given, and the second lookup of
\* open finds the same file, up to names that fill their entry.
THEOREM LookupsExact == UserSpec => []LookupExact
  <1>1. ASSUME UserInv PROVE LookupExact
    <2>1. Misfound = {}
      <3> SUFFICES ASSUME NEW name \in Over(ParserChars, FILENAME_LEN + 1)
                   PROVE  FoundRight(name)
        BY DEF Misfound
      <3>1. PICK k \in 0 .. FILENAME_LEN + 1 : name \in [1 .. k -> ParserChars]
        BY DEF Over
      <3>2. k \in Nat
        BY StringsAssumption
      <3>3. IsString(name) /\ Len(name) = k
        BY <3>1, <3>2, Filled
      <3>4. IsCString(name)
        BY <3>1, <3>3, ArgumentsAssumption DEF IsCString
      <3> QED
        BY <3>4, FoundRightAlways
    <2>2. \A t \in Terminals : FoundRight(CString(buf[t]))
      BY <1>1, CStringIsCString, FoundRightAlways DEF UserInv, FilesInv, BuffersInv
    <2> QED
      BY <2>1, <2>2 DEF LookupExact
  <1> QED
    BY <1>1, UserInvariant, PTL

-----------------------------------------------------------------------------
(* The parser against the line as a user reads it                           *)

\* A loop that stops at the indices of H, or behind the end, stops somewhere.
LEMMA LoopStops ==
  ASSUME NEW i \in Nat, NEW n \in Nat, i <= n + 1, NEW H
  PROVE  \E j \in i .. n + 1 : /\ j = n + 1 \/ j \in H
                               /\ \A k \in i .. j - 1 : k \notin H
  <1> DEFINE Ends == {j \in Nat : j \in i .. n + 1 /\ (j = n + 1 \/ j \in H)}
  <1>1. n + 1 \in Ends
    OBVIOUS
  <1>2. PICK j \in Ends : \A k \in Ends : ~(k < j)
    BY <1>1, LeastNumber
  <1>3. \A k \in i .. j - 1 : k \notin H
    BY <1>2
  <1> QED
    BY <1>2, <1>3

\* The loops of the parser, one by one.
LEMMA SkipSpacesIs ==
  ASSUME NEW s, IsString(s), NEW i \in Nat, i <= Len(s) + 1
  PROVE  /\ SkipSpaces(s, i) \in i .. Len(s) + 1
         /\ SkipSpaces(s, i) = Len(s) + 1 \/ Char(s, SkipSpaces(s, i)) # SPACE
         /\ \A k \in i .. SkipSpaces(s, i) - 1 : Char(s, k) = SPACE
  <1> DEFINE n == Len(s)
             H == {k \in Nat : Char(s, k) # SPACE}
             Stop(j) == /\ j = n + 1 \/ Char(s, j) # SPACE
                        /\ \A k \in i .. j - 1 : ~(Char(s, k) # SPACE)
  <1>1. n \in Nat
    BY DEF IsString
  <1>2. SkipSpaces(s, i) = CHOOSE j \in i .. n + 1 : Stop(j)
    BY DEF SkipSpaces, FirstFrom
  <1> HIDE DEF n
  <1>3. \E j \in i .. n + 1 : (j = n + 1 \/ j \in H) /\ \A k \in i .. j - 1 : k \notin H
    BY <1>1, LoopStops DEF n
  <1>4. \E j \in i .. n + 1 : Stop(j)
    BY <1>1, <1>3
  <1> DEFINE e == CHOOSE j \in i .. n + 1 : Stop(j)
  <1> HIDE DEF Stop
  <1>5. e \in i .. n + 1 /\ Stop(e)
    BY <1>4
  <1> HIDE DEF e
  <1>6. SkipSpaces(s, i) = e
    BY <1>2 DEF e
  <1> QED
    BY <1>5, <1>6 DEF Stop, n

LEMMA NameEnds ==
  ASSUME NEW s, IsString(s), NEW i \in Nat, i <= Len(s) + 1
  PROVE  LET e == SkipName(s, i)
         IN  /\ e \in i .. Len(s) + 1
             /\ e = Len(s) + 1 \/ EndsName(Char(s, e))
             /\ \A k \in i .. e - 1 : ~EndsName(Char(s, k))
  <1> DEFINE n == Len(s)
             H == {k \in Nat : EndsName(Char(s, k))}
             Stop(j) == /\ j = n + 1 \/ EndsName(Char(s, j))
                        /\ \A k \in i .. j - 1 : ~EndsName(Char(s, k))
  <1>1. n \in Nat
    BY DEF IsString
  <1>2. SkipName(s, i) = CHOOSE j \in i .. n + 1 : Stop(j)
    BY DEF SkipName, FirstFrom
  <1> HIDE DEF n
  <1>3. \E j \in i .. n + 1 : (j = n + 1 \/ j \in H) /\ \A k \in i .. j - 1 : k \notin H
    BY <1>1, LoopStops DEF n
  <1>4. \E j \in i .. n + 1 : Stop(j)
    BY <1>1, <1>3
  <1> DEFINE e == CHOOSE j \in i .. n + 1 : Stop(j)
  <1> HIDE DEF Stop
  <1>5. e \in i .. n + 1 /\ Stop(e)
    BY <1>4
  <1> HIDE DEF e
  <1>6. SkipName(s, i) = e
    BY <1>2 DEF e
  <1> QED
    BY <1>5, <1>6 DEF Stop, n

\* In a line without NULs the loop over leading NULs makes no step, and the loop
\* over the argument runs to the end.
LEMMA NulLoops ==
  ASSUME NEW s, IsCString(s), NEW i \in Nat, i <= Len(s) + 1, 1 <= i
  PROVE  /\ i <= Len(s) => SkipNuls(s, i) = i
         /\ SkipArgument(s, i) = Len(s) + 1
  <1> DEFINE n == Len(s)
             AnyAt(j) == /\ j = n + 1 \/ Char(s, j) # NUL
                         /\ \A k \in i .. j - 1 : ~(Char(s, k) # NUL)
             NoneAt(j) == /\ j = n + 1 \/ Char(s, j) = NUL
                          /\ \A k \in i .. j - 1 : ~(Char(s, k) = NUL)
  <1>1. n \in Nat /\ DOMAIN s = 1 .. n
    BY StringIsSequence DEF IsCString, IsString
  <1>2. \A k \in 1 .. n : Char(s, k) # NUL
    BY <1>1 DEF IsCString, Char
  <1>3. /\ SkipNuls(s, i) = CHOOSE j \in i .. n + 1 : AnyAt(j)
        /\ SkipArgument(s, i) = CHOOSE j \in i .. n + 1 : NoneAt(j)
    BY DEF SkipNuls, SkipArgument, FirstFrom
  <1> HIDE DEF n
  <1>4. i <= n + 1
    BY DEF n
  <1>5. n + 1 \in i .. n + 1 /\ NoneAt(n + 1)
    BY <1>1, <1>2, <1>4
  <1>6. ASSUME NEW j \in i .. n + 1, NoneAt(j) PROVE j = n + 1
    BY <1>1, <1>2, <1>6
  <1>7. i <= n => i \in i .. n + 1 /\ AnyAt(i)
    BY <1>1, <1>2
  <1>8. ASSUME i <= n, NEW j \in i .. n + 1, AnyAt(j) PROVE j = i
    <2> SUFFICES ASSUME j # i PROVE FALSE
      OBVIOUS
    <2>1. i \in i .. j - 1 /\ i \in 1 .. n
      BY <1>1, <1>8
    <2> QED
      BY <1>2, <1>8, <2>1
  <1> HIDE DEF AnyAt, NoneAt
  <1>9. (CHOOSE j \in i .. n + 1 : NoneAt(j)) = n + 1
    BY <1>5, <1>6
  <1>10. i <= n => (CHOOSE j \in i .. n + 1 : AnyAt(j)) = i
    BY <1>7, <1>8
  <1> QED
    BY <1>3, <1>9, <1>10 DEF n

\* Two neighbouring pieces of a string make up one.
LEMMA Pieces ==
  ASSUME NEW s, IsString(s), NEW m \in Nat, NEW n \in Nat, m <= n, n <= Len(s)
  PROVE  SubSeq(s, 1, m) \o SubSeq(s, m + 1, n) = SubSeq(s, 1, n)
  <1> DEFINE S == {s[i] : i \in 1 .. Len(s)}
             a == SubSeq(s, 1, m)
             b == SubSeq(s, m + 1, n)
             c == SubSeq(s, 1, n)
  <1>1. s \in Seq(S) /\ Len(s) \in Nat /\ DOMAIN s = 1 .. Len(s)
    BY StringIsSequence DEF IsString
  <1> HIDE DEF S
  <1>2. a \in Seq(S) /\ Len(a) = m /\ \A i \in 1 .. m : a[i] = s[i]
    BY <1>1
  <1>3. b \in Seq(S) /\ Len(b) = n - m /\ \A i \in 1 .. n - m : b[i] = s[m + i]
    BY <1>1
  <1>4. c \in Seq(S) /\ Len(c) = n /\ \A i \in 1 .. n : c[i] = s[i]
    BY <1>1
  <1> HIDE DEF a, b, c
  <1>5. a \o b \in Seq(S) /\ Len(a \o b) = n
    <2>1. a \o b \in Seq(S) /\ Len(a \o b) = Len(a) + Len(b)
      <3>1. a \in Seq(S) /\ b \in Seq(S)
        BY <1>2, <1>3
      <3> QED
        BY <3>1, ConcatProperties, Zenon
    <2> QED
      BY <1>2, <1>3, <2>1
  <1>6. \A i \in 1 .. n : (a \o b)[i] = c[i]
    <2>1. a \in Seq(S) /\ b \in Seq(S)
      BY <1>2, <1>3
    <2> DEFINE ab == a \o b
    <2>2. \A i \in 1 .. Len(a) + Len(b) : ab[i] = IF i <= Len(a) THEN a[i] ELSE b[i - Len(a)]
      BY <2>1, ConcatProperties, Zenon
    <2> HIDE DEF ab
    <2>3. \A i \in 1 .. n : ab[i] = IF i <= m THEN a[i] ELSE b[i - m]
      BY <1>2, <1>3, <2>2
    <2>4. ASSUME NEW i \in 1 .. n PROVE ab[i] = c[i]
      <3>1. CASE i <= m
        <4>1. i \in 1 .. m
          BY <3>1
        <4> QED
          BY <1>2, <1>4, <2>3, <3>1, <4>1
      <3>2. CASE i > m
        <4>1. i - m \in 1 .. n - m /\ m + (i - m) = i /\ ~(i <= m)
          BY <3>2
        <4>2. ab[i] = b[i - m] /\ b[i - m] = s[m + (i - m)]
          BY <1>3, <2>3, <4>1
        <4> QED
          BY <1>4, <4>1, <4>2
      <3> QED
        BY <3>1, <3>2
    <2> QED
      BY <2>4 DEF ab
  <1>7. a \o b = c
    BY <1>4, <1>5, <1>6
  <1> QED
    BY <1>7 DEF a, b, c

\* A piece of a string that holds only blanks.
LEMMA BlankPiece ==
  ASSUME NEW s, IsString(s), NEW m \in Nat, NEW n \in Nat, m <= n, n <= Len(s),
         \A k \in m + 1 .. n : Char(s, k) = SPACE
  PROVE  SubSeq(s, m + 1, n) = Blanks(n - m)
  <1> DEFINE S == {s[i] : i \in 1 .. Len(s)}
             b == SubSeq(s, m + 1, n)
             d == n - m
  <1>1. s \in Seq(S) /\ Len(s) \in Nat /\ DOMAIN s = 1 .. Len(s)
    BY StringIsSequence DEF IsString
  <1> HIDE DEF S
  <1>2. b \in Seq(S) /\ Len(b) = d /\ \A i \in 1 .. d : b[i] = s[m + i]
    BY <1>1
  <1> HIDE DEF b
  <1>3. \A i \in 1 .. d : b[i] = SPACE
    <2> TAKE i \in 1 .. d
    <2>1. m + i \in m + 1 .. n /\ m + i \in 1 .. Len(s)
      BY <1>1
    <2>2. Char(s, m + i) = SPACE /\ Char(s, m + i) = s[m + i]
      BY <1>1, <2>1 DEF Char
    <2> QED
      BY <1>2, <2>2
  <1>4. b = [i \in 1 .. d |-> SPACE]
    BY <1>2, <1>3
  <1> QED
    BY <1>4 DEF Blanks, b

\* The parser takes every line apart as its user reads it, for every length of
\* names and lines.
LEMMA ReadsRightAlways ==
  ASSUME NEW line, IsCString(line), line # << >>, Len(line) <= KEYBOARD_BUFFER_SIZE
  PROVE  ReadsRight(line)
  <1> DEFINE n == Len(line)
             first == SkipNuls(line, 1)
             j == SkipSpaces(line, first)
             i == SkipName(line, j)
             a == SkipSpaces(line, i)
             end == SkipArgument(line, a)
             parsed == _execute_parse_args(line)
             piece(l, m) == SubSeq(line, l, m)
  <1>1. n \in Nat /\ IsString(line) /\ DOMAIN line = 1 .. n /\ KEYBOARD_BUFFER_SIZE \in Nat
    BY StringIsSequence, ArgumentsAssumption DEF IsCString, IsString
  <1>2. line \in Seq({line[k] : k \in 1 .. n})
    BY <1>1, StringIsSequence
  <1>3. n >= 1
    <2>1. n # 0
      <3> SUFFICES ASSUME n = 0 PROVE FALSE
        OBVIOUS
      <3> QED
        BY <1>2, EmptySeq
    <2> QED
      BY <1>1, <2>1
  <1>4. first = 1
    BY <1>1, <1>3, NulLoops
  <1>5. parsed = IF first > KEYBOARD_BUFFER_SIZE \/ Char(line, j) \in {NUL, NEWLINE}
                   THEN NoName
                   ELSE [ret       |-> IF Char(line, a) = NUL THEN -2 ELSE 0,
                         prog_name |-> Cut(piece(j, i - 1), FILENAME_LEN),
                         arg       |-> piece(a, end - 1)]
    BY DEF _execute_parse_args
  <1>6. \A k \in 1 .. n : Char(line, k) = line[k] /\ Char(line, k) # NUL
    BY <1>1 DEF Char, IsCString
  <1>7. \A k \in Nat : k > n => Char(line, k) = NUL
    BY <1>1 DEF Char
  <1> HIDE DEF first
  <1>8. /\ j \in 1 .. n + 1 /\ (j = n + 1 \/ Char(line, j) # SPACE)
        /\ \A k \in 1 .. j - 1 : Char(line, k) = SPACE
    BY <1>1, <1>3, <1>4, SkipSpacesIs
  <1> HIDE DEF j
  <1>9. /\ i \in j .. n + 1 /\ (i = n + 1 \/ EndsName(Char(line, i)))
        /\ \A k \in j .. i - 1 : ~EndsName(Char(line, k))
    <2>1. j \in Nat /\ j <= Len(line) + 1
      BY <1>1, <1>8
    <2> QED
      BY <1>1, <2>1, NameEnds
  <1> HIDE DEF i
  <1>10. /\ a \in i .. n + 1 /\ (a = n + 1 \/ Char(line, a) # SPACE)
         /\ \A k \in i .. a - 1 : Char(line, k) = SPACE
    <2>1. i \in Nat /\ i <= Len(line) + 1
      BY <1>1, <1>8, <1>9
    <2> QED
      BY <1>1, <2>1, SkipSpacesIs
  <1> HIDE DEF a
  <1>11. end = n + 1
    <2>1. a \in Nat /\ a <= Len(line) + 1 /\ 1 <= a
      BY <1>1, <1>8, <1>9, <1>10
    <2> QED
      BY <2>1, NulLoops
  <1> HIDE DEF n, end, parsed
  <1>12. n <= KEYBOARD_BUFFER_SIZE
    BY DEF n
  <1>13. ~(first > KEYBOARD_BUFFER_SIZE)
    BY <1>1, <1>3, <1>4, <1>12
  <1>14. piece(1, n) = line
    BY <1>1, <1>2 DEF n
  <1>15. piece(1, j - 1) = Blanks(j - 1)
    <2>1. 0 \in Nat /\ j - 1 \in Nat /\ 0 <= j - 1 /\ j - 1 <= Len(line)
      BY <1>1, <1>8 DEF n
    <2>2. \A k \in 0 + 1 .. j - 1 : Char(line, k) = SPACE
      BY <1>8
    <2>3. SubSeq(line, 0 + 1, j - 1) = Blanks((j - 1) - 0)
      BY <1>1, <2>1, <2>2, BlankPiece
    <2>4. 0 + 1 = 1 /\ (j - 1) - 0 = j - 1
      BY <2>1
    <2> QED
      BY <2>3, <2>4
  <1> DEFINE Reads(before, size, gap) ==
        LET word == SubSeq(line, before + 1, before + size)
            rest == SubSeq(line, before + size + gap + 1, Len(line))
        IN  /\ before + size + gap <= Len(line)
            /\ Splits(line, before, word, gap, rest)
            /\ IF word = << >>
                 THEN parsed.ret = -1
                 ELSE /\ parsed.ret = IF rest = << >> THEN -2 ELSE 0
                      /\ parsed.prog_name = Cut(word, FILENAME_LEN)
                      /\ parsed.arg = rest
                      /\ Len(parsed.arg) < KEYBOARD_BUFFER_SIZE
  <1>16. SUFFICES \E before, size, gap \in 0 .. n : Reads(before, size, gap)
    BY DEF ReadsRight, parsed, n
  <1>17. CASE Char(line, j) \in {NUL, NEWLINE}
    <2> DEFINE rest == piece(j, n)
    <2>1. parsed = NoName
      BY <1>5, <1>17
    <2>2. piece(j, j - 1) = << >>
      BY <1>1, <1>2, <1>8 DEF n
    <2>3. Blanks(0) = << >>
      BY DEF Blanks
    <2>4. line = Blanks(j - 1) \o << >> \o << >> \o rest
      <3>1. j - 1 \in Nat /\ n \in Nat /\ j - 1 <= n /\ n <= Len(line) /\ (j - 1) + 1 = j
        BY <1>1, <1>8 DEF n
      <3>2. piece(1, j - 1) \o rest = line
        <4> DEFINE m == j - 1
        <4>1. IsString(line) /\ m \in Nat /\ n \in Nat /\ m <= n /\ n <= Len(line)
          BY <1>1, <3>1
        <4>2. m + 1 = j
          BY <3>1
        <4> HIDE DEF m
        <4>3. piece(1, m) \o piece(m + 1, n) = piece(1, n)
          BY <4>1, Pieces, Zenon
        <4> QED
          BY <1>14, <4>2, <4>3, Zenon DEF m
      <3>3. piece(1, j - 1) \in Seq({line[k] : k \in 1 .. Len(line)})
        BY <1>1, <1>2, <3>1 DEF n
      <3>4. piece(1, j - 1) \o << >> = piece(1, j - 1)
        BY <3>3
      <3> QED
        BY <1>15, <3>2, <3>4
    <2>5. rest # << >> => rest[1] # SPACE
      <3> SUFFICES ASSUME rest # << >> PROVE rest[1] # SPACE
        OBVIOUS
      <3>1. CASE j = n + 1
        <4>1. piece(n + 1, n) = << >>
          BY <1>1, <1>2 DEF n
        <4> QED
          BY <3>1, <4>1
      <3>2. CASE j # n + 1
        <4>1. j \in 1 .. n
          BY <1>1, <1>8, <3>2
        <4>2. rest[1] = line[j]
          BY <1>1, <1>2, <4>1 DEF n
        <4> QED
          BY <1>6, <1>8, <3>2, <4>1, <4>2
      <3> QED
        BY <3>1, <3>2
    <2>6. Splits(line, j - 1, << >>, 0, rest)
      <3>1. \A k \in DOMAIN << >> : (<< >>)[k] \notin {SPACE, NEWLINE}
        <4>1. DOMAIN << >> = {}
          OBVIOUS
        <4> QED
          BY <4>1
      <3> HIDE DEF rest
      <3> QED
        BY <2>3, <2>4, <2>5, <3>1 DEF Splits
    <2>7. /\ j - 1 \in 0 .. n /\ 0 \in 0 .. n /\ (j - 1) + 1 = j /\ (j - 1) + 0 = j - 1
          /\ (j - 1) + 0 + 0 + 1 = j /\ (j - 1) + 0 + 0 <= n
      BY <1>1, <1>8
    <2>8. parsed.ret = -1
      BY <2>1 DEF NoName
    <2>9. Reads(j - 1, 0, 0)
      BY <2>2, <2>6, <2>7, <2>8 DEF n
    <2> QED
      BY <2>7, <2>9
  <1>18. CASE Char(line, j) \notin {NUL, NEWLINE}
    <2> DEFINE word == piece(j, i - 1)
               rest == piece(a, n)
    <2>1. parsed = [ret       |-> IF Char(line, a) = NUL THEN -2 ELSE 0,
                    prog_name |-> Cut(word, FILENAME_LEN), arg |-> rest]
      <3>1. end - 1 = n
        BY <1>1, <1>11
      <3> QED
        BY <1>5, <1>13, <1>18, <3>1
    <2>2. j \in 1 .. n
      BY <1>1, <1>7, <1>8, <1>18
    <2>3. i > j
      <3>1. ~EndsName(Char(line, j))
        BY <1>8, <1>18, <2>2, <1>1 DEF EndsName
      <3> QED
        BY <1>1, <1>9, <2>2, <3>1
    <2>4. /\ i \in Nat /\ a \in Nat /\ i >= 2 /\ a >= 2 /\ i <= a /\ a <= n + 1
          /\ j - 1 \in Nat /\ i - 1 \in Nat /\ a - 1 \in Nat /\ j - 1 <= i - 1 /\ i - 1 <= a - 1
          /\ a - 1 <= n /\ i - 1 <= n
          /\ (j - 1) + 1 = j /\ (i - 1) + 1 = i /\ (a - 1) + 1 = a
      BY <1>1, <1>9, <1>10, <2>2, <2>3
    <2>5. word \in Seq({line[k] : k \in 1 .. Len(line)}) /\ Len(word) = i - j
            /\ \A k \in 1 .. i - j : word[k] = line[j + k - 1]
      BY <1>1, <1>2, <2>2, <2>3, <2>4 DEF n
    <2>6. rest \in Seq({line[k] : k \in 1 .. Len(line)}) /\ Len(rest) = n - a + 1
            /\ \A k \in 1 .. n - a + 1 : rest[k] = line[a + k - 1]
      BY <1>1, <1>2, <2>4, SMTT(20) DEF n
    <2>7. piece(i, a - 1) = Blanks(a - i)
      <3>1. (a - 1) - (i - 1) = a - i
        BY <2>4
      <3>2. \A k \in (i - 1) + 1 .. a - 1 : Char(line, k) = SPACE
        BY <1>10, <2>4
      <3>3. SubSeq(line, (i - 1) + 1, a - 1) = Blanks((a - 1) - (i - 1))
        BY <1>1, <2>4, <3>2, BlankPiece DEF n
      <3> QED
        BY <2>4, <3>1, <3>3
    <2>8. line = Blanks(j - 1) \o word \o Blanks(a - i) \o rest
      <3>0. ASSUME NEW l \in Nat, NEW m \in Nat, l <= m, m <= n
            PROVE  piece(1, l) \o piece(l + 1, m) = piece(1, m)
        <4>1. m <= Len(line)
          BY <3>0 DEF n
        <4> QED
          BY <1>1, <3>0, <4>1, Pieces
      <3>a. n \in Nat /\ n <= n
        BY <1>1
      <3> HIDE DEF piece
      <3>1. piece(1, j - 1) \o word = piece(1, i - 1)
        <4>1. piece(1, j - 1) \o piece((j - 1) + 1, i - 1) = piece(1, i - 1)
          BY <2>4, <3>0
        <4> QED
          BY <2>4, <4>1
      <3>2. piece(1, i - 1) \o piece(i, a - 1) = piece(1, a - 1)
        <4>1. piece(1, i - 1) \o piece((i - 1) + 1, a - 1) = piece(1, a - 1)
          BY <2>4, <3>0
        <4> QED
          BY <2>4, <4>1
      <3>3. piece(1, a - 1) \o rest = piece(1, n)
        <4>1. piece(1, a - 1) \o piece((a - 1) + 1, n) = piece(1, n)
          BY <2>4, <3>0, <3>a
        <4> QED
          BY <2>4, <4>1
      <3> HIDE DEF word, rest
      <3> QED
        BY <1>14, <1>15, <2>7, <3>1, <3>2, <3>3
    <2> HIDE DEF word, rest
    <2>9. \A k \in DOMAIN word : word[k] \notin {SPACE, NEWLINE}
      <3>1. DOMAIN word = 1 .. i - j
        BY <2>5
      <3> SUFFICES ASSUME NEW k \in 1 .. i - j PROVE word[k] \notin {SPACE, NEWLINE}
        BY <3>1
      <3>2. j + k - 1 \in j .. i - 1 /\ j + k - 1 \in 1 .. n
        BY <1>1, <2>2, <2>3, <2>4
      <3> DEFINE q == j + k - 1
      <3>a. word[k] = line[q]
        BY <2>5
      <3>b. q \in j .. i - 1 /\ q \in 1 .. n
        BY <3>2
      <3> HIDE DEF q
      <3>3. ~EndsName(Char(line, q)) /\ Char(line, q) = word[k]
        BY <1>6, <1>9, <3>a, <3>b
      <3> QED
        BY <3>3 DEF EndsName
    <2>10. rest = << >> <=> a = n + 1
      BY <1>1, <2>4, <2>6, EmptySeq
    <2>11. rest # << >> => a \in 1 .. n /\ rest[1] = line[a] /\ rest[1] # SPACE
      <3> SUFFICES ASSUME rest # << >> PROVE a \in 1 .. n /\ rest[1] = line[a] /\ rest[1] # SPACE
        OBVIOUS
      <3>1. a \in 1 .. n /\ a # n + 1
        BY <1>1, <2>4, <2>10
      <3>2. 1 \in 1 .. n - a + 1 /\ a + 1 - 1 = a
        BY <1>1, <3>1
      <3>3. rest[1] = line[a]
        BY <2>6, <3>2
      <3> QED
        BY <1>6, <1>10, <3>1, <3>3
    <2>12. a - i = 0 /\ rest # << >> => rest[1] = NEWLINE
      <3> SUFFICES ASSUME a - i = 0, rest # << >> PROVE rest[1] = NEWLINE
        OBVIOUS
      <3>1. a = i /\ i \in 1 .. n /\ i # n + 1
        BY <1>1, <2>4, <2>11
      <3>2. EndsName(Char(line, i)) /\ Char(line, i) # NUL /\ Char(line, i) = rest[1]
        BY <1>6, <1>9, <2>11, <3>1
      <3> QED
        BY <2>11, <3>2 DEF EndsName
    <2>13. Splits(line, j - 1, word, a - i, rest)
      BY <2>8, <2>9, <2>11, <2>12 DEF Splits
    <2>14. word # << >>
      BY <2>3, <2>4, <2>2, <2>5, EmptySeq
    <2>15. Char(line, a) = NUL <=> rest = << >>
      BY <1>1, <1>6, <1>7, <2>4, <2>10
    <2>16. Len(rest) < KEYBOARD_BUFFER_SIZE
      BY <1>1, <1>12, <2>4, <2>6
    <2>17. /\ j - 1 \in 0 .. n /\ i - j \in 0 .. n /\ a - i \in 0 .. n
           /\ (j - 1) + 1 = j /\ (j - 1) + (i - j) = i - 1
           /\ (j - 1) + (i - j) + (a - i) + 1 = a /\ (j - 1) + (i - j) + (a - i) <= n
      BY <1>1, <2>2, <2>3, <2>4
    <2>18. Reads(j - 1, i - j, a - i)
      <3>1. SubSeq(line, (j - 1) + 1, (j - 1) + (i - j)) = word
        BY <2>17 DEF word
      <3>2. SubSeq(line, (j - 1) + (i - j) + (a - i) + 1, Len(line)) = rest
        BY <2>17 DEF rest, n
      <3>3. /\ parsed.ret = IF rest = << >> THEN -2 ELSE 0
            /\ parsed.prog_name = Cut(word, FILENAME_LEN) /\ parsed.arg = rest
        BY <2>1, <2>15
      <3> QED
        BY <2>13, <2>14, <2>16, <2>17, <3>1, <3>2, <3>3 DEF n
    <2> QED
      BY <2>17, <2>18
  <1> QED
    BY <1>17, <1>18

-----------------------------------------------------------------------------
(* The lines shells execute                                                 *)

\* A shell about to execute holds a line its user typed.
ExecutesInv ==
  \A t \in Terminals : At(t, "shell", "execute") => buf[t] \in Lines[t] \ {<< >>}

\* What a step of terminal t's program other than the shell's read does to this:
\* it changes no other buffer and no other program, and leads to no execute.
BufferOwn(t) == \A u \in Terminals \ {t} : buf'[u] = buf[u]
ProgramOwn(t) ==
  /\ \A u \in Terminals \ {t} : proc'[u] = proc[u]
  /\ proc'[t].pc # "execute" \/ proc'[t].program # "shell"

LEMMA BufferOwned ==
  ASSUME BuffersInv, NEW t \in Terminals,
         buf' = buf \/ \E v : buf' = [buf EXCEPT ![t] = v]
  PROVE  BufferOwn(t)
  <1> QED
    BY DEF BuffersInv, BufferOwn

LEMMA ProgramOwned ==
  ASSUME ProcessesInv, NEW t \in Terminals, NEW r, r.pc # "execute",
         proc' = [proc EXCEPT ![t] = r]
  PROVE  ProgramOwn(t)
  <1> QED
    BY DEF ProcessesInv, ProgramOwn

LEMMA ProcessMoved ==
  ASSUME NEW r, IsProcess(r), NEW pc, NEW fd, NEW searched, NEW fail
  PROVE  /\ [r EXCEPT !.pc = pc].pc = pc
         /\ [r EXCEPT !.fd = fd, !.pc = pc].pc = pc
         /\ [r EXCEPT !.file = fd, !.searched = searched, !.pc = pc].pc = pc
         /\ [r EXCEPT !.calls = fd, !.cnt = searched, !.fail = fail, !.pc = pc].pc = pc
  <1>1. PICK S : r \in ProcessRecords(S)
    BY DEF IsProcess
  <1> QED
    BY <1>1 DEF ProcessRecords

LEMMA GotoOwned ==
  ASSUME ProcessesInv, NEW t \in Terminals, NEW pc, pc # "execute", Goto(t, pc)
  PROVE  ProgramOwn(t)
  <1> DEFINE r == [proc[t] EXCEPT !.pc = pc]
  <1>1. r.pc = pc
    BY ProcessMoved DEF ProcessesInv
  <1>2. proc' = [proc EXCEPT ![t] = r]
    BY DEF Goto
  <1> HIDE DEF r
  <1> QED
    BY <1>1, <1>2, ProgramOwned

LEMMA OpenAndGotoOwned ==
  ASSUME ProcessesInv, NEW t \in Terminals, NEW fd, NEW pc, pc # "execute",
         proc' = [proc EXCEPT ![t].fd = fd, ![t].pc = pc]
  PROVE  ProgramOwn(t)
  <1> DEFINE r == [proc[t] EXCEPT !.fd = fd, !.pc = pc]
  <1>1. r.pc = pc
    BY ProcessMoved DEF ProcessesInv
  <1>2. proc' = [proc EXCEPT ![t] = r]
    BY DEF ProcessesInv
  <1> HIDE DEF r
  <1> QED
    BY <1>1, <1>2, ProgramOwned

LEMMA CallOwned ==
  ASSUME BuffersInv, NEW t \in Terminals, NEW name, NEW fd, NEW n, NEW data,
         sys_open(t, name) \/ sys_close(t, fd) \/ sys_read(t, fd, n) \/ sys_write(t, fd, data)
           \/ sys_getargs(t)
  PROVE  BufferOwn(t)
  <1>1. CASE sys_open(t, name)
    BY <1>1, BufferOwned DEF sys_open, OpenFails, OpenSucceeds
  <1>2. CASE sys_close(t, fd)
    BY <1>2, BufferOwned DEF sys_close, BadDescriptor
  <1>3. CASE sys_read(t, fd, n)
    <2>1. CASE ReadFile(t, fd, n)
      BY <2>1, BufferOwned DEF ReadFile
    <2>2. CASE ReadDirectory(t, fd, n)
      BY <2>2, BufferOwned DEF ReadDirectory
    <2>3. CASE ReadRtc(t, fd, n) \/ ReadFails(t, fd, n)
      BY <2>3, BufferOwned DEF ReadRtc, ReadFails, BadDescriptor
    <2> QED
      BY <1>3, <2>1, <2>2, <2>3 DEF sys_read
  <1>4. CASE sys_write(t, fd, data)
    BY <1>4, BufferOwned DEF sys_write, WriteTerminal, WriteFails, BadDescriptor
  <1>5. CASE sys_getargs(t)
    BY <1>5, BufferOwned DEF sys_getargs
  <1> QED
    BY <1>1, <1>2, <1>3, <1>4, <1>5

LEMMA ShellOwned ==
  ASSUME BuffersInv, ProcessesInv, NEW t \in Terminals,
         ShellExecutes(t) \/ ShellReplies(t) \/ sys_halt(t)
  PROVE  BufferOwn(t) /\ ProgramOwn(t)
  <1>1. \A program : Start(program).pc # "execute"
    BY DEF Start, Process
  <1>2. Process("shell", "reply").pc # "execute"
    BY DEF Process
  <1>3. CASE ShellExecutes(t)
    <2>1. CASE ExecuteFails(t)
      <3>1. UNCHANGED buf /\ Goto(t, "reply")
        BY <2>1 DEF ExecuteFails
      <3> QED
        BY <3>1, BufferOwned, GotoOwned
    <2>2. CASE ExecuteStarts(t)
      <3>1. /\ \E program : proc' = [proc EXCEPT ![t] = Start(program)]
            /\ buf' = [buf EXCEPT ![t] = << >>]
        BY <2>2 DEF ExecuteStarts
      <3> QED
        BY <1>1, <3>1, BufferOwned, ProgramOwned
    <2> QED
      BY <1>3, <2>1, <2>2 DEF ShellExecutes
  <1>4. CASE ShellReplies(t)
    <2>1. buf' = [buf EXCEPT ![t] = << >>] /\ Goto(t, "prompt")
      BY <1>4 DEF ShellReplies
    <2> QED
      BY <2>1, BufferOwned, GotoOwned
  <1>5. CASE sys_halt(t)
    <2>1. /\ buf' = [buf EXCEPT ![t] = << >>]
          /\ \/ proc' = [proc EXCEPT ![t] = Start("shell")]
             \/ proc' = [proc EXCEPT ![t] = Process("shell", "reply")]
      BY <1>5 DEF sys_halt
    <2> QED
      BY <1>1, <1>2, <2>1, BufferOwned, ProgramOwned
  <1> QED
    BY <1>3, <1>4, <1>5

LEMMA CatLsOwned ==
  ASSUME BuffersInv, ProcessesInv, NEW t \in Terminals,
         Complain(t) \/ cat(t) \/ ls(t) \/ OpenDirectory(t, "grep", "open")
           \/ NextEntry(t, "grep", "file")
  PROVE  BufferOwn(t) /\ ProgramOwn(t)
  <1>1. CASE Complain(t)
    <2>1. sys_write(t, 1, <<"message">>) /\ Goto(t, "return 3")
      BY <1>1 DEF Complain
    <2> QED
      BY <2>1, CallOwned, GotoOwned
  <1>2. CASE CatArgs(t)
    <2>1. sys_getargs(t) /\ \E pc : pc # "execute" /\ Goto(t, pc)
      BY <1>2 DEF CatArgs
    <2> QED
      BY <2>1, CallOwned, GotoOwned
  <1>3. CASE CatOpen(t)
    <2> DEFINE fd == ret'[t]
               pc == IF ret'[t] = -1 THEN "complain" ELSE "read"
    <2>1. sys_open(t, buf[t]) /\ proc' = [proc EXCEPT ![t].fd = fd, ![t].pc = pc]
      BY <1>3 DEF CatOpen
    <2>2. pc # "execute"
      OBVIOUS
    <2> HIDE DEF fd, pc
    <2> QED
      BY <2>1, <2>2, CallOwned, OpenAndGotoOwned
  <1>4. CASE CatRead(t)
    <2> DEFINE pc == CASE ret'[t] = 0 -> "return 0" [] ret'[t] = -1 -> "complain"
                       [] OTHER -> "write"
    <2>0. pc # "execute"
      <3>1. pc \in {"return 0", "complain", "write"}
        OBVIOUS
      <3> HIDE DEF pc
      <3> QED
        BY <1>4, <3>1
    <2>1. sys_read(t, proc[t].fd, BUFSIZE) /\ Goto(t, pc)
      BY <1>4 DEF CatRead
    <2> HIDE DEF pc
    <2> QED
      BY <2>0, <2>1, CallOwned, GotoOwned
  <1>5. CASE CatWrite(t)
    <2>1. sys_write(t, 1, buf[t]) /\ \E pc : pc # "execute" /\ Goto(t, pc)
      BY <1>5 DEF CatWrite
    <2> QED
      BY <2>1, CallOwned, GotoOwned
  <1>6. ASSUME NEW program, NEW at, OpenDirectory(t, program, at)
        PROVE  BufferOwn(t) /\ ProgramOwn(t)
    <2> DEFINE fd == ret'[t]
               pc == IF ret'[t] = -1 THEN "complain" ELSE "next"
    <2>1. sys_open(t, <<".">>) /\ proc' = [proc EXCEPT ![t].fd = fd, ![t].pc = pc]
      BY <1>6 DEF OpenDirectory
    <2>2. pc # "execute"
      OBVIOUS
    <2> HIDE DEF fd, pc
    <2> QED
      BY <2>1, <2>2, CallOwned, OpenAndGotoOwned
  <1>7. ASSUME NEW program, NEW found, found # "execute", NextEntry(t, program, found)
        PROVE  BufferOwn(t) /\ ProgramOwn(t)
    <2> DEFINE pc == CASE ret'[t] = 0 -> "return 0" [] ret'[t] = -1 -> "complain"
                       [] OTHER -> found
    <2>0. pc # "execute"
      <3>1. pc \in {"return 0", "complain", found}
        OBVIOUS
      <3> HIDE DEF pc
      <3> QED
        BY <1>7, <3>1
    <2>1. sys_read(t, proc[t].fd, FILENAME_LEN) /\ Goto(t, pc)
      BY <1>7 DEF NextEntry
    <2> HIDE DEF pc
    <2> QED
      BY <2>0, <2>1, CallOwned, GotoOwned
  <1>8. CASE LsWrite(t)
    <2>1. /\ sys_write(t, 1, SubSeq(buf[t], 1, ret[t]) \o <<NEWLINE>>)
          /\ \E pc : pc # "execute" /\ Goto(t, pc)
      BY <1>8 DEF LsWrite
    <2> QED
      BY <2>1, CallOwned, GotoOwned
  <1>9. "write" # "execute" /\ "file" # "execute"
    OBVIOUS
  <1> QED
    BY <1>1, <1>2, <1>3, <1>4, <1>5, <1>6, <1>7, <1>8, <1>9 DEF cat, ls

LEMMA GrepOwned ==
  ASSUME BuffersInv, ProcessesInv, NEW t \in Terminals,
         GrepArgs(t) \/ GrepOpenFile(t) \/ GrepReadFile(t) \/ GrepCloseFile(t)
  PROVE  BufferOwn(t) /\ ProgramOwn(t)
  <1>1. CASE GrepArgs(t)
    <2>1. sys_getargs(t) /\ \E pc : pc # "execute" /\ Goto(t, pc)
      BY <1>1 DEF GrepArgs
    <2> QED
      BY <2>1, CallOwned, GotoOwned
  <1>2. CASE GrepOpenFile(t)
    <2>1. CASE buf[t][1] = "."
      <3>1. UNCHANGED buf /\ Goto(t, "next")
        BY <1>2, <2>1 DEF GrepOpenFile, fvars
      <3> QED
        BY <3>1, BufferOwned, GotoOwned
    <2>2. CASE buf[t][1] # "."
      <3> DEFINE file == ret'[t]
                 searched == Append(proc[t].searched, CString(buf[t]))
                 pc == IF ret'[t] = -1 THEN "complain" ELSE "search"
                 r == [proc[t] EXCEPT !.file = file, !.searched = searched, !.pc = pc]
      <3>1. sys_open(t, buf[t] \o <<NUL>>)
        BY <1>2, <2>2 DEF GrepOpenFile
      <3>2. proc' = [proc EXCEPT ![t] = r]
        BY <1>2, <2>2 DEF GrepOpenFile, ProcessesInv
      <3>3. pc # "execute"
        OBVIOUS
      <3> HIDE DEF file, searched, pc
      <3>4. r.pc = pc
        BY ProcessMoved DEF ProcessesInv
      <3> HIDE DEF r
      <3> QED
        BY <3>1, <3>2, <3>3, <3>4, CallOwned, ProgramOwned
    <2> QED
      BY <2>1, <2>2
  <1>3. CASE GrepReadFile(t)
    <2> DEFINE pc == CASE ret'[t] = 0 -> "close" [] ret'[t] = -1 -> "complain"
                       [] OTHER -> "search"
    <2>1. pc # "execute"
      <3>1. pc \in {"close", "complain", "search"}
        OBVIOUS
      <3> HIDE DEF pc
      <3> QED
        BY <3>1
    <2>2. sys_read(t, proc[t].file, BUFSIZE) /\ Goto(t, pc)
      BY <1>3 DEF GrepReadFile
    <2> HIDE DEF pc
    <2> QED
      BY <2>1, <2>2, CallOwned, GotoOwned
  <1>4. CASE GrepCloseFile(t)
    <2>1. sys_close(t, proc[t].file) /\ \E pc : pc # "execute" /\ Goto(t, pc)
      BY <1>4 DEF GrepCloseFile
    <2> QED
      BY <2>1, CallOwned, GotoOwned
  <1> QED
    BY <1>1, <1>2, <1>3, <1>4

LEMMA SysErrOwned ==
  ASSUME BuffersInv, ProcessesInv, NEW t \in Terminals, SysErrCall(t)
  PROVE  BufferOwn(t) /\ ProgramOwn(t)
  <1> DEFINE i == proc[t].calls + 1
             c == SysErrCalls[i]
             cnt == IF InOpenLots(i) /\ c.call = "open" /\ ret'[t] = -1
                      THEN proc[t].cnt + 1 ELSE proc[t].cnt
             fail == proc[t].fail \/ (~InOpenLots(i) /\ ret'[t] # -1)
             pc == IF i = Len(SysErrCalls) THEN "return 0" ELSE proc[t].pc
             r == [proc[t] EXCEPT !.calls = i, !.cnt = cnt, !.fail = fail, !.pc = pc]
  <1>1. i \in 1 .. Len(SysErrCalls) /\ proc[t].pc = "start"
    <2>1. proc[t].calls \in Nat
      BY ProcessCounts DEF ProcessesInv
    <2>2. Len(SysErrCalls) \in Nat
      BY SysErrCallsType, LenProperties
    <2>3. i <= Len(SysErrCalls) /\ proc[t].pc = "start"
      BY DEF SysErrCall, At
    <2> QED
      BY <2>1, <2>2, <2>3
  <1>2. c.call \in {"open", "close", "read", "write"}
    <2> HIDE DEF i
    <2>1. SysErrCalls \in [1 .. Len(SysErrCalls) -> Calls]
      BY SysErrCallsType, LenProperties
    <2>2. c \in Calls
      BY <1>1, <2>1
    <2> QED
      BY <2>2 DEF Calls
  <1>3. \/ sys_open(t, c.name) \/ sys_close(t, c.fd)
        \/ sys_read(t, c.fd, FILENAME_LEN - 1) \/ sys_write(t, c.fd, <<NUL>>)
    BY <1>2 DEF SysErrCall
  <1>4. proc' = [proc EXCEPT ![t] = r]
    BY DEF SysErrCall, ProcessesInv
  <1>5. pc # "execute"
    BY <1>1
  <1> HIDE DEF i, c, cnt, fail, pc
  <1>6. r.pc = pc
    BY ProcessMoved DEF ProcessesInv
  <1> HIDE DEF r
  <1>7. BufferOwn(t)
    BY <1>3, CallOwned
  <1> QED
    BY <1>4, <1>5, <1>6, <1>7, ProgramOwned

LEMMA AnyCallOwned ==
  ASSUME BuffersInv, ProcessesInv, NEW t \in Terminals, AnyCall(t)
  PROVE  BufferOwn(t) /\ ProgramOwn(t)
  <1>1. CASE FilesCall(t) /\ UNCHANGED proc
    <2>1. BufferOwn(t)
      BY <1>1, CallOwned DEF FilesCall
    <2>2. proc'[t].program = "any" /\ proc' = proc
      BY <1>1 DEF AnyCall, At
    <2> QED
      BY <2>1, <2>2 DEF ProgramOwn
  <1>2. CASE Goto(t, "return 0") /\ UNCHANGED fvars
    <2>1. UNCHANGED buf
      BY <1>2 DEF fvars
    <2> QED
      BY <1>2, <2>1, BufferOwned, GotoOwned
  <1> QED
    BY <1>1, <1>2 DEF AnyCall

LEMMA ExecutesInvStep == UserInv /\ ExecutesInv /\ [UserNext]_uvars => ExecutesInv'
  <1> SUFFICES ASSUME UserInv, ExecutesInv, [UserNext]_uvars PROVE ExecutesInv'
    OBVIOUS
  <1>1. BuffersInv /\ ProcessesInv
    BY DEF UserInv, FilesInv
  <1>2. ASSUME NEW t \in Terminals, BufferOwn(t), ProgramOwn(t) PROVE ExecutesInv'
    BY <1>2 DEF ExecutesInv, BufferOwn, ProgramOwn, At
  <1>3. ASSUME NEW t \in Terminals, NEW line \in Lines[t], ShellReads(t, line)
        PROVE  ExecutesInv'
    <2> DEFINE pc == CASE line = Exit -> "return 0" [] line = << >> -> "prompt"
                       [] OTHER -> "execute"
               r == [proc[t] EXCEPT !.pc = pc]
    <2>1. buf' = [buf EXCEPT ![t] = line] /\ proc' = [proc EXCEPT ![t] = r]
      BY <1>3 DEF ShellReads, Goto
    <2>2. r.pc = pc
      <3> HIDE DEF pc
      <3> QED
        BY <1>1, ProcessMoved DEF ProcessesInv
    <2>3. pc = "execute" => line # << >>
      <3>1. Exit # << >>
        BY DEF Exit
      <3>2. line = << >> => pc = "prompt"
        BY <3>1
      <3> HIDE DEF pc
      <3> QED
        BY <3>2
    <2> HIDE DEF pc, r
    <2>4. /\ buf'[t] = line /\ proc'[t] = r
          /\ \A u \in Terminals \ {t} : buf'[u] = buf[u] /\ proc'[u] = proc[u]
      BY <1>1, <2>1 DEF BuffersInv, ProcessesInv
    <2> QED
      BY <1>3, <2>2, <2>3, <2>4 DEF ExecutesInv, At
  <1>4. CASE UserNext
    <2>1. PICK t \in Terminals :
            Running(t) \/ AnyCall(t) \/ \E line \in Lines[t] : ShellReads(t, line)
      BY <1>4 DEF UserNext
    <2>2. CASE Running(t)
      BY <1>1, <1>2, <2>2, ShellOwned, CatLsOwned, GrepOwned, SysErrOwned DEF Running, grep
    <2> QED
      BY <1>1, <1>2, <1>3, <2>1, <2>2, AnyCallOwned
  <1>5. CASE UNCHANGED uvars
    <2>1. UNCHANGED <<buf, proc>>
      BY <1>5 DEF uvars, fvars
    <2> QED
      BY <2>1 DEF ExecutesInv, At
  <1> QED
    BY <1>4, <1>5

\* Every line a shell executes, and every line over ParserChars that fits the
\* line buffer, is parsed into the word and the rest its user reads in it: the
\* name cut to FILENAME_LEN, the argument ended by a NUL within its array.
THEOREM LinesSplit == UserSpec => []ParserSplitsLine
  <1>1. Misread = {}
    <2> SUFFICES ASSUME NEW line \in Over(ParserChars, KEYBOARD_BUFFER_SIZE - 1), line # << >>
                 PROVE  ReadsRight(line)
      BY DEF Misread
    <2>1. PICK k \in 0 .. KEYBOARD_BUFFER_SIZE - 1 : line \in [1 .. k -> ParserChars]
      BY DEF Over
    <2>2. k \in Nat /\ k <= KEYBOARD_BUFFER_SIZE
      BY ArgumentsAssumption
    <2>3. IsString(line) /\ Len(line) = k
      BY <2>1, <2>2, Filled
    <2>4. IsCString(line)
      BY <2>1, <2>3, ArgumentsAssumption DEF IsCString
    <2> QED
      BY <2>2, <2>3, <2>4, ReadsRightAlways
  <1>2. ASSUME ExecutesInv PROVE ParserSplitsLine
    <2> SUFFICES ASSUME NEW t \in Terminals, At(t, "shell", "execute")
                 PROVE  ReadsRight(buf[t])
      BY <1>1 DEF ParserSplitsLine
    <2>1. buf[t] \in Lines[t] /\ buf[t] # << >>
      BY <1>2 DEF ExecutesInv
    <2>2. IsCString(buf[t]) /\ Len(buf[t]) <= KEYBOARD_BUFFER_SIZE
      BY <2>1, UserProgramsAssumption, SequenceIsString DEF IsCString
    <2> QED
      BY <2>1, <2>2, ReadsRightAlways
  <1>3. UserInit => ExecutesInv
    <2>1. UserInit => \A t \in Terminals : proc[t].pc = "prompt"
      BY DEF UserInit, Start, Process
    <2> QED
      BY <2>1 DEF ExecutesInv, At
  <1> QED
    BY <1>2, <1>3, ExecutesInvStep, UserInvariant, PTL DEF UserSpec
=============================================================================
