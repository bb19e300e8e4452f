--------------------------- MODULE Directories_proof ---------------------------
(***************************************************************************)
(* What the wrappers of the other directories hold is what the file has at *)
(* the last wrap, and what they point to later is in the file, for every   *)
(* file, edit and length.                                                  *)
(***************************************************************************)
EXTENDS Directories, FiniteSetTheorems, WellFoundedInduction, TLAPS

-----------------------------------------------------------------------------
(* Induction *)

\* A set of numbers that is not empty has a least one.
LEMMA LeastNumber ==
    ASSUME NEW T, T \subseteq Nat, T # {}
    PROVE  \E m \in T : \A k \in T : m <= k
<1> DEFINE R == {ss \in Nat \X Nat : ss[1] < ss[2]}
<1>1. R = OpToRel(<, Nat)
  BY DEF OpToRel
<1>2. IsWellFoundedOn(R, Nat)
  BY <1>1, NatLessThanWellFounded
<1> HIDE DEF R
<1>3. PICK m \in T : \A k \in T : ~(<<k, m>> \in R)
  BY <1>2, WFMin
<1>4. ASSUME NEW k \in T
      PROVE  m <= k
  <2>1. k \in Nat /\ m \in Nat
    OBVIOUS
  <2>2. ~(k < m)
    BY <1>3, <2>1 DEF R
  <2> QED
    BY <2>1, <2>2
<1> QED
  BY <1>4

\* A set that holds 0, and with each number the next one, holds all up to n.
LEMMA Climb ==
    ASSUME NEW n \in Nat, NEW S, 0 \in S, \A k \in 0..n : k < n /\ k \in S => k + 1 \in S
    PROVE  \A k \in 0..n : k \in S
<1> DEFINE T == {k \in 0..n : k \notin S}
<1>1. T \subseteq Nat
  OBVIOUS
<1> SUFFICES ASSUME T # {}
             PROVE  FALSE
  OBVIOUS
<1>2. PICK m \in T : \A k \in T : m <= k
  <2> HIDE DEF T
  <2> QED
    BY <1>1, LeastNumber
<1>3. m \in 0..n /\ m \notin S /\ m # 0
  OBVIOUS
<1>4. m - 1 \in 0..n /\ m - 1 < n /\ m - 1 \in S
  BY <1>2, <1>3
<1> QED
  BY <1>3, <1>4

\* What is made from x by n steps, each of them a function on D.
Steps(f, n, x, g) == f[0] = x /\ \A k \in 1..n : f[k] = g[k][f[k-1]]

LEMMA Iterated ==
    ASSUME NEW n \in Nat, NEW D, NEW x \in D, NEW g \in [1..n -> [D -> D]]
    PROVE  \E f \in [0..n -> D] : Steps(f, n, x, g)
<1> DEFINE Made(m) == \E f \in [0..m -> D] : Steps(f, m, x, g)
           S == {m \in 0..n : Made(m)}
<1>1. Made(0)
  <2> DEFINE f == [k \in 0..0 |-> x]
  <2>1. f \in [0..0 -> D] /\ Steps(f, 0, x, g)
    BY DEF Steps
  <2> QED
    BY <2>1
<1>2. ASSUME NEW m \in 0..n, m < n, Made(m)
      PROVE  Made(m + 1)
  <2>1. PICK f \in [0..m -> D] : Steps(f, m, x, g)
    BY <1>2
  <2> DEFINE h == [k \in 0..m+1 |-> IF k = m + 1 THEN g[m+1][f[m]] ELSE f[k]]
  <2>2. m + 1 \in 1..n /\ m \in 0..m /\ g[m+1] \in [D -> D]
    BY <1>2
  <2>3. \A k \in 0..m+1 : k = m + 1 \/ k \in 0..m
    BY <1>2
  <2>4. h \in [0..m+1 -> D]
    BY <2>2, <2>3
  <2>5. \A k \in 0..m : h[k] = f[k]
    BY <1>2
  <2>6. h[m+1] = g[m+1][h[m]]
    BY <1>2, <2>2, <2>5
  <2> HIDE DEF h
  <2>7. ASSUME NEW k \in 1..m+1
        PROVE  h[k] = g[k][h[k-1]]
    <3>1. CASE k = m + 1
      BY <2>6, <3>1, <1>2
    <3>2. CASE k # m + 1
      <4>1. k \in 1..m /\ k \in 0..m /\ k - 1 \in 0..m
        BY <3>2, <1>2
      <4> QED
        BY <2>1, <2>5, <4>1 DEF Steps
    <3> QED
      BY <3>1, <3>2
  <2>8. h[0] = x
    BY <2>1, <2>5, <1>2 DEF Steps
  <2>9. Steps(h, m + 1, x, g)
    BY <2>7, <2>8 DEF Steps
  <2> QED
    BY <2>4, <2>9
<1> HIDE DEF Made
<1>3. 0 \in S /\ \A k \in 0..n : k < n /\ k \in S => k + 1 \in S
  BY <1>1, <1>2
<1> HIDE DEF S
<1>4. \A k \in 0..n : k \in S
  BY <1>3, Climb
<1>5. n \in S
  BY <1>4
<1> QED
  BY <1>5 DEF S, Made

\* The first number that is not in a set, or the limit.
LEMMA FirstStop ==
    ASSUME NEW max \in Nat, NEW Bad
    PROVE  \E n \in 0..max : (n < max => n \in Bad) /\ \A i \in 0..n-1 : i \notin Bad
<1> DEFINE T == {k \in 0..max : k = max \/ k \in Bad}
<1>1. T \subseteq Nat /\ max \in T
  OBVIOUS
<1>2. PICK n \in T : \A k \in T : n <= k
  <2> HIDE DEF T
  <2> QED
    BY <1>1, LeastNumber
<1>3. n \in 0..max /\ (n < max => n \in Bad)
  OBVIOUS
<1>4. \A i \in 0..n-1 : i \notin Bad
  BY <1>2, <1>3
<1> QED
  BY <1>3, <1>4

\* The greatest number of a set of numbers up to a limit.
LEMMA LastOfSet ==
    ASSUME NEW max \in Nat, NEW S, S \subseteq 0..max, S # {}
    PROVE  LastOf(S) \in S
<1> DEFINE T == {k \in 0..max : max - k \in S}
<1>1. T \subseteq Nat /\ T # {}
  <2>1. PICK o \in S : o \in 0..max
    OBVIOUS
  <2>2. max - o \in T
    BY <2>1
  <2>3. T \subseteq Nat
    OBVIOUS
  <2> HIDE DEF T
  <2> QED
    BY <2>2, <2>3
<1>2. PICK m \in T : \A k \in T : m <= k
  <2> HIDE DEF T
  <2> QED
    BY <1>1, LeastNumber
<1>3. max - m \in S /\ m \in 0..max
  OBVIOUS
<1>4. ASSUME NEW q \in S
      PROVE  q <= max - m
  <2>1. q \in 0..max /\ max - q \in 0..max /\ max - (max - q) = q
    OBVIOUS
  <2>2. max - q \in T
    BY <2>1
  <2> HIDE DEF T
  <2>3. m <= max - q
    BY <1>2, <2>2
  <2> QED
    BY <1>3, <2>1, <2>3
<1>5. \E o \in S : \A q \in S : q <= o
  BY <1>3, <1>4
<1> QED
  BY <1>5 DEF LastOf

-----------------------------------------------------------------------------
(* Numbers and structures *)

\* A file of bytes.
Content(p) == p.len \in Nat /\ \A o \in DOMAIN p.bytes : p.bytes[o] \in Nat

LEMMA ByteNat ==
    ASSUME NEW p, Content(p), NEW o
    PROVE  Byte(p, o) \in Nat
  BY DEF Content, Byte

LEMMA NumNat ==
    ASSUME NEW p, Content(p), NEW at, NEW size \in Nat
    PROVE  Num(p, at, size) \in Nat
<1> DEFINE Next1(h, i) == IF h < 2^22 THEN Byte(p, at + size - i) + 256 * h ELSE Huge
           Body(f, i) == IF i = 0 THEN 0 ELSE IF f[i-1] < 2^22 THEN Byte(p, at + size - i) + 256 * f[i-1] ELSE Huge
           high == CHOOSE f : f = [i \in 0..size |-> Body(f, i)]
           g == [i \in 1..size |-> [h \in Nat |-> Next1(h, i)]]
<1>1. Num(p, at, size) = high[size]
  BY DEF Num
<1>2. \A h \in Nat, i \in 1..size : Next1(h, i) \in Nat
  <2>1. \A i \in 1..size : Byte(p, at + size - i) \in Nat
    BY ByteNat
  <2>2. Huge \in Nat
    BY DEF Huge
  <2> QED
    BY <2>1, <2>2
<1>3. g \in [1..size -> [Nat -> Nat]]
  <2> HIDE DEF Next1
  <2> QED
    BY <1>2
<1>4. PICK f \in [0..size -> Nat] : Steps(f, size, 0, g)
  <2> HIDE DEF g
  <2>1. 0 \in Nat
    OBVIOUS
  <2> QED
    BY <1>3, <2>1, Iterated
<1>5. ASSUME NEW i \in 0..size
      PROVE  f[i] = Body(f, i)
  <2>1. CASE i = 0
    BY <1>4, <2>1 DEF Steps
  <2>2. CASE i # 0
    <3>1. i \in 1..size /\ i - 1 \in 0..size /\ f[i-1] \in Nat
      BY <2>2
    <3>2. f[i] = g[i][f[i-1]]
      BY <1>4, <3>1 DEF Steps
    <3> QED
      BY <2>2, <3>1, <3>2
  <2> QED
    BY <2>1, <2>2
<1>6. f = [i \in 0..size |-> Body(f, i)]
  <2> HIDE DEF Body
  <2> QED
    BY <1>5
<1>7. high = [i \in 0..size |-> Body(high, i)]
  <2> HIDE DEF Body
  <2> QED
    BY <1>6
<1> HIDE DEF high
<1> DEFINE S == {i \in 0..size : high[i] \in Nat}
<1>8. 0 \in S
  BY <1>7
<1>9. ASSUME NEW i \in 0..size, i < size, i \in S
      PROVE  i + 1 \in S
  <2>1. i + 1 \in 1..size /\ (i + 1) - 1 = i /\ high[i] \in Nat
    BY <1>9
  <2>2. high[i+1] = Next1(high[i], i + 1)
    BY <1>7, <2>1
  <2>3. Next1(high[i], i + 1) \in Nat
    BY <1>2, <2>1
  <2> HIDE DEF Next1
  <2> QED
    BY <2>1, <2>2, <2>3
<1>10. \A i \in 0..size : i \in S
  <2> HIDE DEF S
  <2> QED
    BY <1>8, <1>9, Climb
<1>11. size \in S
  BY <1>10
<1> QED
  BY <1>1, <1>11

\* Sizes of members are added up one by one.
Sums(f, struct, n) == f[0] = 0 /\ \A k \in 1..n : f[k] = f[k-1] + struct[k][2]

LEMMA SumIs ==
    ASSUME NEW struct, NEW n \in Nat, \A k \in 1..n : struct[k][2] \in Nat
    PROVE  \E f : SizeOfMembers(struct, n) = f[n] /\ Sums(f, struct, n)
<1> DEFINE Body(f, i) == IF i = 0 THEN 0 ELSE f[i-1] + struct[i][2]
           sum == CHOOSE f : f = [i \in 0..n |-> Body(f, i)]
           g == [i \in 1..n |-> [h \in Nat |-> h + struct[i][2]]]
<1>1. SizeOfMembers(struct, n) = sum[n]
  BY DEF SizeOfMembers
<1>2. g \in [1..n -> [Nat -> Nat]]
  OBVIOUS
<1>3. PICK f \in [0..n -> Nat] : Steps(f, n, 0, g)
  <2> HIDE DEF g
  <2>1. 0 \in Nat
    OBVIOUS
  <2> QED
    BY <1>2, <2>1, Iterated
<1>4. ASSUME NEW i \in 0..n
      PROVE  f[i] = Body(f, i)
  <2>1. CASE i = 0
    BY <1>3, <2>1 DEF Steps
  <2>2. CASE i # 0
    <3>1. i \in 1..n /\ i - 1 \in 0..n /\ f[i-1] \in Nat
      BY <2>2
    <3>2. f[i] = g[i][f[i-1]]
      BY <1>3, <3>1 DEF Steps
    <3> QED
      BY <2>2, <3>1, <3>2
  <2> QED
    BY <2>1, <2>2
<1>5. f = [i \in 0..n |-> Body(f, i)]
  <2> HIDE DEF Body
  <2> QED
    BY <1>4
<1>6. sum = [i \in 0..n |-> Body(sum, i)]
  <2> HIDE DEF Body
  <2> QED
    BY <1>5
<1> HIDE DEF sum
<1>7. Sums(sum, struct, n)
  BY <1>6 DEF Sums
<1> QED
  BY <1>1, <1>7

\* Structures of two and of three members of four bytes.
LEMMA Sum2 ==
    ASSUME NEW struct, \A k \in 1..2 : struct[k][2] = 4
    PROVE  SizeOfMembers(struct, 2) = 8
<1>1. PICK f : SizeOfMembers(struct, 2) = f[2] /\ Sums(f, struct, 2)
  BY SumIs
<1>2. f[0] = 0 /\ f[1] = f[1-1] + struct[1][2] /\ f[2] = f[2-1] + struct[2][2]
  <2>1. 1 \in 1..2 /\ 2 \in 1..2
    OBVIOUS
  <2> QED
    BY <1>1, <2>1 DEF Sums
<1>3. struct[1][2] = 4 /\ struct[2][2] = 4
  OBVIOUS
<1> QED
  BY <1>1, <1>2, <1>3

LEMMA Sum3 ==
    ASSUME NEW struct, \A k \in 1..3 : struct[k][2] = 4
    PROVE  SizeOfMembers(struct, 3) = 12
<1>1. PICK f : SizeOfMembers(struct, 3) = f[3] /\ Sums(f, struct, 3)
  BY SumIs
<1>2. f[0] = 0 /\ f[1] = f[1-1] + struct[1][2] /\ f[2] = f[2-1] + struct[2][2] /\ f[3] = f[3-1] + struct[3][2]
  <2>1. 1 \in 1..3 /\ 2 \in 1..3 /\ 3 \in 1..3
    OBVIOUS
  <2> QED
    BY <1>1, <2>1 DEF Sums
<1>3. struct[1][2] = 4 /\ struct[2][2] = 4 /\ struct[3][2] = 4
  OBVIOUS
<1> QED
  BY <1>1, <1>2, <1>3

LEMMA RelocationStruct ==
    /\ \A k \in 1..2 : IMAGE_BASE_RELOCATION[k][2] = 4
    /\ Member(IMAGE_BASE_RELOCATION, "SizeOfBlock") = 2
  BY DEF IMAGE_BASE_RELOCATION, Of, Member

LEMMA BlockHeaderIs == BlockHeader = 8
  BY RelocationStruct, Sum2 DEF BlockHeader

LEMMA BlockSizeNat ==
    ASSUME NEW p, Content(p), NEW at
    PROVE  SizeOfBlock(p, at) \in Nat
  BY RelocationStruct, NumNat DEF SizeOfBlock, In

\* The members that say how many functions and names there are.
LEMMA ExportStruct ==
    ASSUME NEW name \in {"NumberOfFunctions", "NumberOfNames", "AddressOfFunctions", "AddressOfNames", "AddressOfNameOrdinals"}
    PROVE  IMAGE_EXPORT_DIRECTORY[Member(IMAGE_EXPORT_DIRECTORY, name)][2] \in Nat
<1>1. DOMAIN IMAGE_EXPORT_DIRECTORY = 1..11
  BY DEF IMAGE_EXPORT_DIRECTORY, Of
<1>2. \A k \in 1..11 : IMAGE_EXPORT_DIRECTORY[k][2] \in {2, 4}
  BY DEF IMAGE_EXPORT_DIRECTORY, Of
<1>3. \E k \in 1..11 : IMAGE_EXPORT_DIRECTORY[k][1] = name
  <2>1. /\ IMAGE_EXPORT_DIRECTORY[7][1] = "NumberOfFunctions" /\ IMAGE_EXPORT_DIRECTORY[8][1] = "NumberOfNames"
        /\ IMAGE_EXPORT_DIRECTORY[9][1] = "AddressOfFunctions" /\ IMAGE_EXPORT_DIRECTORY[10][1] = "AddressOfNames"
        /\ IMAGE_EXPORT_DIRECTORY[11][1] = "AddressOfNameOrdinals"
    BY DEF IMAGE_EXPORT_DIRECTORY, Of
  <2> QED
    BY <2>1
<1>4. Member(IMAGE_EXPORT_DIRECTORY, name) \in 1..11
  BY <1>1, <1>3 DEF Member
<1> QED
  BY <1>2, <1>4

LEMMA ExportNat ==
    ASSUME NEW p, Content(p),
           NEW name \in {"NumberOfFunctions", "NumberOfNames", "AddressOfFunctions", "AddressOfNames", "AddressOfNameOrdinals"}
    PROVE  Export(p, name) \in Nat
  BY ExportStruct, NumNat DEF Export, In

\* A position that is found from an address is in the file.
LEMMA RawInFile ==
    ASSUME NEW p, NEW addr
    PROVE  ToRaw(p, addr) = NoPtr \/ (ToRaw(p, addr) = addr /\ addr \in Nat /\ addr < p.len)
<1>1. MappedSize - 1 = 4095
  BY DEF MappedSize
<1>2. CASE addr \in 0..MappedSize-1 /\ addr < p.len
  BY <1>1, <1>2 DEF ToRaw
<1>3. CASE ~(addr \in 0..MappedSize-1 /\ addr < p.len)
  BY <1>3 DEF ToRaw
<1> QED
  BY <1>2, <1>3

LEMMA DirEntrySizeNat ==
    ASSUME NEW p, Content(p), NEW dir
    PROVE  DirEntrySize(p, dir) \in Nat
<1>1. PICK raw : raw = ToRaw(p, Num(p, DataDirAt(p) + 8 * dir, 4))
  OBVIOUS
<1>2. raw = NoPtr \/ (raw \in Nat /\ raw < p.len)
  BY <1>1, RawInFile
<1>3. Num(p, DataDirAt(p) + 8 * dir + 4, 4) \in Nat
  BY NumNat
<1>4. PICK size \in Nat : size = DirSize(p, dir)
  BY <1>3 DEF DirSize
<1>5. DirEntrySize(p, dir) = IF dir >= DirsCount(p) \/ raw = NoPtr THEN 0
                             ELSE IF size < p.len - raw THEN size ELSE p.len - raw
  BY <1>1, <1>4 DEF DirEntrySize
<1>6. p.len \in Nat
  BY DEF Content
<1> QED
  BY <1>2, <1>5, <1>6 DEF NoPtr

-----------------------------------------------------------------------------
(* Relocations *)

BlockSet(p) ==
    {b \in [raw : Nat, valid : BOOLEAN, max : Nat, count : Nat] : b.raw + BlockHeader + 2 * b.max <= p.len}
RelocSet(p) == [parsed : Nat, blocks : Seq(BlockSet(p))]

\* A block that is loaded has as many entries as are in the file.
LEMMA BlockTyped ==
    ASSUME NEW p, Content(p), NEW at \in Int, InFile(p, at, BlockHeader)
    PROVE  WrapBlock(p, at) \in BlockSet(p) /\ WrapBlock(p, at).raw = at
<1>1. at \in Nat /\ p.len \in Nat /\ at + 8 <= p.len
  BY BlockHeaderIs DEF InFile, Content
<1>2. PICK s \in Nat : s = SizeOfBlock(p, at)
  BY BlockSizeNat
<1>3. PICK v \in BOOLEAN : v = (In(p, IMAGE_BASE_RELOCATION, at, "VirtualAddress") < MappedSize)
  <2>1. In(p, IMAGE_BASE_RELOCATION, at, "VirtualAddress") \in Nat
    <3>1. Member(IMAGE_BASE_RELOCATION, "VirtualAddress") = 1 /\ IMAGE_BASE_RELOCATION[1][2] = 4
      BY DEF IMAGE_BASE_RELOCATION, Of, Member
    <3> QED
      BY <3>1, NumNat DEF In
  <2>2. (In(p, IMAGE_BASE_RELOCATION, at, "VirtualAddress") < MappedSize) \in BOOLEAN
    BY <2>1 DEF MappedSize
  <2> QED
    BY <2>2
<1>4. PICK m : m = IF v /\ s > 8 THEN MaxEntriesNum(p, at) ELSE 0
  OBVIOUS
<1>5. m \in Nat /\ at + 8 + 2 * m <= p.len
  <2>1. CASE v /\ s > 8
    <3>1. PICK rest \in Nat : rest = p.len - (at + 8)
      BY <1>1
    <3>2. PICK x \in Nat : x = IF s - 8 > rest THEN rest ELSE s - 8
      BY <2>1, <3>1
    <3>3. MaxEntriesNum(p, at) = x \div 2
      BY <1>2, <3>1, <3>2, BlockHeaderIs DEF MaxEntriesNum
    <3> QED
      BY <1>1, <1>4, <2>1, <3>1, <3>2, <3>3
  <2>2. CASE ~(v /\ s > 8)
    BY <1>1, <1>4, <2>2
  <2> QED
    BY <2>1, <2>2
<1>6. WrapBlock(p, at) = [raw |-> at, valid |-> v, max |-> m, count |-> m]
  BY <1>2, <1>3, <1>4, BlockHeaderIs DEF WrapBlock
<1> QED
  BY <1>1, <1>5, <1>6, BlockHeaderIs DEF BlockSet

LEMMA RelocInt ==
    ASSUME NEW p
    PROVE  Reloc(p) \in Int
<1>1. PICK raw : raw = ToRaw(p, p.dirs[BaseReloc])
  OBVIOUS
<1>2. raw \in Int
  BY <1>1, RawInFile DEF NoPtr
<1> QED
  BY <1>1, <1>2 DEF Reloc, NoPtr

LEMMA NextBlockInt ==
    ASSUME NEW p, Content(p), NEW dir \in RelocSet(p)
    PROVE  NextBlockAt(p, dir.blocks) \in Int
<1>1. CASE dir.blocks = <<>>
  BY <1>1, RelocInt DEF NextBlockAt
<1>2. CASE dir.blocks # <<>>
  <2>1. dir.blocks \in Seq(BlockSet(p))
    BY DEF RelocSet
  <2>2. dir.blocks[Len(dir.blocks)] \in BlockSet(p)
    <3> HIDE DEF BlockSet
    <3> QED
      BY <1>2, <2>1
  <2>3. PICK prev \in Nat : prev = dir.blocks[Len(dir.blocks)].raw
    BY <2>2 DEF BlockSet
  <2>4. SizeOfBlock(p, prev) \in Nat
    BY BlockSizeNat
  <2> QED
    BY <1>2, <2>3, <2>4 DEF NextBlockAt
<1> QED
  BY <1>1, <1>2

LEMMA LoadNextTyped ==
    ASSUME NEW p, Content(p), NEW dir \in RelocSet(p)
    PROVE  /\ LoadNext(p, dir) \in RelocSet(p)
           /\ ~Complete(p, dir) => LoadNext(p, dir).parsed > dir.parsed
<1>1. CASE Complete(p, dir)
  BY <1>1 DEF LoadNext
<1>2. CASE ~Complete(p, dir)
  <2>1. PICK at \in Int : at = NextBlockAt(p, dir.blocks)
    BY NextBlockInt
  <2>2. InFile(p, at, BlockHeader) /\ SizeOfBlock(p, at) # 0
    BY <1>2, <2>1 DEF Complete
  <2>3. PICK b \in BlockSet(p) : b = WrapBlock(p, at)
    BY <2>2, BlockTyped
  <2>4. PICK s \in Nat \ {0} : s = SizeOfBlock(p, at)
    BY <2>2, BlockSizeNat
  <2>5. LoadNext(p, dir) = [parsed |-> dir.parsed + s, blocks |-> Append(dir.blocks, b)]
    BY <1>2, <2>1, <2>3, <2>4 DEF LoadNext
  <2>6. dir.parsed \in Nat /\ dir.blocks \in Seq(BlockSet(p))
    BY DEF RelocSet
  <2>7. Append(dir.blocks, b) \in Seq(BlockSet(p))
    BY <2>3, <2>6
  <2> QED
    BY <2>4, <2>5, <2>6, <2>7 DEF RelocSet
<1> QED
  BY <1>1, <1>2

\* The blocks of dir follow one another, parsed is their extent, and only the last
\* one may be invalid.
EndOfBlock(p, b) == b.raw + SizeOfBlock(p, b.raw)
Follow(p, dir) ==
    LET n == Len(dir.blocks) IN
    /\ \A k \in 1..n :
          /\ dir.blocks[k].raw = IF k = 1 THEN Reloc(p) ELSE EndOfBlock(p, dir.blocks[k-1])
          /\ k < n => dir.blocks[k].valid
    /\ dir.parsed = IF n = 0 THEN 0 ELSE EndOfBlock(p, dir.blocks[n]) - Reloc(p)

LEMMA LoadNextFollows ==
    ASSUME NEW p, Content(p), NEW dir \in RelocSet(p), Follow(p, dir)
    PROVE  Follow(p, LoadNext(p, dir))
<1>1. CASE Complete(p, dir)
  BY <1>1 DEF LoadNext
<1>2. CASE ~Complete(p, dir)
  <2>1. PICK at \in Int : at = NextBlockAt(p, dir.blocks)
    BY NextBlockInt
  <2>2. InFile(p, at, BlockHeader)
    BY <1>2, <2>1 DEF Complete
  <2>3. PICK b \in BlockSet(p) : b = WrapBlock(p, at) /\ b.raw = at
    BY <2>2, BlockTyped
  <2>4. PICK s \in Nat : s = SizeOfBlock(p, at)
    BY BlockSizeNat
  <2>5. PICK bs \in Seq(BlockSet(p)) : bs = dir.blocks
    BY DEF RelocSet
  <2>6. PICK n \in Nat : n = Len(bs)
    BY <2>5
  <2> DEFINE ext == Append(bs, b)
  <2>7. /\ Len(ext) = n + 1 /\ ext[n+1] = b
        /\ \A k \in 1..n : ext[k] = bs[k]
    BY <2>5, <2>6
  <2>8. LoadNext(p, dir) = [parsed |-> dir.parsed + s, blocks |-> ext]
    BY <1>2, <2>1, <2>3, <2>4, <2>5 DEF LoadNext
  <2> HIDE DEF ext
  <2>9. dir.parsed \in Nat /\ Reloc(p) \in Int
    BY RelocInt DEF RelocSet
  <2>10. /\ n = 0 => at = Reloc(p) /\ dir.parsed = 0
         /\ n # 0 => /\ at = EndOfBlock(p, bs[n]) /\ bs[n].valid
                     /\ dir.parsed = at - Reloc(p)
    <3>1. bs = <<>> <=> n = 0
      BY <2>5, <2>6
    <3>2. n # 0 => bs[n].valid
      BY <1>2, <2>5, <2>6, <3>1 DEF Complete
    <3>3. dir.parsed = IF n = 0 THEN 0 ELSE EndOfBlock(p, bs[n]) - Reloc(p)
      BY <2>5, <2>6 DEF Follow
    <3>4. at = IF n = 0 THEN Reloc(p) ELSE EndOfBlock(p, bs[n])
      BY <2>1, <2>5, <2>6, <3>1 DEF NextBlockAt, EndOfBlock
    <3> QED
      BY <3>2, <3>3, <3>4
  <2>11. ASSUME NEW k \in 1..n+1
         PROVE  /\ ext[k].raw = IF k = 1 THEN Reloc(p) ELSE EndOfBlock(p, ext[k-1])
                /\ k < n + 1 => ext[k].valid
    <3>1. CASE k = n + 1
      <4>1. k = 1 <=> n = 0
        BY <3>1
      <4>2. n # 0 => k - 1 = n /\ ext[k-1] = bs[n]
        BY <2>7, <3>1
      <4> QED
        BY <2>3, <2>7, <2>10, <3>1, <4>1, <4>2
    <3>2. CASE k # n + 1
      <4>1. k \in 1..n /\ ext[k] = bs[k] /\ (k # 1 => k - 1 \in 1..n /\ ext[k-1] = bs[k-1])
        BY <2>7, <3>2
      <4>2. /\ bs[k].raw = IF k = 1 THEN Reloc(p) ELSE EndOfBlock(p, bs[k-1])
            /\ k < n => bs[k].valid
        BY <2>5, <2>6, <4>1 DEF Follow
      <4>3. k < n \/ (k = n /\ n # 0)
        BY <4>1
      <4> QED
        BY <2>10, <4>1, <4>2, <4>3
    <3> QED
      BY <3>1, <3>2
  <2>12. dir.parsed + s = EndOfBlock(p, ext[n+1]) - Reloc(p)
    BY <2>3, <2>4, <2>7, <2>9, <2>10 DEF EndOfBlock
  <2> QED
    BY <2>7, <2>8, <2>11, <2>12 DEF Follow
<1> QED
  BY <1>1, <1>2

NoBlocks == [parsed |-> 0, blocks |-> <<>>]

\* The loop that loads the blocks ends, and keeps that they follow one another.
LEMMA BlocksLoaded ==
    ASSUME NEW p, Content(p)
    PROVE  /\ LoadBlocks(p, NoBlocks) \in RelocSet(p)
           /\ Follow(p, LoadBlocks(p, NoBlocks))
           /\ Complete(p, LoadBlocks(p, NoBlocks))
<1> DEFINE D == {dir \in RelocSet(p) : Follow(p, dir)}
           Body(f, k) == IF k = 0 THEN NoBlocks ELSE LoadNext(p, f[k-1])
<1>1. PICK most \in Nat : most = DirEntrySize(p, BaseReloc)
  BY DirEntrySizeNat
<1> DEFINE load == CHOOSE f : f = [k \in 0..most |-> Body(f, k)]
           g == [k \in 1..most |-> [dir \in D |-> LoadNext(p, dir)]]
<1>2. LoadBlocks(p, NoBlocks) = load[most]
  BY <1>1 DEF LoadBlocks
<1>3. NoBlocks \in D
  <2>1. NoBlocks.blocks = <<>> /\ NoBlocks.parsed = 0 /\ Len(<<>>) = 0
    BY DEF NoBlocks
  <2>2. NoBlocks \in RelocSet(p)
    BY DEF NoBlocks, RelocSet
  <2>3. Follow(p, NoBlocks)
    BY <2>1 DEF Follow
  <2> QED
    BY <2>2, <2>3
<1>4. \A dir \in D : LoadNext(p, dir) \in D /\ (~Complete(p, dir) => LoadNext(p, dir).parsed > dir.parsed)
  BY LoadNextTyped, LoadNextFollows
<1> HIDE DEF D
<1>5. g \in [1..most -> [D -> D]]
  BY <1>4
<1>6. PICK f \in [0..most -> D] : Steps(f, most, NoBlocks, g)
  <2> HIDE DEF g
  <2> QED
    BY <1>3, <1>5, Iterated
<1>7. ASSUME NEW k \in 0..most
      PROVE  f[k] = Body(f, k)
  <2>1. CASE k = 0
    BY <1>6, <2>1 DEF Steps
  <2>2. CASE k # 0
    <3>1. k \in 1..most /\ k - 1 \in 0..most /\ f[k-1] \in D
      BY <2>2
    <3>2. f[k] = g[k][f[k-1]]
      BY <1>6, <3>1 DEF Steps
    <3> QED
      BY <2>2, <3>1, <3>2
  <2> QED
    BY <2>1, <2>2
<1>8. f = [k \in 0..most |-> Body(f, k)]
  <2> HIDE DEF Body
  <2> QED
    BY <1>7
<1>9. load = [k \in 0..most |-> Body(load, k)]
  <2> HIDE DEF Body
  <2> QED
    BY <1>8
<1> HIDE DEF load
<1>10. load[0] = NoBlocks /\ \A k \in 0..most : k < most => load[k+1] = LoadNext(p, load[k])
  <2>1. load[0] = NoBlocks
    BY <1>9
  <2>2. ASSUME NEW k \in 0..most, k < most
        PROVE  load[k+1] = LoadNext(p, load[k])
    <3>1. k + 1 \in 0..most /\ k + 1 # 0 /\ (k + 1) - 1 = k
      BY <2>2
    <3> QED
      BY <1>9, <3>1
  <2> QED
    BY <2>1, <2>2
\* As long as the loop goes on, parsed grows.
<1> DEFINE Good(k) == load[k] \in D /\ (Complete(p, load[k]) \/ load[k].parsed >= k)
           S == {k \in 0..most : Good(k)}
<1>11. 0 \in S
  BY <1>3, <1>10 DEF NoBlocks
<1>12. ASSUME NEW k \in 0..most, k < most, k \in S
       PROVE  k + 1 \in S
  <2>1. PICK dir \in D : dir = load[k]
    BY <1>12
  <2>2. load[k+1] = LoadNext(p, dir) /\ LoadNext(p, dir) \in D /\ k + 1 \in 0..most
    BY <1>4, <1>10, <1>12, <2>1
  <2>3. CASE Complete(p, dir)
    BY <2>1, <2>2, <2>3 DEF LoadNext
  <2>4. CASE ~Complete(p, dir)
    <3>1. PICK x \in Nat : x = dir.parsed
      BY <2>1 DEF D, RelocSet
    <3>2. PICK y \in Nat : y = LoadNext(p, dir).parsed
      BY <2>2 DEF D, RelocSet
    <3>3. x >= k /\ y > x
      BY <1>4, <1>12, <2>1, <2>4, <3>1, <3>2
    <3>4. y >= k + 1
      BY <3>3
    <3> QED
      BY <2>2, <3>2, <3>4
  <2> QED
    BY <2>3, <2>4
<1>13. \A k \in 0..most : k \in S
  <2> HIDE DEF S
  <2> QED
    BY <1>11, <1>12, Climb
<1>14. most \in S
  BY <1>13
<1>15. load[most] \in D /\ Complete(p, load[most])
  <2>1. load[most] \in D /\ (Complete(p, load[most]) \/ load[most].parsed >= most)
    BY <1>14
  <2>2. load[most].parsed >= most => Complete(p, load[most])
    BY <1>1 DEF Complete
  <2> QED
    BY <2>1, <2>2
<1> QED
  BY <1>2, <1>15 DEF D

\* RelocEntryWrapper::getPtr of a block that was loaded from this length.
LEMMA EntryInFile ==
    ASSUME NEW p, p.len \in Nat, NEW b \in BlockSet(p), NEW i \in Nat, RelocEntryPtr(p, b, i) # NoPtr
    PROVE  InFile(p, RelocEntryPtr(p, b, i), 2)
<1>1. PICK raw \in Nat, max \in Nat : raw = b.raw /\ max = b.max /\ raw + 8 + 2 * max <= p.len
  BY BlockHeaderIs DEF BlockSet
<1>2. i < max /\ RelocEntryPtr(p, b, i) = raw + 8 + 2 * i
  BY <1>1, BlockHeaderIs DEF RelocEntryPtr
<1>3. PICK at \in Nat : at = raw + 8 + 2 * i
  OBVIOUS
<1>4. at + 2 <= p.len
  BY <1>1, <1>2, <1>3
<1> QED
  BY <1>2, <1>3, <1>4 DEF InFile

-----------------------------------------------------------------------------
(* Forwarders *)

\* getForwarder: a name with a dot ends in the file.
LEMMA ForwarderEnds ==
    ASSUME NEW p, Content(p), NEW i, Forwarder(p, i) # NoPtr
    PROVE  \E end \in Forwarder(p, i)..p.len-1 :
               Byte(p, end) = 0 /\ \E o \in Forwarder(p, i)..end : Byte(p, o) = Dot
<1>1. PICK at : /\ at = IF FuncRvaPtr(p, i) = NoPtr THEN NoPtr ELSE ToRaw(p, Num(p, FuncRvaPtr(p, i), 4))
                /\ at # NoPtr /\ ForwarderNameLen(p, at) > 0 /\ Forwarder(p, i) = at
  BY DEF Forwarder
<1>2. at \in Nat /\ at < p.len /\ p.len \in Nat
  BY <1>1, RawInFile DEF Content
<1>3. PICK most \in Nat : most = p.len - at
  BY <1>2
<1> DEFINE Bad == {k \in 0..most : ~(Byte(p, at + k) \in FuncChars)}
           Is(n) == (n < most => ~(Byte(p, at + n) \in FuncChars)) /\ \A k \in 0..n-1 : Byte(p, at + k) \in FuncChars
           n == CHOOSE m \in 0..most : Is(m)
<1>4. n \in 0..most
  <2>1. PICK m \in 0..most : (m < most => m \in Bad) /\ \A k \in 0..m-1 : k \notin Bad
    BY FirstStop
  <2>2. Is(m)
    BY <2>1
  <2> HIDE DEF Is
  <2> QED
    BY <2>2
<1>5. ForwarderNameLen(p, at) =
        IF at + n < p.len /\ Byte(p, at + n) = 0 /\ (\E k \in 0..n-1 : Byte(p, at + k) = Dot) THEN n ELSE 0
  BY <1>3 DEF ForwarderNameLen, CountWhile
<1> HIDE DEF n
<1>6. at + n < p.len /\ Byte(p, at + n) = 0 /\ (\E k \in 0..n-1 : Byte(p, at + k) = Dot)
  BY <1>1, <1>5
<1>7. PICK k \in 0..n-1 : Byte(p, at + k) = Dot
  BY <1>6
<1>8. at + n \in at..p.len-1 /\ at + k \in at..at+n
  BY <1>2, <1>4, <1>6
<1> QED
  BY <1>1, <1>6, <1>7, <1>8

-----------------------------------------------------------------------------
(* The Rich header *)

RichIn(r, len) ==
    r.dans # NoPtr =>
      /\ r.dans \in Nat /\ r.sign \in Nat
      /\ r.dans + DansBegin + CompSize <= r.sign /\ r.sign + RichSize <= len
      /\ r.comps = (r.sign - r.dans - DansBegin) \div CompSize

\* The signature is searched for from the PE header on, and the begin of the header
\* from the signature on, both backwards.
LEMMA RichFound ==
    ASSUME NEW p, Content(p)
    PROVE  RichIn(WrapRich(p), p.len)
<1>1. PICK to \in Nat : to = NtHeaders(p)
  BY NumNat DEF NtHeaders
<1>2. PICK sign : sign = RichSign(p)
  OBVIOUS
<1>3. ASSUME sign # NoPtr
      PROVE  sign \in Nat /\ sign + 8 <= p.len
  <2>1. PICK S : S \subseteq 0..to /\ sign = LastOf(S) /\ InFile(p, to, RichSize)
    <3> DEFINE from == In(p, IMAGE_DOS_HEADER, 0, "e_lfarlc")
               ends == from < to /\ (to - from) % 4 = 0
               visited == {o \in 0..to : (to - o) % 4 = 0 /\ (ends => o > from)}
               S == {o \in visited : IsRich(p, o)}
    <3>1. sign = IF from = to \/ from >= p.len \/ ~InFile(p, to, RichSize) THEN NoPtr ELSE LastOf(S)
      BY <1>1, <1>2 DEF RichSign
    <3>2. S \subseteq 0..to
      OBVIOUS
    <3> HIDE DEF S, from
    <3> QED
      BY <1>3, <3>1, <3>2
  <2>2. S # {}
    BY <1>3, <2>1 DEF LastOf
  <2>3. sign \in 0..to
    BY <2>1, <2>2, LastOfSet
  <2>4. to + 8 <= p.len
    BY <2>1 DEF InFile, RichSize
  <2> QED
    BY <2>3, <2>4 DEF Content
<1>4. PICK dans : dans = DansHdr(p, sign)
  OBVIOUS
<1>5. ASSUME dans # NoPtr
      PROVE  sign # NoPtr /\ dans \in Nat /\ dans + 24 <= sign
  <2>1. sign # NoPtr
    BY <1>4, <1>5 DEF DansHdr
  <2>2. PICK S : S \subseteq 1..sign-24 /\ dans = LastOf(S)
    <3> DEFINE S == {o \in 1..sign - (DansBegin + CompSize) : (sign - o) % 4 = 0 /\ IsDans(p, o, sign + 4)}
    <3>1. dans = LastOf(S)
      BY <1>4, <2>1 DEF DansHdr
    <3>2. S \subseteq 1..sign-24
      BY DEF DansBegin, CompSize
    <3> HIDE DEF S
    <3> QED
      BY <3>1, <3>2
  <2>3. S # {}
    BY <1>5, <2>2 DEF LastOf
  <2>4. PICK max \in Nat : max = sign - 24 /\ S \subseteq 0..max
    <3>1. sign \in Nat
      BY <1>3, <2>1
    <3>2. PICK o \in S : o \in 1..sign-24
      BY <2>2, <2>3
    <3> QED
      BY <2>2, <3>1, <3>2
  <2>5. dans \in 0..max
    BY <2>2, <2>3, <2>4, LastOfSet
  <2> QED
    BY <1>3, <2>1, <2>4, <2>5
<1>6. WrapRich(p) = [sign |-> sign, dans |-> dans,
                     comps |-> IF dans = NoPtr THEN 0 ELSE (sign - dans - DansBegin) \div CompSize]
  BY <1>2, <1>4 DEF WrapRich
<1>7. DansBegin = 16 /\ CompSize = 8 /\ RichSize = 8
  BY DEF DansBegin, CompSize, RichSize
<1> QED
  BY <1>3, <1>5, <1>6, <1>7 DEF RichIn

\* getFieldPtr, getFieldSize: the fields are in their order between the two ends.
LEMMA RichFieldsFollow ==
    ASSUME NEW r, NEW len \in Nat, RichIn(r, len)
    PROVE  LET n == RichFieldsCount(r)
               End(f) == RichFieldPtr(r, f) + RichFieldSize(r, f)
           IN /\ \A f \in 0..n-2 : End(f) <= RichFieldPtr(r, f + 1)
              /\ n > 0 => RichFieldPtr(r, 0) = r.dans /\ End(n - 1) = r.dans + RichHdrSize(r) /\ End(n - 1) <= len
<1>1. CASE r.dans = NoPtr
  <2>1. RichFieldsCount(r) = 0
    BY <1>1 DEF RichFieldsCount, RichHdrSize
  <2> QED
    BY <2>1
<1>2. CASE r.dans # NoPtr
  <2>1. PICK dans \in Nat, sign \in Nat :
          dans = r.dans /\ sign = r.sign /\ dans + 24 <= sign /\ sign + 8 <= len /\ r.comps = (sign - dans - 16) \div 8
    BY <1>2 DEF RichIn, DansBegin, CompSize, RichSize
  <2>2. PICK c \in Nat : c = r.comps /\ c >= 1 /\ dans + 16 + 8 * c <= sign
    <3>1. PICK x \in Nat : x = sign - dans - 16 /\ x >= 8
      BY <2>1
    <3>2. x \div 8 \in Nat /\ x \div 8 >= 1 /\ 8 * (x \div 8) <= x
      BY <3>1
    <3> QED
      BY <2>1, <3>1, <3>2
  <2>3. RichHdrSize(r) = sign - dans + 8 /\ RichFieldsCount(r) = c + 6
    BY <1>2, <2>1, <2>2 DEF RichHdrSize, RichFieldsCount, RichSize
  <2>4. ASSUME NEW f \in Nat
        PROVE  /\ f < 4 => RichFieldPtr(r, f) = dans + 4 * f /\ RichFieldSize(r, f) = 4
               /\ f \in 4..3+c => RichFieldPtr(r, f) = dans + 16 + 8 * (f - 4) /\ RichFieldSize(r, f) = 8
               /\ f > 3 + c => RichFieldPtr(r, f) = sign + 4 * (f - 4 - c) /\ RichFieldSize(r, f) = 4
    <3>1. CASE f < 4
      BY <2>1, <2>2, <3>1 DEF RichFieldPtr, RichFieldSize
    <3>2. CASE f \in 4..3+c
      BY <2>1, <2>2, <3>2 DEF RichFieldPtr, RichFieldSize, DansBegin, CompSize
    <3>3. CASE f > 3 + c
      BY <2>1, <2>2, <3>3 DEF RichFieldPtr, RichFieldSize
    <3> QED
      BY <2>2, <3>1, <3>2, <3>3
  <2>5. ASSUME NEW f \in 0..c+4
        PROVE  RichFieldPtr(r, f) + RichFieldSize(r, f) <= RichFieldPtr(r, f + 1)
    <3>1. f \in Nat /\ f + 1 \in Nat
      OBVIOUS
    <3>2. CASE f < 3
      BY <2>4, <3>1, <3>2
    <3>3. CASE f = 3
      BY <2>2, <2>4, <3>1, <3>3
    <3>4. CASE f > 3 /\ f < 3 + c
      BY <2>2, <2>4, <3>1, <3>4
    <3>5. CASE f = 3 + c
      BY <2>2, <2>4, <3>1, <3>5
    <3>6. CASE f > 3 + c
      <4>1. PICK x \in Nat : x = f - 4 - c
        BY <2>2, <3>1, <3>6
      <4>2. RichFieldPtr(r, f) = sign + 4 * x /\ RichFieldSize(r, f) = 4
        BY <2>4, <3>1, <3>6, <4>1
      <4>3. f + 1 > 3 + c /\ (f + 1) - 4 - c = x + 1
        BY <2>2, <3>6, <4>1
      <4>4. RichFieldPtr(r, f + 1) = sign + 4 * (x + 1)
        BY <2>4, <3>1, <4>3
      <4> QED
        BY <4>2, <4>4
    <3> QED
      BY <2>2, <3>2, <3>3, <3>4, <3>5, <3>6
  <2>6. RichFieldPtr(r, 0) = dans /\ RichFieldPtr(r, c + 5) + RichFieldSize(r, c + 5) = sign + 8
    BY <2>2, <2>4
  <2> QED
    BY <2>1, <2>2, <2>3, <2>5, <2>6
<1> QED
  BY <1>1, <1>2

-----------------------------------------------------------------------------
(* The file *)

IsFile(f) == /\ f = [bytes |-> f.bytes, len |-> f.len, bits |-> f.bits]
             /\ f.bits \in Modes /\ Content(f)

LEMMA SeenIs ==
    ASSUME NEW f, IsFile(f)
    PROVE  /\ Content(Seen(f)) /\ Seen(f).len = f.len
           /\ Seen(f).views = Views[f.bits]
  BY DEF Seen, Laid, IsFile, Content

LEMMA ReadIsFile ==
    ASSUME NEW bytes, NEW len \in Nat, \A o \in DOMAIN bytes : bytes[o] \in Nat
    PROVE  IsFile(Read(bytes, len)) /\ Read(bytes, len).len = len
<1>1. PICK f : f = [bytes |-> bytes, len |-> len, bits |-> 32]
  OBVIOUS
<1>2. PICK b : b = HeaderMode(Laid(f)) /\ b \in {32, 64}
  BY DEF HeaderMode
<1>3. Read(bytes, len) = [bytes |-> bytes, len |-> len, bits |-> b]
  BY <1>1, <1>2 DEF Read, Wrapped
<1> QED
  BY <1>2, <1>3 DEF IsFile, Content, Modes

LEMMA CutBytes ==
    ASSUME NEW bytes, NEW n, \A o \in DOMAIN bytes : bytes[o] \in Nat
    PROVE  \A o \in DOMAIN Cut(bytes, n) : Cut(bytes, n)[o] \in Nat
  BY DEF Cut

LEMMA WrittenBytes ==
    ASSUME NEW bytes, NEW at \in Nat, NEW size \in Nat, NEW v \in Nat, \A o \in DOMAIN bytes : bytes[o] \in Nat
    PROVE  \A o \in DOMAIN Written(bytes, at, size, v) : Written(bytes, at, size, v)[o] \in Nat
<1>1. \A i \in Nat : Digit(v, i) \in Nat
  <2>1. \A i \in 0..3 : Digit(v, i) \in Nat
    <3>1. \A m \in {1, 256, 65536, 16777216} : (v \div m) % 256 \in Nat
      OBVIOUS
    <3>2. 256^0 = 1 /\ 256^1 = 256 /\ 256^2 = 65536 /\ 256^3 = 16777216
      OBVIOUS
    <3>3. \A i \in 0..3 : i = 0 \/ i = 1 \/ i = 2 \/ i = 3
      OBVIOUS
    <3> QED
      BY <3>1, <3>2, <3>3 DEF Digit
  <2>2. \A i \in Nat : i \in 0..3 \/ i > 3
    OBVIOUS
  <2>3. \A i \in Nat : i > 3 => Digit(v, i) = 0
    BY DEF Digit
  <2> QED
    BY <2>1, <2>2, <2>3
<1>2. \A o \in Area(at, size) : o - at \in Nat
  BY DEF Area
<1> QED
  BY <1>1, <1>2 DEF Written

-----------------------------------------------------------------------------
(* What the wrappers point to is in the file *)

Held == /\ IsFile(file)
        /\ relocs \in RelocSet(file)
        /\ RichIn(rich, file.len)

LEMMA RelocSetLen ==
    ASSUME NEW p, NEW q, p.len = q.len
    PROVE  RelocSet(p) = RelocSet(q)
  BY DEF RelocSet, BlockSet

LEMMA RelocsWrapped ==
    ASSUME NEW p, Content(p), NEW old
    PROVE  /\ WrapRelocs(p, old) \in RelocSet(p)
           /\ Follow(p, WrapRelocs(p, old))
           /\ Complete(p, WrapRelocs(p, old))
  BY BlocksLoaded DEF WrapRelocs, ClearRelocs, NoBlocks

LEMMA WrapHolds ==
    ASSUME NEW f, IsFile(f), Wrap(f)
    PROVE  Held'
<1>1. PICK p : /\ p = Seen(f) /\ file' = f
               /\ relocs' = WrapRelocs(p, relocs)
               /\ rich' = WrapRich(p)
  BY DEF Wrap
<1>2. Content(p) /\ p.len = f.len
  BY <1>1, SeenIs
<1>3. relocs' \in RelocSet(f)
  BY <1>1, <1>2, RelocsWrapped, RelocSetLen
<1>4. RichIn(rich', f.len)
  BY <1>1, <1>2, RichFound
<1> QED
  BY <1>1, <1>3, <1>4 DEF Held

LEMMA HeldAtFirst == Init => Held
<1> SUFFICES ASSUME Init
             PROVE  Held
  OBVIOUS
<1>1. PICK f \in Files : file = Read(f.bytes, f.len)
  BY DEF Init
<1>2. IsFile(file)
  BY <1>1, DirectoriesAssumption, ReadIsFile
<1>3. /\ relocs = WrapRelocs(pe, [parsed |-> 0, blocks |-> <<>>])
      /\ rich = WrapRich(pe)
  BY DEF Init
<1>4. Content(pe) /\ pe.len = file.len
  BY <1>2, SeenIs DEF pe
<1>5. relocs \in RelocSet(file)
  BY <1>3, <1>4, RelocsWrapped, RelocSetLen
<1> QED
  BY <1>2, <1>3, <1>4, <1>5, RichFound DEF Held

LEMMA HeldNext == Held /\ [Next]_vars => Held'
<1> SUFFICES ASSUME Held, [Next]_vars
             PROVE  Held'
  OBVIOUS
<1>1. CASE Rewrap
  <2>1. IsFile(Read(file.bytes, file.len))
    BY ReadIsFile DEF Held, IsFile, Content
  <2> QED
    BY <1>1, <2>1, WrapHolds DEF Rewrap
<1>2. ASSUME NEW n \in Lengths, Resize(n)
      PROVE  Held'
  <2>1. IsFile(Read(Cut(file.bytes, n), n))
    <3>1. \A o \in DOMAIN file.bytes : file.bytes[o] \in Nat
      BY DEF Held, IsFile, Content
    <3>2. \A o \in DOMAIN Cut(file.bytes, n) : Cut(file.bytes, n)[o] \in Nat
      BY <3>1, CutBytes
    <3>3. n \in Nat
      BY DirectoriesAssumption
    <3> QED
      BY <3>2, <3>3, ReadIsFile
  <2> QED
    BY <1>2, <2>1, WrapHolds DEF Resize
<1>3. ASSUME NEW e \in Edits, SetNumValue(e[1], e[2], e[3])
      PROVE  Held'
  <2>1. PICK at \in Nat, size \in Nat, v \in Nat : SetNumValue(at, size, v)
    BY <1>3, DirectoriesAssumption
  <2>2. file = [bytes |-> file.bytes, len |-> file.len, bits |-> file.bits]
    BY DEF Held, IsFile
  <2>3. file' = [bytes |-> Written(file.bytes, at, size, v), len |-> file.len, bits |-> file.bits]
    BY <2>1, <2>2 DEF SetNumValue
  <2>4. \A o \in DOMAIN Written(file.bytes, at, size, v) : Written(file.bytes, at, size, v)[o] \in Nat
    BY WrittenBytes DEF Held, IsFile, Content
  <2>5. IsFile(file') /\ file'.len = file.len
    BY <2>3, <2>4 DEF Held, IsFile, Content
  <2>6. RelocSet(file') = RelocSet(file)
    BY <2>5, RelocSetLen
  <2>7. relocs' = relocs /\ rich' = rich
    BY <2>1 DEF SetNumValue
  <2> QED
    BY <2>5, <2>6, <2>7 DEF Held
<1>4. CASE GetRich
  <2>1. Content(pe) /\ pe.len = file.len
    BY SeenIs DEF Held, pe
  <2>2. RichIn(WrapRich(pe), file.len)
    BY <2>1, RichFound
  <2> QED
    BY <1>4, <2>2 DEF GetRich, Held
<1>5. CASE UNCHANGED vars
  BY <1>5 DEF vars, Held
<1> QED
  BY <1>1, <1>2, <1>3, <1>4, <1>5 DEF Next

LEMMA HeldInFile == Held => PointersInFile
<1> SUFFICES ASSUME Held, NEW p, p = pe
             PROVE  /\ \A k \in DOMAIN relocs.blocks : \A i \in 0..relocs.blocks[k].count-1 :
                         LET at == RelocEntryPtr(p, relocs.blocks[k], i) IN at # NoPtr => InFile(p, at, 2)
                    /\ \A i \in 0..exports.count-1 : Forwarder(p, i) # NoPtr =>
                         \E end \in Forwarder(p, i)..p.len-1 : Byte(p, end) = 0 /\ \E o \in Forwarder(p, i)..end : Byte(p, o) = Dot
                    /\ LET n == RichFieldsCount(rich)
                           End(f) == RichFieldPtr(rich, f) + RichFieldSize(rich, f)
                       IN /\ \A f \in 0..n-2 : End(f) <= RichFieldPtr(rich, f + 1)
                          /\ n > 0 => RichFieldPtr(rich, 0) = rich.dans /\ End(n - 1) = rich.dans + RichHdrSize(rich)
                                      /\ End(n - 1) <= p.len
  BY DEF PointersInFile
<1>1. Content(p) /\ p.len = file.len /\ p.len \in Nat
  BY SeenIs DEF Held, pe, Content
<1>2. relocs.blocks \in Seq(BlockSet(p))
  <2>1. relocs \in RelocSet(p)
    BY <1>1, RelocSetLen DEF Held
  <2> QED
    BY <2>1 DEF RelocSet
<1>3. ASSUME NEW k \in DOMAIN relocs.blocks, NEW i \in 0..relocs.blocks[k].count-1
      PROVE  LET at == RelocEntryPtr(p, relocs.blocks[k], i) IN at # NoPtr => InFile(p, at, 2)
  <2>1. relocs.blocks[k] \in BlockSet(p)
    <3> HIDE DEF BlockSet
    <3> QED
      BY <1>2
  <2>2. i \in Nat
    BY <2>1 DEF BlockSet
  <2> QED
    BY <1>1, <2>1, <2>2, EntryInFile
<1>4. RichIn(rich, p.len)
  BY <1>1 DEF Held
<1> QED
  BY <1>1, <1>3, <1>4, ForwarderEnds, RichFieldsFollow

\* RelocEntryWrapper::getPtr, getForwarder, RichHdrWrapper::getFieldPtr: in every
\* state, also when bytes were edited since the last wrap, an entry of a
\* relocation block is in the file, a forwarder ends in the file, and the fields
\* of the Rich header follow one another in it.
THEOREM PointersStayInFile == Spec => []PointersInFile
<1>1. Spec => []Held
  BY HeldAtFirst, HeldNext, PTL DEF Spec
<1> QED
  BY <1>1, HeldInFile, PTL

-----------------------------------------------------------------------------
(* What is loaded is what the file has *)

\* The entries are loaded to the first that is not there. There is the set of
\* numbers from 0 on for which Ok holds.
Counted(n, max, there) == n \in 0..max /\ (n < max => n \notin there) /\ \A i \in 0..n-1 : i \in there

LEMMA CountedIs ==
    ASSUME NEW max \in Nat, NEW there
    PROVE  \E n : Counted(n, max, there)
<1> DEFINE Bad == {i \in 0..max : i \notin there}
<1>1. PICK n \in 0..max : (n < max => n \in Bad) /\ \A i \in 0..n-1 : i \notin Bad
  <2> HIDE DEF Bad
  <2> QED
    BY FirstStop
<1>2. \A i \in 0..n-1 : i \in 0..max
  OBVIOUS
<1> QED
  BY <1>1, <1>2 DEF Counted

\* Of the first m ids, names has the last one of each ordinal.
LastIds(names, ord, m) ==
    /\ DOMAIN names = {ord[i] : i \in 0..m-1}
    /\ \A o \in DOMAIN names : /\ names[o] \in 0..m-1 /\ ord[names[o]] = o
                               /\ \A i \in 0..m-1 : ord[i] = o => i <= names[o]

LEMMA LastIdsNext ==
    ASSUME NEW names, NEW ord, NEW m \in Nat, LastIds(names, ord, m)
    PROVE  LastIds(Mapped(names, ord[m], m), ord, m + 1)
<1>1. PICK next : next = Mapped(names, ord[m], m)
  OBVIOUS
<1>2. \A i : i \in 0..(m+1)-1 <=> i = m \/ i \in 0..m-1
  OBVIOUS
<1>3. DOMAIN next = {ord[i] : i \in 0..(m+1)-1}
  <2>1. DOMAIN next = DOMAIN names \cup {ord[m]}
    BY <1>1 DEF Mapped
  <2>2. DOMAIN names = {ord[i] : i \in 0..m-1}
    BY DEF LastIds
  <2> QED
    BY <1>2, <2>1, <2>2
<1>4. ASSUME NEW o \in DOMAIN next
      PROVE  /\ next[o] \in 0..(m+1)-1 /\ ord[next[o]] = o
             /\ \A i \in 0..(m+1)-1 : ord[i] = o => i <= next[o]
  <2>1. CASE o = ord[m]
    <3>1. next[o] = m
      BY <1>1, <2>1 DEF Mapped
    <3> QED
      BY <1>2, <2>1, <3>1
  <2>2. CASE o # ord[m]
    <3>1. o \in DOMAIN names /\ next[o] = names[o]
      BY <1>1, <2>2 DEF Mapped
    <3>2. /\ names[o] \in 0..m-1 /\ ord[names[o]] = o
          /\ \A i \in 0..m-1 : ord[i] = o => i <= names[o]
      BY <3>1 DEF LastIds
    <3> QED
      BY <1>2, <2>2, <3>1, <3>2
  <2> QED
    BY <2>1, <2>2
<1> QED
  BY <1>1, <1>3, <1>4 DEF LastIds

\* mapNames: the map that n names were put in one by one.
LEMMA NamesMapped ==
    ASSUME NEW n \in Nat, NEW ord, \A i \in 0..n-1 : ord[i] \in Nat,
           NEW map, map = CHOOSE f : f = [i \in 0..n |-> IF i = 0 THEN <<>> ELSE Mapped(f[i-1], ord[i-1], i - 1)]
    PROVE  LastIds(map[n], ord, n)
<1> DEFINE D == UNION {[S -> Nat] : S \in SUBSET Nat}
           Body(f, i) == IF i = 0 THEN <<>> ELSE Mapped(f[i-1], ord[i-1], i - 1)
           g == [i \in 1..n |-> [names \in D |-> Mapped(names, ord[i-1], i - 1)]]
<1>1. <<>> \in D
  <2>1. <<>> \in [{} -> Nat]
    OBVIOUS
  <2> QED
    BY <2>1
<1>2. ASSUME NEW names \in D, NEW o \in Nat, NEW id \in Nat
      PROVE  Mapped(names, o, id) \in D
  <2>1. PICK S \in SUBSET Nat : names \in [S -> Nat]
    OBVIOUS
  <2>2. Mapped(names, o, id) \in [S \cup {o} -> Nat]
    BY <2>1 DEF Mapped
  <2>3. S \cup {o} \in SUBSET Nat
    OBVIOUS
  <2> QED
    BY <2>2, <2>3
<1> HIDE DEF D
<1>3. g \in [1..n -> [D -> D]]
  <2>1. \A i \in 1..n : ord[i-1] \in Nat /\ i - 1 \in Nat
    OBVIOUS
  <2> QED
    BY <1>2, <2>1
<1>4. PICK f \in [0..n -> D] : Steps(f, n, <<>>, g)
  <2> HIDE DEF g
  <2> QED
    BY <1>1, <1>3, Iterated
<1>5. ASSUME NEW i \in 0..n
      PROVE  f[i] = Body(f, i)
  <2>1. CASE i = 0
    BY <1>4, <2>1 DEF Steps
  <2>2. CASE i # 0
    <3>1. i \in 1..n /\ i - 1 \in 0..n /\ f[i-1] \in D
      BY <2>2
    <3>2. f[i] = g[i][f[i-1]]
      BY <1>4, <3>1 DEF Steps
    <3> QED
      BY <2>2, <3>1, <3>2
  <2> QED
    BY <2>1, <2>2
<1>6. f = [i \in 0..n |-> Body(f, i)]
  <2> HIDE DEF Body
  <2> QED
    BY <1>5
<1>7. map = [i \in 0..n |-> Body(map, i)]
  <2>1. map = CHOOSE h : h = [i \in 0..n |-> Body(h, i)]
    OBVIOUS
  <2> HIDE DEF Body
  <2> QED
    BY <1>6, <2>1
<1> DEFINE S == {i \in 0..n : LastIds(map[i], ord, i)}
<1>8. 0 \in S
  <2>1. map[0] = <<>> /\ DOMAIN <<>> = {}
    <3>1. map[0] = Body(map, 0)
      <4>1. 0 \in 0..n
        OBVIOUS
      <4> HIDE DEF Body
      <4> QED
        BY <1>7, <4>1
    <3> QED
      BY <3>1
  <2>2. LastIds(<<>>, ord, 0)
    BY <2>1 DEF LastIds
  <2> QED
    BY <2>1, <2>2
<1>9. ASSUME NEW i \in 0..n, i < n, i \in S
      PROVE  i + 1 \in S
  <2>1. i + 1 \in 0..n /\ i + 1 # 0 /\ (i + 1) - 1 = i
    BY <1>9
  <2>2. map[i+1] = Mapped(map[i], ord[i], i)
    BY <1>7, <2>1
  <2> QED
    BY <1>9, <2>1, <2>2, LastIdsNext
<1>10. \A i \in 0..n : i \in S
  <2> HIDE DEF S
  <2> QED
    BY <1>8, <1>9, Climb
<1> QED
  BY <1>10

\* Of an export table that has just been loaded.
LEMMA NamesLoaded ==
    ASSUME NEW p, Content(p), NEW old, exports = WrapExports(p, old)
    PROVE  NamesAreLast(p)
<1> DEFINE max == Export(p, "NumberOfNames")
           there == {i \in Nat : NameOrdPtr(p, i) # NoPtr}
           count == CountWhile(max, LAMBDA i : NameOrdPtr(p, i) # NoPtr)
           n == IF exportDir(p) = NoPtr THEN 0 ELSE count
           Ord(i) == Num(p, NameOrdPtr(p, i), 2)
           ord == [i \in Nat |-> Ord(i)]
           read == IF exportDir(p) = NoPtr THEN {}
                   ELSE {i \in 0..p.len : i < max /\ \A j \in 0..i : NameOrdPtr(p, j) # NoPtr}
<1>1. max \in Nat
  BY ExportNat
<1>2. Counted(count, max, there)
  <2> DEFINE Is(m) == (m < max => ~(NameOrdPtr(p, m) # NoPtr)) /\ \A i \in 0..m-1 : NameOrdPtr(p, i) # NoPtr
  <2>1. PICK m : Counted(m, max, there)
    BY <1>1, CountedIs
  <2>2. m \in 0..max /\ Is(m)
    BY <2>1 DEF Counted
  <2>3. count = CHOOSE k \in 0..max : Is(k)
    BY DEF CountWhile
  <2>4. count \in 0..max /\ Is(count)
    <3> HIDE DEF Is, count
    <3> QED
      BY <2>2, <2>3
  <2> HIDE DEF count, max
  <2> QED
    BY <1>1, <2>4 DEF Counted
<1>3. \A i \in Nat : Ord(i) \in Nat
  BY NumNat
<1>4. n \in Nat
  BY <1>1, <1>2 DEF Counted
<1> DEFINE map == CHOOSE f : f = [i \in 0..n |-> IF i = 0 THEN <<>> ELSE Mapped(f[i-1], Ord(i - 1), i - 1)]
<1>5. exports.names = map[n]
  BY DEF WrapExports, MapNames, ClearNames
<1> HIDE DEF max, count, n
<1>6. LastIds(exports.names, ord, n)
  <2>1. \A f : [i \in 0..n |-> IF i = 0 THEN <<>> ELSE Mapped(f[i-1], Ord(i - 1), i - 1)]
             = [i \in 0..n |-> IF i = 0 THEN <<>> ELSE Mapped(f[i-1], ord[i-1], i - 1)]
    <3>1. \A i \in 0..n : i # 0 => i - 1 \in Nat /\ ord[i-1] = Ord(i - 1)
      BY <1>4
    <3> QED
      BY <3>1
  <2>2. map = CHOOSE f : f = [i \in 0..n |-> IF i = 0 THEN <<>> ELSE Mapped(f[i-1], ord[i-1], i - 1)]
    BY <2>1
  <2>3. \A i \in 0..n-1 : ord[i] \in Nat
    BY <1>3, <1>4
  <2> HIDE DEF map, ord
  <2> QED
    BY <1>4, <1>5, <2>2, <2>3, NamesMapped
<1>7. read = 0..n-1
  <2>1. CASE exportDir(p) = NoPtr
    BY <2>1 DEF n
  <2>2. CASE exportDir(p) # NoPtr
    <3>1. /\ n \in 0..max /\ (n < max => NameOrdPtr(p, n) = NoPtr)
          /\ \A i \in 0..n-1 : NameOrdPtr(p, i) # NoPtr
      BY <1>1, <1>2, <2>2 DEF n, Counted
    <3>2. ASSUME NEW i \in Nat, NameOrdPtr(p, i) # NoPtr
          PROVE  i \in 0..p.len
      <4>1. PICK a \in Nat : a = Export(p, "AddressOfNameOrdinals")
        BY ExportNat
      <4>2. ToRaw(p, a + 2 * i) # NoPtr
        BY <3>2, <4>1 DEF NameOrdPtr
      <4>3. a + 2 * i < p.len
        BY <4>2, RawInFile
      <4> QED
        BY <4>1, <4>3 DEF Content
    <3>3. ASSUME NEW i \in 0..n-1
          PROVE  i \in 0..p.len /\ i < max /\ \A j \in 0..i : NameOrdPtr(p, j) # NoPtr
      <4>1. i \in Nat /\ i < max /\ \A j \in 0..i : j \in 0..n-1
        BY <1>1, <3>1
      <4> QED
        BY <3>1, <3>2, <4>1
    <3>4. ASSUME NEW i \in 0..p.len, i < max, \A j \in 0..i : NameOrdPtr(p, j) # NoPtr
          PROVE  i \in 0..n-1
      <4>1. p.len \in Nat
        BY DEF Content
      <4>2. CASE i < n
        BY <1>4, <4>2
      <4>3. CASE ~(i < n)
        <5>1. n \in 0..i /\ n < max
          BY <1>1, <1>4, <3>1, <3>4, <4>3
        <5> QED
          BY <3>1, <3>4, <5>1
      <4> QED
        BY <4>2, <4>3
    <3> QED
      BY <2>2, <3>3, <3>4
  <2> QED
    BY <2>1, <2>2
<1>8. \A i \in 0..n-1 : ord[i] = Ord(i)
  BY <1>4
<1>9. DOMAIN exports.names = {Ord(i) : i \in read}
  BY <1>6, <1>7, <1>8 DEF LastIds
<1>10. ASSUME NEW o \in DOMAIN exports.names
       PROVE  /\ exports.names[o] \in read /\ Ord(exports.names[o]) = o
              /\ \A i \in read : Ord(i) = o => i <= exports.names[o]
  <2>1. /\ exports.names[o] \in 0..n-1 /\ ord[exports.names[o]] = o
        /\ \A i \in 0..n-1 : ord[i] = o => i <= exports.names[o]
    BY <1>6 DEF LastIds
  <2> HIDE DEF Ord, read
  <2> QED
    BY <1>7, <1>8, <2>1
<1>11. ASSUME NEW i \in 0..exports.count-1, FuncName(p, exports, i) # NoPtr
       PROVE  Ord(NameId(exports, i)) = i % 2^16
  <2>1. NameId(exports, i) # NoPtr
    BY <1>11 DEF FuncName, FuncNameRvaPtr
  <2>2. i % 2^16 \in DOMAIN exports.names /\ NameId(exports, i) = exports.names[i % 2^16]
    BY <2>1 DEF NameId
  <2> HIDE DEF Ord
  <2> QED
    BY <1>10, <2>2
<1> QED
  BY <1>9, <1>10, <1>11 DEF NamesAreLast, max

\* Of a relocation directory that has just been loaded.
LEMMA BlocksInPlace ==
    ASSUME NEW p, Content(p), NEW old, relocs = WrapRelocs(p, old)
    PROVE  BlocksTile(p)
<1>1. relocs \in RelocSet(p) /\ Follow(p, relocs) /\ Complete(p, relocs)
  BY RelocsWrapped
<1>2. PICK bs \in Seq(BlockSet(p)) : bs = relocs.blocks
  BY <1>1 DEF RelocSet
<1>3. PICK n \in Nat : n = Len(bs)
  BY <1>2
<1>4. bs = <<>> <=> n = 0
  BY <1>2, <1>3
<1>5. /\ \A k \in 1..n : /\ bs[k].raw = IF k = 1 THEN Reloc(p) ELSE EndOfBlock(p, bs[k-1])
                         /\ k < n => bs[k].valid
      /\ relocs.parsed = IF n = 0 THEN 0 ELSE EndOfBlock(p, bs[n]) - Reloc(p)
  BY <1>1, <1>2, <1>3 DEF Follow
<1>6. NextBlockAt(p, bs) = Reloc(p) + relocs.parsed
  <2>1. Reloc(p) \in Int
    BY RelocInt
  <2>2. CASE n = 0
    BY <1>4, <1>5, <2>1, <2>2 DEF NextBlockAt
  <2>3. CASE n # 0
    <3>1. bs[n] \in BlockSet(p)
      <4> HIDE DEF BlockSet
      <4> QED
        BY <1>2, <1>3, <2>3
    <3>2. PICK raw \in Nat : raw = bs[n].raw
      BY <3>1 DEF BlockSet
    <3>3. PICK s \in Nat : s = SizeOfBlock(p, raw)
      BY BlockSizeNat
    <3>4. NextBlockAt(p, bs) = raw + s /\ EndOfBlock(p, bs[n]) = raw + s
      BY <1>3, <1>4, <2>3, <3>2, <3>3 DEF NextBlockAt, EndOfBlock
    <3> QED
      BY <1>5, <2>1, <2>3, <3>2, <3>3, <3>4
  <2> QED
    BY <2>2, <2>3
<1>7. \/ relocs.parsed >= DirEntrySize(p, BaseReloc)
      \/ n > 0 /\ ~bs[n].valid
      \/ ~InFile(p, Reloc(p) + relocs.parsed, BlockHeader)
      \/ SizeOfBlock(p, Reloc(p) + relocs.parsed) = 0
  BY <1>1, <1>2, <1>3, <1>4, <1>6 DEF Complete
<1>8. relocs.parsed \in Nat /\ DirEntrySize(p, BaseReloc) \in Nat
  BY <1>1, DirEntrySizeNat DEF RelocSet
<1> QED
  BY <1>2, <1>3, <1>5, <1>7, <1>8 DEF BlocksTile, EndOfBlock

\* The size of an entry, 0 where there are none.
LEMMA ExceptionSizes ==
    ASSUME NEW f, IsFile(f)
    PROVE  ExceptionSize(Seen(f)) \in {0, 8, 12}
<1>1. PICK p : p = Seen(f) /\ p.views = Views[f.bits]
  BY SeenIs
<1>2. {"Exception", "ArmException"} \subseteq Wrappers
  BY DEF Wrappers, Directories
<1>3. p.views["Exception"] = View("Exception", f.bits) /\ p.views["ArmException"] = View("ArmException", f.bits)
  BY <1>1, <1>2 DEF Views, IsFile
<1>4. \A struct, names, delta : Shows(struct, names, delta).size = SizeOfMembers(struct, Len(struct))
  BY DEF Shows
<1>5. /\ View("Exception", f.bits) = Shows(IMAGE_IA64_RUNTIME_FUNCTION_ENTRY, ExceptionBlockFID_Intel, ExceptionFieldPtr(FALSE))
      /\ View("ArmException", f.bits) = Shows(ARM_EXCEPT_RECORD, ExceptionBlockFID_Arm64, ExceptionFieldPtr(TRUE))
  BY DEF View
<1>6. SizeOfMembers(IMAGE_IA64_RUNTIME_FUNCTION_ENTRY, Len(IMAGE_IA64_RUNTIME_FUNCTION_ENTRY)) = 12
  <2>1. Len(IMAGE_IA64_RUNTIME_FUNCTION_ENTRY) = 3 /\ \A k \in 1..3 : IMAGE_IA64_RUNTIME_FUNCTION_ENTRY[k][2] = 4
    BY DEF IMAGE_IA64_RUNTIME_FUNCTION_ENTRY, Of
  <2> QED
    BY <2>1, Sum3
<1>7. SizeOfMembers(ARM_EXCEPT_RECORD, Len(ARM_EXCEPT_RECORD)) = 8
  <2>1. Len(ARM_EXCEPT_RECORD) = 2 /\ \A k \in 1..2 : ARM_EXCEPT_RECORD[k][2] = 4
    BY DEF ARM_EXCEPT_RECORD, Of
  <2> QED
    BY <2>1, Sum2
<1> QED
  BY <1>1, <1>3, <1>4, <1>5, <1>6, <1>7 DEF ExceptionSize

\* Of an exception table that has just been loaded.
LEMMA ExceptionsLoaded ==
    ASSUME NEW p, Content(p), ExceptionSize(p) \in {0, 8, 12}, exceptions = WrapExceptions(p)
    PROVE  ExceptionsFill(p)
<1>1. PICK size \in {0, 8, 12} : size = ExceptionSize(p)
  OBVIOUS
<1>2. PICK des \in Nat : des = DirEntrySize(p, Directories["Exception"])
  BY DirEntrySizeNat
<1>3. PICK max \in Nat : max = IF size = 0 THEN 0 ELSE (des + size - 1) \div size
  OBVIOUS
<1> DEFINE there == {i \in Nat : ExceptionPtr(p, i) # NoPtr}
           Is(m) == (m < max => ~(ExceptionPtr(p, m) # NoPtr)) /\ \A i \in 0..m-1 : ExceptionPtr(p, i) # NoPtr
           n == CHOOSE k \in 0..max : Is(k)
<1>4. exceptions = [parsed |-> n * size, count |-> n]
  BY <1>1, <1>2, <1>3 DEF WrapExceptions, CountWhile
<1>5. n \in 0..max /\ Is(n)
  <2>1. PICK m : Counted(m, max, there)
    BY CountedIs
  <2>2. m \in 0..max /\ Is(m)
    BY <2>1 DEF Counted
  <2> HIDE DEF Is
  <2> QED
    BY <2>2
<1> HIDE DEF n
<1>6. CASE size = 0
  BY <1>3, <1>4, <1>5, <1>6 DEF ExceptionsFill
<1>7. CASE size # 0
  <2>1. PICK first : first = IF IsIntel(p) THEN firstException(p, "Exception") ELSE firstException(p, "ArmException")
    OBVIOUS
  <2>2. \A i : ExceptionPtr(p, i) = IF first # NoPtr /\ InFile(p, first + i * size, size) THEN first + i * size ELSE NoPtr
    BY <1>1, <2>1 DEF ExceptionPtr
  <2> SUFFICES ASSUME n > 0
               PROVE  /\ n * size - size < des
                      /\ n * size >= des \/ ExceptionPtr(p, 0) + n * size + size > p.len
    BY <1>1, <1>2, <1>4 DEF ExceptionsFill
  <2>3. p.len \in Nat
    BY DEF Content
  <2>4. first \in Nat /\ ExceptionPtr(p, 0) = first
    <3>1. ExceptionPtr(p, 0) # NoPtr
      BY <1>5
    <3>2. PICK raw : raw = ToRaw(p, p.dirs[Directories["Exception"]])
      OBVIOUS
    <3>3. Directories["ArmException"] = Directories["Exception"]
      BY DEF Directories
    <3>4. first \in {raw, NoPtr}
      BY <2>1, <3>2, <3>3 DEF firstException, AtRva
    <3>5. first \in Nat
      BY <2>2, <3>1, <3>2, <3>4, RawInFile
    <3> QED
      BY <2>2, <3>1, <3>5
  <2>5. n * size - size < des
    BY <1>3, <1>5, <1>7
  <2>6. n = max => n * size >= des
    BY <1>3, <1>7
  <2>7. n < max => first + n * size + size > p.len
    <3>1. SUFFICES ASSUME n < max
                   PROVE  first + n * size + size > p.len
      OBVIOUS
    <3>2. ~InFile(p, first + n * size, size)
      <4>1. ExceptionPtr(p, n) = NoPtr
        BY <1>5, <3>1
      <4>2. PICK at \in Nat : at = first + n * size
        BY <1>5, <2>4
      <4> QED
        BY <2>2, <2>4, <4>1, <4>2 DEF NoPtr
    <3>3. PICK at \in Nat : at = first + n * size
      BY <1>5, <2>4
    <3> QED
      BY <1>7, <2>3, <3>2, <3>3 DEF InFile
  <2> QED
    BY <1>5, <2>4, <2>5, <2>6, <2>7
<1> QED
  BY <1>6, <1>7

\* What was loaded at the last wrap, as long as nothing was edited.
Current ==
    fresh => /\ \E old : exports = WrapExports(pe, old)
             /\ \E old : relocs = WrapRelocs(pe, old)
             /\ exceptions = WrapExceptions(pe)

LEMMA CurrentAtFirst == Init => Current
  BY DEF Init, Current

LEMMA CurrentNext == Current /\ [Next]_vars => Current'
<1> SUFFICES ASSUME Current, [Next]_vars
             PROVE  Current'
  OBVIOUS
<1>1. ASSUME NEW f, Wrap(f)
      PROVE  Current'
  BY <1>1 DEF Wrap, Current, pe
<1>2. CASE Rewrap
  BY <1>1, <1>2 DEF Rewrap
<1>3. ASSUME NEW n \in Lengths, Resize(n)
      PROVE  Current'
  BY <1>1, <1>3 DEF Resize
<1>4. ASSUME NEW e \in Edits, SetNumValue(e[1], e[2], e[3])
      PROVE  Current'
  BY <1>4 DEF SetNumValue, Current
<1>5. CASE GetRich
  BY <1>5 DEF GetRich, Current, pe
<1>6. CASE UNCHANGED vars
  BY <1>6 DEF vars, Current, pe
<1> QED
  BY <1>2, <1>3, <1>4, <1>5, <1>6 DEF Next

LEMMA CurrentIs == Held /\ Current => DirsCurrent
<1> SUFFICES ASSUME Held, Current, fresh
             PROVE  NamesAreLast(pe) /\ BlocksTile(pe) /\ ExceptionsFill(pe)
  BY DEF DirsCurrent
<1>1. Content(pe)
  BY SeenIs DEF Held, pe
<1>2. ExceptionSize(pe) \in {0, 8, 12}
  BY ExceptionSizes DEF Held, pe
<1> QED
  BY <1>1, <1>2, NamesLoaded, BlocksInPlace, ExceptionsLoaded DEF Current

\* PEFile::wrapDataDirs: after a wrap, the names that the exports have, the blocks
\* of the relocations and the exceptions are those of the file, whatever the
\* wrappers had before and however the file was edited or resized.
THEOREM DirsStayCurrent == Spec => []DirsCurrent
<1>1. Spec => []Held
  BY HeldAtFirst, HeldNext, PTL DEF Spec
<1>2. Spec => []Current
  BY CurrentAtFirst, CurrentNext, PTL DEF Spec
<1> QED
  BY <1>1, <1>2, CurrentIs, PTL

================================================================================
