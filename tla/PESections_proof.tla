--------------------------- MODULE PESections_proof ---------------------------
(***************************************************************************)
(* Proofs about PESections, for every size of the table, every alignment   *)
(* and every file, and about PEThreads, for any number of threads besides. *)
(* Arithmetic lemmas come first, then type correctness, the entries that   *)
(* are loaded, the order of the sections, and that PESections implements   *)
(* SectionTable. The second part is about the ordered maps and the         *)
(* conversions built on them, for every file whose sections are aligned as *)
(* the PE format asks for: what the maps hold, that they do not depend on  *)
(* how they were built, that every section is found, and that rawToRva and *)
(* rvaToRaw invert each other between edits. The third part is about       *)
(* PEThreads: the two locks exclude one another's parts, readers see whole *)
(* maps, and what is left when all calls are over is what a wrap of the    *)
(* file would load. The calls of a single thread implement SectionTable.   *)
(***************************************************************************)
EXTENDS PEThreads, WellFoundedInduction, TLAPS
LOCAL INSTANCE FiniteSetsExt

(* Rounding and the slots of the table *)

\* buf_util::roundupToUnit never goes below the size, for a valid unit.
LEMMA RoundUpNat ==
    ASSUME NEW size \in Nat, NEW unit \in Nat
    PROVE  /\ RoundUp(size, unit) \in Nat
           /\ unit # 0 => RoundUp(size, unit) >= size
<1>1. CASE unit = 0
  BY <1>1 DEF RoundUp
<1>2. CASE unit # 0
  <2> DEFINE q == size \div unit
  <2>1. q \in Nat /\ size = unit * q + (size % unit) /\ (size % unit) \in 0..unit-1
    BY <1>2
  <2>2. q * unit \in Nat /\ (q + 1) * unit = q * unit + unit
    BY <2>1
  <2>3. RoundUp(size, unit) = IF q * unit < size THEN (q + 1) * unit ELSE q * unit
    BY <1>2 DEF RoundUp
  <2> HIDE DEF q
  <2>4. size < q * unit + unit
    BY <2>1, <2>2
  <2> QED
    BY <2>2, <2>3, <2>4
<1> QED
  BY <1>1, <1>2

\* The slots that are counted are those that lie in the file.
LEMMA SlotsCounted ==
    ASSUME NEW s \in Nat \ {0}, NEW fs \in Nat
    PROVE  /\ SlotsInFile(fs) \in Nat
           /\ s <= SlotsInFile(fs) <=> SlotInFile(s, fs)
<1> USE TableAssumption
<1>1. CASE fs < SecTblOff
  <2>1. s * HdrLen \in Nat
    OBVIOUS
  <2> QED
    BY <1>1, <2>1 DEF SlotsInFile, SlotInFile
<1>2. CASE ~(fs < SecTblOff)
  <2> DEFINE d == fs - SecTblOff
             q == d \div HdrLen
  <2>1. d \in Nat
    BY <1>2
  <2>2. q \in Nat /\ d = HdrLen * q + (d % HdrLen) /\ (d % HdrLen) \in 0..HdrLen-1
    BY <2>1
  <2>3. SlotsInFile(fs) = q
    BY <1>2 DEF SlotsInFile
  <2>4. SlotInFile(s, fs) <=> s * HdrLen <= d
    BY <1>2 DEF SlotInFile
  <2> HIDE DEF d, q
  <2>5. ASSUME s <= q PROVE s * HdrLen <= d
    <3>1. (q - s) * HdrLen >= 0 /\ q * HdrLen = s * HdrLen + (q - s) * HdrLen
      BY <2>2, <2>5
    <3> QED
      BY <2>1, <2>2, <3>1
  <2>6. ASSUME ~(s <= q) PROVE ~(s * HdrLen <= d)
    <3>1. s - q - 1 \in Nat
      BY <2>2, <2>6
    <3>2. (s - q - 1) * HdrLen >= 0 /\ s * HdrLen = q * HdrLen + HdrLen + (s - q - 1) * HdrLen
      BY <2>2, <3>1
    <3> QED
      BY <2>1, <2>2, <3>2
  <2> QED
    BY <2>2, <2>3, <2>4, <2>5, <2>6
<1> QED
  BY <1>1, <1>2

\* How many entries SectHdrsWrapper::wrap loads.
LEMMA LoadCountBounds ==
    ASSUME NEW num \in Nat, NEW fs \in Nat
    PROVE  /\ LoadCount(num, fs) \in 0..Slots
           /\ LoadCount(num, fs) <= num /\ LoadCount(num, fs) <= SecMax
           /\ LoadCount(num, fs) <= SlotsInFile(fs)
           /\ LoadCount(num, fs) \in {num, SecMax, SlotsInFile(fs), Slots}
  BY SlotsCounted, TableAssumption DEF LoadCount, Least

\* Cutting the table at the end of the file leaves the loaded headers alone.
LEMMA CutKeepsLoaded ==
    ASSUME NEW t \in [1..Slots -> DWHeader], NEW num \in Nat, NEW fs \in Nat,
           NEW i \in 1..LoadCount(num, fs)
    PROVE  CutTable(t, fs)[i] = t[i]
<1> DEFINE n == LoadCount(num, fs)
<1>1. n \in 0..Slots /\ n <= SlotsInFile(fs) /\ SlotsInFile(fs) \in Nat
  BY LoadCountBounds, SlotsCounted
<1>2. i \in Nat \ {0} /\ i \in 1..Slots /\ i <= SlotsInFile(fs)
  BY <1>1, TableAssumption
<1>3. SlotInFile(i, fs)
  BY <1>2, SlotsCounted
<1> QED
  BY <1>2, <1>3 DEF CutTable

-----------------------------------------------------------------------------
(* Type correctness *)

MappedType ==
    [im : [tbl : [1..Slots -> DWHeader], n : 0..Slots, fs : 1..MaxFile, img : 0..MaxImage],
     mode : {"first", "rewrap", "reload"}]

LEMMA CutTyped ==
    ASSUME NEW t \in [1..Slots -> DWHeader], NEW fs \in Nat
    PROVE  CutTable(t, fs) \in [1..Slots -> DWHeader]
<1>1. ZeroHdr \in DWHeader
  BY TableAssumption DEF ZeroHdr, DWHeader, DWord
<1> QED
  BY <1>1 DEF CutTable

\* Reading the table again, from any table, file length and image size.
LEMMA WrapTyped ==
    ASSUME NEW t \in [1..Slots -> DWHeader], NEW num \in Nat,
           NEW fs \in 1..MaxFile, NEW img \in 0..MaxImage,
           WrapAfter(t, num, fs, img)
    PROVE  /\ tbl' \in [1..Slots -> DWHeader]
           /\ tbl' = CutTable(t, fs)
           /\ loaded' = LoadCount(num, fs)
           /\ loaded' \in 0..Slots
           /\ mapped' \in MappedType
<1>2. CutTable(t, fs) \in [1..Slots -> DWHeader]
  BY CutTyped
<1>3. LoadCount(num, fs) \in 0..Slots
  BY LoadCountBounds, TableAssumption
<1> QED
  BY <1>2, <1>3 DEF WrapAfter, ImageOf, MappedType

\* The header addNewSection pastes, and what it writes to SizeOfImage.
LEMMA NewHeaderTyped ==
    ASSUME TypeOK, NEW r \in RawSizes, NEW v \in VirtSizes, AddBounded(r, v)
    PROVE  /\ r \in DWord /\ v \in DWord
           /\ RawEnd \in Nat /\ VirtEnd \in Nat
           /\ VirtArg(r, v) \in DWord
           /\ RawEnd + r \in 0..MaxFile
           /\ VirtEnd + VirtArg(r, v) \in 0..MaxImage
           /\ NewHeader(r, v) \in DWHeader
<1>1. r \in DWord /\ v \in DWord /\ VirtArg(r, v) \in DWord
  BY TableAssumption DEF VirtArg
<1>2. fileSize \in Nat /\ MappedSize(imgSize) \in Nat
  BY TableAssumption, LayoutAssumption DEF TypeOK, MappedSize, Greatest
<1>3. RawEnd \in Nat /\ VirtEnd \in Nat
  BY <1>2, RoundUpNat, LayoutAssumption DEF RawEnd, VirtEnd
<1>4. RawEnd + r \in 0..MaxFile /\ VirtEnd + VirtArg(r, v) \in 0..MaxImage
  BY <1>1, <1>3, TableAssumption DEF AddBounded, DWord
<1>5. RawEnd \in DWord /\ VirtEnd \in DWord
  BY <1>1, <1>3, <1>4, TableAssumption DEF DWord
<1> QED
  BY <1>1, <1>3, <1>4, <1>5 DEF NewHeader, DWHeader

\* The last header after an extension: 64-bit differences cut to a DWORD.
LEMMA ExtendedTyped ==
    ASSUME NEW h \in DWHeader, NEW newSize \in Nat
    PROVE  Extended(h, newSize) \in DWHeader
<1>1. DW \in Nat \ {0} /\ h.rp \in Int /\ h.vs \in DWord
  BY TableAssumption DEF DWHeader, DWord
<1>2. newSize - h.rp \in Int
  BY <1>1
<1>3. ((newSize - h.rp) % DW) \in DWord
  BY <1>1, <1>2 DEF DWord
<1> QED
  BY <1>1, <1>3 DEF Extended, DWHeader

\* The first locked part of extendLastSection: the difference of two file sizes,
\* below zero if the section starts behind the end, becomes a size in memory.
LEMMA ExtendBeginTyped ==
    ASSUME TypeOK, NEW a \in Nat, BeginExtend(fileSize + a)
    PROVE  /\ fileSize + a \in 1..MaxFile
           /\ imgSize' \in 0..MaxImage
           /\ loaded \in 1..Slots /\ tbl[loaded] \in DWHeader
           /\ ExtendedTable(fileSize + a) \in [1..Slots -> DWHeader]
<1> USE TableAssumption
<1> DEFINE newSize == fileSize + a
           rs == newSize - tbl[loaded].rp
<1>t. /\ tbl \in [1..Slots -> DWHeader] /\ fileSize \in 1..MaxFile
      /\ imgSize \in 0..MaxImage /\ loaded \in 0..Slots
  BY DEF TypeOK
<1>1. newSize \in 1..MaxFile /\ loaded \in 1..Slots /\ newSize \in Nat
  BY <1>t DEF BeginExtend, ExtendBounded
<1>2. tbl[loaded] \in DWHeader /\ tbl[loaded].rp \in Nat /\ tbl[loaded].va \in Nat
  BY <1>t, <1>1 DEF DWHeader, DWord
<1>3. DW \in Nat \ {0} /\ rs \in Int /\ tbl[loaded].va + rs \in Int
  BY <1>1, <1>2
<1>4. ImageExtended(tbl[loaded], newSize) \in Nat
  <2> HIDE DEF newSize
  <2>1. ((tbl[loaded].va + rs) % DW) \in Nat
    BY <1>3
  <2> QED
    BY <1>t, <2>1 DEF ImageExtended, rs
<1>5. imgSize' \in 0..MaxImage
  BY <1>4 DEF BeginExtend, ExtendBounded
<1>6. Extended(tbl[loaded], newSize) \in DWHeader
  BY <1>1, <1>2, ExtendedTyped
<1> HIDE DEF newSize
<1>7. ExtendedTable(newSize) \in [1..Slots -> DWHeader]
  BY <1>t, <1>1, <1>6 DEF ExtendedTable
<1> QED
  BY <1>1, <1>2, <1>5, <1>7 DEF newSize

LEMMA InitTyped == Init => TypeOK
<1> SUFFICES ASSUME NEW im \in InitImages, Open(im)
             PROVE  TypeOK
  BY DEF Init
<1>1. /\ im.tbl \in [1..Slots -> DWHeader] /\ im.num \in 0..WW-1 /\ im.num \in Nat
      /\ im.fs \in 1..MaxFile /\ im.img \in 0..MaxImage
  BY InitAssumption, TableAssumption DEF Image
<1>2. LoadCount(im.num, im.fs) \in 0..Slots
  BY <1>1, LoadCountBounds, TableAssumption
<1> QED
  BY <1>1, <1>2 DEF Open, TypeOK, ImageOf, NoRet, NoSec

\* One step for each action: what TypeOK says of the next state.
LEMMA StepTyped == TypeOK /\ [Next]_vars => TypeOK'
<1> SUFFICES ASSUME TypeOK, [Next]_vars
             PROVE  TypeOK'
  OBVIOUS
<1> USE TableAssumption
<1>t. /\ tbl \in [1..Slots -> DWHeader] /\ secNum \in 0..WW-1 /\ secNum \in Nat /\ fileSize \in 1..MaxFile
      /\ imgSize \in 0..MaxImage /\ loaded \in 0..Slots /\ mapped \in MappedType
      /\ ret \in [op : {"none", "add", "extend"}, sec : Nat, got : Nat] /\ torn \in BOOLEAN
  BY DEF TypeOK, MappedType
<1>b. NoteTorn => torn' \in BOOLEAN
  BY DEF NoteTorn
<1>1. ASSUME NEW r \in RawSizes, NEW v \in VirtSizes, AddNewSection(r, v)
      PROVE  TypeOK'
  <2> DEFINE newSize == RawEnd + r
             cut     == CutTable(tbl, newSize)
             n       == LoadCount(secNum, newSize)
  <2>1. AddBounded(r, v) /\ imgSize' = VirtEnd + VirtArg(r, v)
    BY <1>1 DEF AddNewSection, BeginAdd
  <2>2. newSize \in 1..MaxFile /\ imgSize' \in 0..MaxImage /\ NewHeader(r, v) \in DWHeader
    BY <1>1, <2>1, NewHeaderTyped DEF AddNewSection
  <2>3. fileSize' = newSize /\ NoteTorn
    BY <1>1 DEF AddNewSection
  <2>n. newSize \in Nat /\ secNum \in Nat
    BY <1>t, <2>2
  <2>4. n \in 0..Slots
    BY <2>n, LoadCountBounds
  <2>5. cut \in [1..Slots -> DWHeader]
    BY <1>t, <2>n, CutTyped
  <2> HIDE DEF newSize, cut, n
  <2>6. CASE CanAddEntry(cut, n, newSize)
    <3>1. PasteHeader(cut, n, NewHeader(r, v)) /\ ret' = [op |-> "add", sec |-> n + 1, got |-> n + 1]
      BY <1>1, <2>6 DEF AddNewSection, newSize, cut, n
    <3>2. n + 1 \in 1..Slots
      BY <2>4, <2>6 DEF CanAddEntry
    <3>3. tbl' \in [1..Slots -> DWHeader] /\ loaded' \in 0..Slots
      BY <1>t, <2>2, <2>5, <3>1, <3>2 DEF PasteHeader
    <3>6. secNum' \in 0..WW-1
      <4>1. secNum + 1 \in Nat /\ WW \in Nat \ {0}
        BY <1>t
      <4>2. ((secNum + 1) % WW) \in 0..WW-1
        BY <4>1
      <4> QED
        BY <3>1, <4>2 DEF PasteHeader
    <3>4. mapped' \in MappedType
      BY <2>2, <2>3, <3>1, <3>2, <3>3 DEF PasteHeader, ImageOf, MappedType
    <3>5. ret' \in [op : {"none", "add", "extend"}, sec : Nat, got : Nat]
      BY <3>1, <3>2
    <3> QED
      BY <1>b, <2>2, <2>3, <3>3, <3>4, <3>5, <3>6 DEF TypeOK, MappedType
  <2>7. CASE ~CanAddEntry(cut, n, newSize)
    <3>1. /\ WrapAfter(tbl, secNum, newSize, imgSize')
          /\ ret' = [op |-> "add", sec |-> n + 1, got |-> NoSec]
          /\ secNum' = secNum
      BY <1>1, <2>7 DEF AddNewSection, newSize, cut, n
    <3>2. tbl' \in [1..Slots -> DWHeader] /\ loaded' \in 0..Slots /\ mapped' \in MappedType
      BY <1>t, <2>2, <3>1, WrapTyped
    <3>3. ret' \in [op : {"none", "add", "extend"}, sec : Nat, got : Nat]
      BY <2>4, <3>1 DEF NoSec
    <3> QED
      BY <1>t, <1>b, <2>2, <2>3, <3>1, <3>2, <3>3 DEF TypeOK, MappedType
  <2> QED
    BY <2>6, <2>7
<1>2. ASSUME NEW r \in RawSizes, NEW v \in VirtSizes, AddNewSectionFails(r, v)
      PROVE  TypeOK'
  <2>1. AddBounded(r, v) /\ imgSize' = VirtEnd + VirtArg(r, v)
    BY <1>2 DEF AddNewSectionFails, BeginAdd
  <2>2. imgSize' \in 0..MaxImage
    BY <2>1, NewHeaderTyped
  <2>3. ret' \in [op : {"none", "add", "extend"}, sec : Nat, got : Nat]
    BY <1>2, <1>t DEF AddNewSectionFails, NoSec
  <2> QED
    BY <1>2, <1>t, <2>2, <2>3 DEF AddNewSectionFails, TypeOK, MappedType
<1>3. ASSUME NEW a \in Growths, ExtendLastSection(a)
      PROVE  TypeOK'
  <2>1. /\ BeginExtend(fileSize + a) /\ fileSize' = fileSize + a
        /\ WrapAfter(ExtendedTable(fileSize + a), secNum, fileSize + a, imgSize')
        /\ ret' = [op |-> "extend", sec |-> loaded, got |-> loaded']
        /\ secNum' = secNum /\ NoteTorn
    BY <1>3 DEF ExtendLastSection
  <2>2. /\ fileSize + a \in 1..MaxFile /\ imgSize' \in 0..MaxImage
        /\ ExtendedTable(fileSize + a) \in [1..Slots -> DWHeader]
    BY <1>t, <2>1, ExtendBeginTyped
  <2>3. tbl' \in [1..Slots -> DWHeader] /\ loaded' \in 0..Slots /\ mapped' \in MappedType
    BY <1>t, <2>1, <2>2, WrapTyped
  <2>4. ret' \in [op : {"none", "add", "extend"}, sec : Nat, got : Nat]
    BY <1>t, <2>1, <2>3
  <2> QED
    BY <1>t, <1>b, <2>1, <2>2, <2>3, <2>4 DEF TypeOK, MappedType
<1>4. ASSUME NEW a \in Growths, ExtendLastSectionFails(a)
      PROVE  TypeOK'
  <2>1. /\ BeginExtend(fileSize + a) /\ tbl' = ExtendedTable(fileSize + a)
        /\ ret' = [op |-> "extend", sec |-> loaded, got |-> loaded]
        /\ UNCHANGED <<secNum, fileSize, loaded, mapped>> /\ NoteTorn
    BY <1>4 DEF ExtendLastSectionFails
  <2>2. imgSize' \in 0..MaxImage /\ ExtendedTable(fileSize + a) \in [1..Slots -> DWHeader]
    BY <1>t, <2>1, ExtendBeginTyped
  <2> QED
    BY <1>t, <1>b, <2>1, <2>2 DEF TypeOK, MappedType
<1>5. ASSUME NEW fs \in FileSizes, Resize(fs)
      PROVE  TypeOK'
  <2>1. /\ fs \in 1..MaxFile /\ fileSize' = fs /\ WrapAfter(tbl, secNum, fs, imgSize)
        /\ ret' = NoRet /\ UNCHANGED <<secNum, imgSize>> /\ NoteTorn
    BY <1>5 DEF Resize
  <2>2. tbl' \in [1..Slots -> DWHeader] /\ loaded' \in 0..Slots /\ mapped' \in MappedType
    BY <1>t, <2>1, WrapTyped
  <2> QED
    BY <1>t, <1>b, <2>1, <2>2 DEF TypeOK, MappedType, NoRet, NoSec
<1>6. CASE Rewrap
  <2>1. tbl' \in [1..Slots -> DWHeader] /\ loaded' \in 0..Slots /\ mapped' \in MappedType
    BY <1>6, <1>t, WrapTyped DEF Rewrap
  <2> QED
    BY <1>6, <1>t, <2>1 DEF Rewrap, TypeOK, MappedType, NoRet, NoSec
<1>7. CASE UNCHANGED vars
  BY <1>7 DEF vars, TypeOK
<1> QED
  BY <1>1, <1>2, <1>3, <1>4, <1>5, <1>6, <1>7 DEF Next, Add, Extend

\* Type correctness of the section table editor: in particular every size that
\* extendLastSection computes in 64 bits, below zero after a shrink, fits the
\* DWORDs of the header it is stored in.
THEOREM TypeCorrect == Spec => []TypeOK
<1>1. Init => TypeOK
  BY InitTyped
<1>2. TypeOK /\ [Next]_vars => TypeOK'
  BY StepTyped
<1> QED
  BY <1>1, <1>2, PTL DEF Spec

-----------------------------------------------------------------------------
(* The entries are what a wrap would load *)

\* addEntry after a wrap: the new entry is the next one that a wrap would load.
LEMMA AddedIsLoaded ==
    ASSUME NEW num \in Nat, NEW fs \in Nat, NEW t,
           CanAddEntry(t, LoadCount(num, fs), fs), LoadCount(num, fs) + 1 <= SecMax
    PROVE  /\ LoadCount(num, fs) = num /\ (num + 1) % WW = num + 1
           /\ LoadCount(num + 1, fs) = num + 1
<1> DEFINE n == LoadCount(num, fs)
           q == SlotsInFile(fs)
<1>1. n \in Nat /\ q \in Nat /\ SlotInFile(n + 1, fs)
  BY LoadCountBounds, SlotsCounted, TableAssumption DEF CanAddEntry
<1>2. n + 1 <= q
  BY <1>1, SlotsCounted
<1>3. n < Slots /\ n < SecMax
  BY LoadCountBounds, TableAssumption DEF CanAddEntry
<1>4. n = num
  BY <1>1, <1>2, <1>3, TableAssumption DEF LoadCount, Least
<1>5. LoadCount(num + 1, fs) = num + 1
  BY <1>1, <1>2, <1>3, <1>4, TableAssumption DEF LoadCount, Least
<1>6. (num + 1) % WW = num + 1
  <2>1. num + 1 < WW /\ num + 1 \in Nat /\ WW \in Nat
    BY <1>3, <1>4, TableAssumption
  <2> QED
    BY <2>1
<1> QED
  BY <1>4, <1>5, <1>6

LEMMA LoadedIsWrapStep == TypeOK /\ LoadedIsWrap /\ [Next]_vars => LoadedIsWrap'
<1> SUFFICES ASSUME TypeOK, LoadedIsWrap, [Next]_vars
             PROVE  LoadedIsWrap'
  OBVIOUS
<1>t. secNum \in Nat /\ fileSize \in Nat
  BY TableAssumption DEF TypeOK
<1>1. ASSUME NEW r \in RawSizes, NEW v \in VirtSizes, AddNewSection(r, v)
      PROVE  LoadedIsWrap'
  <2> DEFINE newSize == RawEnd + r
             cut     == CutTable(tbl, newSize)
             n       == LoadCount(secNum, newSize)
  <2>1. newSize \in Nat /\ fileSize' = newSize
    BY <1>1, NewHeaderTyped, TableAssumption DEF AddNewSection, BeginAdd
  <2>2. \/ CanAddEntry(cut, n, newSize) /\ loaded' = n + 1 /\ secNum' = (secNum + 1) % WW
        \/ loaded' = n /\ secNum' = secNum
    BY <1>1 DEF AddNewSection, PasteHeader, WrapAfter
  <2> HIDE DEF newSize, cut
  <2>3. CASE CanAddEntry(cut, n, newSize) /\ loaded' = n + 1 /\ secNum' = (secNum + 1) % WW
    BY <1>t, <2>1, <2>3, AddedIsLoaded DEF LoadedIsWrap
  <2>4. CASE loaded' = n /\ secNum' = secNum
    BY <2>1, <2>4 DEF LoadedIsWrap
  <2> QED
    BY <2>2, <2>3, <2>4
<1>2. ASSUME NEW r \in RawSizes, NEW v \in VirtSizes, AddNewSectionFails(r, v)
      PROVE  LoadedIsWrap'
  BY <1>2 DEF AddNewSectionFails, LoadedIsWrap
<1>3. ASSUME NEW a \in Growths, ExtendLastSection(a)
      PROVE  LoadedIsWrap'
  BY <1>3 DEF ExtendLastSection, WrapAfter, LoadedIsWrap
<1>4. ASSUME NEW a \in Growths, ExtendLastSectionFails(a)
      PROVE  LoadedIsWrap'
  BY <1>4 DEF ExtendLastSectionFails, LoadedIsWrap
<1>5. ASSUME NEW fs \in FileSizes, Resize(fs)
      PROVE  LoadedIsWrap'
  BY <1>5 DEF Resize, WrapAfter, LoadedIsWrap
<1>6. CASE Rewrap
  BY <1>6 DEF Rewrap, WrapAfter, LoadedIsWrap
<1>7. CASE UNCHANGED vars
  BY <1>7 DEF vars, LoadedIsWrap
<1> QED
  BY <1>1, <1>2, <1>3, <1>4, <1>5, <1>6, <1>7 DEF Next, Add, Extend

\* Counting the entries by hand in addEntry never drifts from what a fresh wrap
\* of the same file loads, for files with any alignment and any count.
THEOREM EntriesAreWrapped == Spec => []LoadedIsWrap
<1>1. Init => TypeOK /\ LoadedIsWrap
  <2>1. Init => LoadedIsWrap
    BY DEF Init, Open, LoadedIsWrap
  <2> QED
    BY <2>1, InitTyped
<1>2. TypeOK /\ LoadedIsWrap /\ [Next]_vars => TypeOK' /\ LoadedIsWrap'
  BY StepTyped, LoadedIsWrapStep
<1> QED
  BY <1>1, <1>2, PTL DEF Spec

-----------------------------------------------------------------------------
(* The limit of sections *)

\* Files that are opened do not count more sections than SECT_COUNT_MAX.
CountsLegal == \A im \in InitImages : im.num <= SecMax

\* The test secNum # SecMax is enough only while the count is not above the limit.
WithinLimit == TypeOK /\ secNum <= SecMax /\ loaded <= SecMax

\* No operation loads more sections than are counted in the file, but the one
\* that addEntry puts behind them.
LEMMA WithinLimitStep == WithinLimit /\ [Next]_vars => WithinLimit'
<1> SUFFICES ASSUME WithinLimit, [Next]_vars
             PROVE  secNum' <= SecMax /\ loaded' <= SecMax
  BY StepTyped DEF WithinLimit
<1> USE TableAssumption
<1>k. TypeOK /\ TypeOK' /\ secNum <= SecMax /\ loaded <= SecMax
  BY StepTyped DEF WithinLimit
<1>t. /\ secNum \in Nat /\ loaded \in Nat /\ fileSize' \in Nat
      /\ secNum <= SecMax /\ loaded <= SecMax
  BY <1>k DEF TypeOK
<1>1. ASSUME NEW r \in RawSizes, NEW v \in VirtSizes, AddNewSection(r, v)
      PROVE  secNum' <= SecMax /\ loaded' <= SecMax
  <2> DEFINE n == LoadCount(secNum, fileSize')
  <2>0. secNum # SecMax
    BY <1>1 DEF AddNewSection, BeginAdd, AddAccepted, CanAddNewSection
  <2>1. n \in Nat /\ n <= secNum /\ n <= SecMax /\ secNum # SecMax
    <3>1. n \in 0..Slots /\ n <= secNum /\ n <= SecMax
      BY <1>t, LoadCountBounds
    <3> HIDE DEF n
    <3> QED
      BY <2>0, <3>1
  <2>2. \/ loaded' = n + 1 /\ secNum' = (secNum + 1) % WW
        \/ loaded' = n /\ secNum' = secNum
    BY <1>1 DEF AddNewSection, PasteHeader, WrapAfter
  <2> HIDE DEF n
  <2>3. secNum + 1 < WW /\ (secNum + 1) % WW = secNum + 1
    BY <1>t, <2>1
  <2> QED
    BY <1>t, <2>1, <2>2, <2>3
<1>2. ASSUME \/ \E r \in RawSizes, v \in VirtSizes : AddNewSectionFails(r, v)
             \/ \E a \in Growths : ExtendLastSectionFails(a)
             \/ UNCHANGED vars
      PROVE  secNum' <= SecMax /\ loaded' <= SecMax
  BY <1>2, <1>t DEF AddNewSectionFails, ExtendLastSectionFails, vars
<1>3. ASSUME \/ \E a \in Growths : ExtendLastSection(a)
             \/ \E fs \in FileSizes : Resize(fs)
             \/ Rewrap
      PROVE  secNum' <= SecMax /\ loaded' <= SecMax
  <2>1. secNum' = secNum /\ loaded' = LoadCount(secNum, fileSize')
    BY <1>3 DEF ExtendLastSection, Resize, Rewrap, WrapAfter
  <2> QED
    BY <1>t, <2>1, LoadCountBounds
<1> QED
  BY <1>1, <1>2, <1>3 DEF Next, Add, Extend

\* SECT_COUNT_MAX is never exceeded, although it is tested with == on a count
\* that is raised by hand.
THEOREM LimitKept ==
    ASSUME CountsLegal
    PROVE  Spec => []SectionLimit
<1>1. Init => WithinLimit
  <2> SUFFICES ASSUME NEW im \in InitImages, Open(im)
               PROVE  secNum <= SecMax /\ loaded <= SecMax
    BY InitTyped DEF Init, WithinLimit
  <2>1. im.num \in Nat /\ im.fs \in Nat
    BY InitAssumption, TableAssumption DEF Image
  <2> QED
    BY <2>1, LoadCountBounds DEF Open, CountsLegal
<1>2. WithinLimit /\ [Next]_vars => WithinLimit'
  BY WithinLimitStep
<1>3. WithinLimit => SectionLimit
  BY DEF WithinLimit, SectionLimit
<1> QED
  BY <1>1, <1>2, <1>3, PTL DEF Spec

-----------------------------------------------------------------------------
(* The NT headers *)

\* Every file that is opened holds its NT headers: PECore::wrap refuses any other.
HoldsHeaders == \A im \in InitImages : im.fs >= NtEnd

\* No call leaves a file shorter than its NT headers, whatever alignments and
\* sizes the headers name: the one guard, canResize, is on every path that
\* changes the length of the file.
THEOREM HeadersAreKept ==
    ASSUME HoldsHeaders
    PROVE  Spec => []HeadersKept
<1>1. Init => TypeOK /\ HeadersKept
  <2>1. Init => HeadersKept
    BY DEF Init, Open, HeadersKept, HoldsHeaders
  <2> QED
    BY <2>1, InitTyped
<1>2. TypeOK /\ HeadersKept /\ [Next]_vars => TypeOK' /\ HeadersKept'
  <2> SUFFICES ASSUME TypeOK, HeadersKept, [Next]_vars
               PROVE  HeadersKept'
    BY StepTyped
  <2>1. fileSize' = fileSize \/ CanResize(fileSize')
    BY DEF Next, Add, Extend, AddNewSection, AddNewSectionFails, ExtendLastSection,
           ExtendLastSectionFails, Resize, Rewrap, vars
  <2>t. TypeOK'
    BY StepTyped
  <2>2. fileSize \in Nat /\ fileSize' \in Nat /\ NtEnd \in Nat
    BY <2>t, TableAssumption DEF TypeOK
  <2> QED
    BY <2>1, <2>2 DEF CanResize, HeadersKept
<1> QED
  BY <1>1, <1>2, PTL DEF Spec

-----------------------------------------------------------------------------
(* The order of the sections *)

\* What keeps SectionsOrdered inductive: an undamaged file holds all of its
\* headers and all that they claim, and every header that it counts is loaded.
Intact ==
    ~torn => /\ secNum = loaded /\ secNum <= SecMax
             /\ \A i \in 1..loaded : tbl[i].rp + tbl[i].rs <= fileSize
             /\ Ordered(tbl, loaded, imgSize)

Inv == TypeOK /\ LoadedIsWrap /\ Intact

ValidAlignment == FileAlign # 0 /\ SectAlign # 0

\* The end of a section that takes the rest of the file fits a DWORD.
NoWrap == MaxFile + MaxImage < DW

\* Ordered only looks at the loaded headers.
LEMMA OrderedSame ==
    ASSUME NEW t, NEW u, NEW n \in Nat, NEW img,
           Ordered(t, n, img), \A i \in 1..n : u[i] = t[i]
    PROVE  Ordered(u, n, img)
  BY DEF Ordered

LEMMA HeaderNat ==
    ASSUME NEW h \in DWHeader
    PROVE  h.rp \in Nat /\ h.rs \in Nat /\ h.va \in Nat /\ h.vs \in Nat /\ DeclaredVirtual(h) \in Nat
  BY TableAssumption DEF DWHeader, DWord, DeclaredVirtual

\* Wrapping an undamaged table that still fits into the file changes nothing.
LEMMA WrapKeeps ==
    ASSUME Inv, ~torn, NEW fs \in 1..MaxFile, NEW img,
           NEW t \in [1..Slots -> DWHeader],
           WrapAfter(t, secNum, fs, img), secNum' = secNum, secNum' <= loaded'
    PROVE  /\ loaded' = loaded
           /\ \A i \in 1..loaded : tbl'[i] = t[i]
<1>1. loaded' = LoadCount(secNum, fs) /\ tbl' = CutTable(t, fs)
  BY DEF WrapAfter
<1>2. secNum \in Nat /\ fs \in Nat /\ secNum = loaded
  BY TableAssumption DEF Inv, TypeOK, Intact
<1>3. LoadCount(secNum, fs) \in Nat /\ LoadCount(secNum, fs) <= secNum
  BY <1>2, LoadCountBounds, TableAssumption
<1>4. loaded' = loaded
  BY <1>1, <1>2, <1>3
<1>5. \A i \in 1..LoadCount(secNum, fs) : CutTable(t, fs)[i] = t[i]
  BY <1>2, CutKeepsLoaded
<1> QED
  BY <1>1, <1>4, <1>5

\* One more header behind those in order.
LEMMA OrderedWithNew ==
    ASSUME NEW n \in Nat, NEW t, NEW u, NEW img \in Nat, NEW wider \in Nat,
           Ordered(t, n, img), img <= wider,
           \A i \in 1..n : u[i] = t[i] /\ t[i] \in DWHeader,
           u[n + 1] \in DWHeader,
           u[n + 1].va + DeclaredVirtual(u[n + 1]) <= wider,
           \A i \in 1..n : /\ t[i].rp + t[i].rs <= u[n + 1].rp
                           /\ t[i].va + DeclaredVirtual(t[i]) <= u[n + 1].va
    PROVE  Ordered(u, n + 1, wider)
<1>1. \A i \in 1..n : t[i].va + DeclaredVirtual(t[i]) \in Nat
  BY HeaderNat
<1>2. ASSUME NEW i \in 1..(n + 1), NEW j \in 1..(n + 1), i < j
      PROVE  u[i].rp + u[i].rs <= u[j].rp /\ u[i].va + DeclaredVirtual(u[i]) <= u[j].va
  <2>1. i \in 1..n
    BY <1>2
  <2>2. CASE j = n + 1
    BY <2>1, <2>2
  <2>3. CASE j # n + 1
    BY <1>2, <2>1, <2>3 DEF Ordered
  <2> QED
    BY <2>2, <2>3
<1>3. ASSUME NEW i \in 1..(n + 1)
      PROVE  u[i].va + DeclaredVirtual(u[i]) <= wider
  <2>1. CASE i = n + 1
    BY <2>1
  <2>2. CASE i # n + 1
    BY <1>1, <2>2 DEF Ordered
  <2> QED
    BY <2>1, <2>2
<1> QED
  BY <1>2, <1>3 DEF Ordered

\* The last header grows where it is.
LEMMA OrderedLastGrown ==
    ASSUME NEW n \in Nat \ {0}, NEW t, NEW u, NEW img \in Nat, NEW other \in Nat,
           Ordered(t, n, img),
           \A i \in 1..n : t[i] \in DWHeader,
           \A i \in 1..n-1 : u[i] = t[i],
           u[n].rp = t[n].rp, u[n].va = t[n].va, u[n] \in DWHeader,
           u[n].va + DeclaredVirtual(u[n]) <= other
    PROVE  Ordered(u, n, other)
<1>1. \A i \in 1..n : t[i].va + DeclaredVirtual(t[i]) \in Nat
  BY HeaderNat
<1>2. u[n].va \in Nat /\ DeclaredVirtual(u[n]) \in Nat
  BY HeaderNat
<1>3. ASSUME NEW i \in 1..n, NEW j \in 1..n, i < j
      PROVE  u[i].rp + u[i].rs <= u[j].rp /\ u[i].va + DeclaredVirtual(u[i]) <= u[j].va
  <2>1. i \in 1..n-1
    BY <1>3
  <2>2. t[i].rp + t[i].rs <= t[j].rp /\ t[i].va + DeclaredVirtual(t[i]) <= t[j].va
    BY <1>3 DEF Ordered
  <2>3. u[j].rp = t[j].rp /\ u[j].va = t[j].va
    BY <1>3
  <2> QED
    BY <2>1, <2>2, <2>3
<1>4. ASSUME NEW i \in 1..n
      PROVE  u[i].va + DeclaredVirtual(u[i]) <= other
  <2>1. CASE i = n
    BY <2>1
  <2>2. CASE i # n
    <3>1. i < n /\ n \in 1..n /\ i \in 1..n-1
      BY <2>2
    <3>2. u[i].va + DeclaredVirtual(u[i]) <= u[n].va
      BY <1>3, <3>1
    <3>3. u[i].va + DeclaredVirtual(u[i]) \in Nat
      BY <1>1, <3>1
    <3> QED
      BY <1>2, <3>2, <3>3
  <2> QED
    BY <2>1, <2>2
<1> QED
  BY <1>3, <1>4 DEF Ordered

LEMMA VirtEndAbove ==
    ASSUME Inv, ValidAlignment
    PROVE  imgSize <= VirtEnd
<1>1. imgSize \in Nat
  BY TableAssumption DEF Inv, TypeOK
<1>2. MappedSize(imgSize) \in Nat /\ MappedSize(imgSize) >= imgSize
  BY <1>1, LayoutAssumption DEF MappedSize, Greatest
<1>3. VirtEnd >= MappedSize(imgSize) /\ VirtEnd \in Nat
  BY <1>2, RoundUpNat, LayoutAssumption DEF VirtEnd, ValidAlignment
<1> QED
  BY <1>1, <1>2, <1>3

\* The section that is added lies behind all the others.
LEMMA AddedBehind ==
    ASSUME Inv, ~torn, ValidAlignment, NEW r \in RawSizes, NEW v \in VirtSizes,
           AddAccepted(r, v), AddBounded(r, v), NEW i \in 1..loaded
    PROVE  /\ tbl[i].rp + tbl[i].rs <= NewHeader(r, v).rp
           /\ tbl[i].va + DeclaredVirtual(tbl[i]) <= NewHeader(r, v).va
<1>1. fileSize \in Nat /\ imgSize \in Nat /\ MappedSize(imgSize) \in Nat /\ MappedSize(imgSize) >= imgSize
  BY TableAssumption, LayoutAssumption DEF Inv, TypeOK, MappedSize, Greatest
<1>2. RawEnd >= fileSize /\ VirtEnd >= MappedSize(imgSize)
  BY <1>1, RoundUpNat, LayoutAssumption DEF RawEnd, VirtEnd, ValidAlignment
<1>3. RawEnd \in Nat /\ VirtEnd \in Nat
  BY NewHeaderTyped DEF Inv
<1>4. tbl[i].rp + tbl[i].rs <= fileSize /\ tbl[i].va + DeclaredVirtual(tbl[i]) <= imgSize
  BY DEF Inv, Intact, Ordered
<1>5. tbl[i] \in DWHeader
  BY TableAssumption DEF Inv, TypeOK
<1>6. /\ tbl[i].rp + tbl[i].rs \in Nat
      /\ tbl[i].va + DeclaredVirtual(tbl[i]) \in Nat
  BY <1>5, HeaderNat
<1> QED
  BY <1>1, <1>2, <1>3, <1>4, <1>6 DEF NewHeader

\* What TypeOK says of an undamaged table.
LEMMA TableTyped ==
    ASSUME Inv
    PROVE  /\ tbl \in [1..Slots -> DWHeader]
           /\ loaded \in 0..Slots /\ loaded \in Nat /\ secNum \in Nat
           /\ fileSize \in 1..MaxFile /\ fileSize \in Nat
           /\ imgSize \in 0..MaxImage /\ imgSize \in Nat
           /\ torn \in BOOLEAN
           /\ \A i \in 1..loaded : tbl[i] \in DWHeader
  BY TableAssumption DEF Inv, TypeOK

\* An action that notes the damage leaves a file that is intact or torn, if it
\* leaves the headers in order and none of them uncounted.
LEMMA NotedIntact ==
    ASSUME NoteTorn,
           ~torn' => loaded' \in Nat /\ secNum' \in Nat /\ loaded' <= secNum' /\ secNum' <= SecMax
                     /\ Ordered(tbl', loaded', imgSize'),
           ~torn' => \A i \in 1..loaded' : tbl'[i].rp + tbl'[i].rs \in Int,
           fileSize' \in Nat
    PROVE  Intact'
<1> SUFFICES ASSUME ~torn'
             PROVE  /\ secNum' = loaded' /\ secNum' <= SecMax
                    /\ \A i \in 1..loaded' : tbl'[i].rp + tbl'[i].rs <= fileSize'
                    /\ Ordered(tbl', loaded', imgSize')
  BY DEF Intact
<1>1. ~Torn(tbl', secNum', loaded', fileSize')
  BY DEF NoteTorn
<1> QED
  BY <1>1 DEF Torn

LEMMA NotedCount ==
    ASSUME NoteTorn, ~torn', TypeOK'
    PROVE  secNum' <= loaded'
<1>1. ~Torn(tbl', secNum', loaded', fileSize')
  BY DEF NoteTorn
<1>2. secNum' \in Nat /\ loaded' \in Nat
  BY TableAssumption DEF TypeOK
<1> QED
  BY <1>1, <1>2 DEF Torn

\* Adding to an undamaged file never fails once the file is resized: the slot
\* behind the last header is still there, and the header goes into it.
LEMMA AddEffect ==
    ASSUME Inv, ~torn, ValidAlignment, NEW r \in RawSizes, NEW v \in VirtSizes,
           AddNewSection(r, v), NEW h, h = NewHeader(r, v)
    PROVE  /\ loaded + 1 \in 1..Slots /\ loaded' = loaded + 1
           /\ secNum' = loaded + 1 /\ loaded + 1 <= SecMax
           /\ tbl'[loaded + 1] = h /\ h \in DWHeader
           /\ \A i \in 1..loaded : tbl'[i] = tbl[i]
           /\ \A i \in 1..loaded : tbl[i].rp + tbl[i].rs <= h.rp /\ tbl[i].va + DeclaredVirtual(tbl[i]) <= h.va
           /\ fileSize' \in Nat /\ fileSize <= fileSize' /\ h.rp + h.rs = fileSize'
           /\ imgSize' \in Nat /\ imgSize <= imgSize' /\ h.va + DeclaredVirtual(h) <= imgSize'
<1> DEFINE newSize == RawEnd + r
           cut == CutTable(tbl, newSize)
           n   == LoadCount(secNum, newSize)
<1>t. /\ AddAccepted(r, v) /\ AddBounded(r, v) /\ fileSize' = newSize
      /\ imgSize' = VirtEnd + VirtArg(r, v)
  BY DEF AddNewSection, BeginAdd
<1>1. /\ newSize \in Nat /\ h \in DWHeader /\ imgSize' \in Nat
      /\ VirtEnd \in Nat /\ VirtArg(r, v) \in Nat /\ r \in Nat /\ RawEnd \in Nat
  BY <1>t, NewHeaderTyped, TableAssumption DEF Inv, DWord
<1>2. imgSize <= imgSize'
  BY <1>t, <1>1, VirtEndAbove, TableTyped
<1>3. h.va + DeclaredVirtual(h) <= imgSize' /\ h.rp + h.rs = fileSize'
  BY <1>t, <1>1 DEF NewHeader, VirtArg, DeclaredVirtual
<1>4. secNum = loaded /\ secNum <= SecMax /\ secNum # SecMax
  BY <1>t DEF Inv, Intact, AddAccepted, CanAddNewSection
<1>5. fileSize <= newSize
  <2>1. fileSize <= RawEnd
    BY RoundUpNat, TableTyped, LayoutAssumption DEF RawEnd, ValidAlignment
  <2> QED
    BY <1>1, <2>1, TableTyped
<1>6. loaded < Slots /\ loaded > 0 /\ SlotInFile(loaded + 1, fileSize) /\ tbl[loaded + 1] = ZeroHdr
  BY <1>t DEF AddAccepted, CanAddNewSection, CanAddEntry
<1> HIDE DEF newSize
<1>7. SlotInFile(loaded + 1, newSize)
  <2> DEFINE end == SecTblOff + (loaded + 1) * HdrLen
  <2>1. end \in Nat
    BY TableTyped, TableAssumption
  <2>2. end <= fileSize
    BY <1>6 DEF SlotInFile
  <2>3. fileSize \in Nat
    BY TableTyped
  <2> HIDE DEF end
  <2>4. end <= newSize
    BY <1>1, <1>5, <2>1, <2>2, <2>3
  <2> QED
    BY <2>4 DEF SlotInFile, end
<1>8. n = loaded
  <2>1. loaded + 1 <= SlotsInFile(newSize) /\ SlotsInFile(newSize) \in Nat
    <3>1. loaded + 1 \in Nat \ {0}
      BY TableTyped
    <3> QED
      BY <1>1, <1>7, <3>1, SlotsCounted
  <2> QED
    BY <1>4, <1>6, <2>1, TableTyped, TableAssumption DEF LoadCount, Least
<1>9. loaded + 1 \in 1..Slots /\ loaded + 1 <= SecMax
  BY <1>4, <1>6, TableTyped, TableAssumption
<1>10. CanAddEntry(cut, n, newSize)
  BY <1>6, <1>7, <1>8, <1>9 DEF CanAddEntry, CutTable
<1>11. PasteHeader(cut, n, NewHeader(r, v))
  BY <1>10 DEF AddNewSection, newSize
<1>12. \A i \in 1..loaded : cut[i] = tbl[i]
  <2>1. \A i \in 1..LoadCount(secNum, newSize) : CutTable(tbl, newSize)[i] = tbl[i]
    BY <1>1, CutKeepsLoaded, TableTyped
  <2> QED
    BY <1>8, <2>1
<1>13. cut \in [1..Slots -> DWHeader]
  BY <1>1, CutTyped, TableTyped
<1> HIDE DEF cut, n
<1>14. /\ tbl' = [cut EXCEPT ![loaded + 1] = h]
       /\ loaded' = loaded + 1 /\ secNum' = loaded + 1
  <2>1. loaded + 1 \in Nat /\ loaded + 1 < WW /\ WW \in Nat
    BY <1>9, TableTyped, TableAssumption
  <2>2. (loaded + 1) % WW = loaded + 1
    BY <2>1
  <2> QED
    BY <1>4, <1>8, <1>11, <2>2 DEF PasteHeader, n
<1>15. tbl'[loaded + 1] = h /\ \A i \in 1..loaded : tbl'[i] = tbl[i]
  BY <1>9, <1>12, <1>13, <1>14, TableTyped
<1>16. \A i \in 1..loaded : tbl[i].rp + tbl[i].rs <= h.rp /\ tbl[i].va + DeclaredVirtual(tbl[i]) <= h.va
  BY <1>t, AddedBehind
<1> QED
  BY <1>t, <1>1, <1>2, <1>3, <1>5, <1>9, <1>14, <1>15, <1>16

LEMMA AddIntact ==
    ASSUME Inv, ValidAlignment, TypeOK', NEW r \in RawSizes, NEW v \in VirtSizes,
           AddNewSection(r, v)
    PROVE  Intact'
<1> SUFFICES ASSUME ~torn, ~torn'
             PROVE  Intact'
  BY DEF AddNewSection, NoteTorn, Intact, Inv, TypeOK
<1> DEFINE h == NewHeader(r, v)
<1>1. /\ loaded + 1 \in 1..Slots /\ loaded' = loaded + 1
      /\ secNum' = loaded + 1 /\ loaded + 1 <= SecMax
      /\ tbl'[loaded + 1] = h /\ h \in DWHeader
      /\ \A i \in 1..loaded : tbl'[i] = tbl[i]
      /\ \A i \in 1..loaded : tbl[i].rp + tbl[i].rs <= h.rp /\ tbl[i].va + DeclaredVirtual(tbl[i]) <= h.va
      /\ fileSize' \in Nat
      /\ imgSize' \in Nat /\ imgSize <= imgSize' /\ h.va + DeclaredVirtual(h) <= imgSize'
  BY AddEffect
<1>2. NoteTorn
  BY DEF AddNewSection
<1>3. Ordered(tbl, loaded, imgSize)
  BY DEF Inv, Intact
<1> HIDE DEF h
<1>4. Ordered(tbl', loaded', imgSize')
  BY <1>1, <1>3, OrderedWithNew, TableTyped
<1>5. \A i \in 1..loaded' : tbl'[i] \in DWHeader
  BY TableAssumption DEF TypeOK
<1>6. \A i \in 1..loaded' : tbl'[i].rp + tbl'[i].rs \in Int
  BY <1>5, HeaderNat
<1>7. loaded' \in Nat /\ secNum' \in Nat /\ loaded' <= secNum' /\ secNum' <= SecMax
  BY <1>1, TableTyped
<1> QED
  BY <1>1, <1>2, <1>4, <1>6, <1>7, NotedIntact

\* The last header after an extension that no DWORD overflows in.
LEMMA LastGrown ==
    ASSUME Inv, ~torn, NoWrap, NEW a \in Nat, BeginExtend(fileSize + a),
           NEW h, h = tbl[loaded], NEW g, g = Extended(h, fileSize + a)
    PROVE  /\ loaded \in 1..Slots /\ loaded \in Nat \ {0}
           /\ fileSize + a \in 1..MaxFile /\ imgSize' \in Nat
           /\ ExtendedTable(fileSize + a) \in [1..Slots -> DWHeader]
           /\ ExtendedTable(fileSize + a)[loaded] = g
           /\ \A i \in 1..loaded-1 : ExtendedTable(fileSize + a)[i] = tbl[i]
           /\ g \in DWHeader /\ g.rp = h.rp /\ g.va = h.va
           /\ g.rs = (fileSize + a) - h.rp /\ g.rs >= h.rs
           /\ DeclaredVirtual(g) >= DeclaredVirtual(h)
           /\ g.va + DeclaredVirtual(g) <= imgSize'
<1> DEFINE newSize == fileSize + a
           rs == newSize - h.rp
<1>1. /\ loaded \in 1..Slots /\ loaded \in Nat \ {0} /\ newSize \in Nat
      /\ newSize \in 1..MaxFile /\ fileSize <= newSize
  BY TableTyped, TableAssumption DEF BeginExtend, ExtendBounded
<1>2. h \in DWHeader /\ h.rp + h.rs <= fileSize /\ h.va + DeclaredVirtual(h) <= imgSize
  BY <1>1, TableTyped DEF Inv, Intact, Ordered
<1>3. /\ h.rp \in Nat /\ h.rs \in Nat /\ h.va \in Nat /\ h.vs \in Nat /\ DeclaredVirtual(h) \in Nat
  BY <1>2, HeaderNat
<1>s. /\ fileSize \in Nat /\ imgSize \in Nat /\ imgSize <= MaxImage
      /\ MaxFile \in Nat /\ MaxImage \in Nat /\ DW \in Nat /\ newSize <= MaxFile
  BY <1>1, TableTyped, TableAssumption
<1> HIDE DEF newSize
<1>4. rs \in Nat /\ h.rs <= rs /\ rs <= MaxFile
  <2>1. h.rp + h.rs <= newSize /\ newSize \in Nat
    BY <1>1, <1>2, <1>3, <1>s
  <2> QED
    BY <1>3, <1>s, <2>1
<1>5. h.va + rs \in Nat /\ h.va + rs < DW
  <2>1. h.va <= MaxImage /\ MaxFile + MaxImage < DW
    BY <1>2, <1>3, <1>s DEF NoWrap
  <2> HIDE DEF rs
  <2> QED
    BY <1>3, <1>4, <1>s, <2>1
<1>6. rs % DW = rs /\ (h.va + rs) % DW = h.va + rs
  BY <1>4, <1>5, TableAssumption
<1> HIDE DEF rs
<1>7. g = [h EXCEPT !.rs = rs, !.vs = IF h.vs < rs THEN rs ELSE @]
  <2>1. ~(rs < 0)
    BY <1>4
  <2> QED
    BY <1>6, <2>1 DEF Extended, rs, newSize
<1>8. g \in DWHeader
  BY <1>1, <1>2, ExtendedTyped DEF newSize
<1>9. imgSize' = IF h.vs < rs THEN h.va + rs ELSE imgSize
  BY <1>4, <1>6 DEF BeginExtend, ImageExtended, rs, newSize
<1>10. g.rp = h.rp /\ g.va = h.va /\ g.rs = rs /\ g.vs = IF h.vs < rs THEN rs ELSE h.vs
  BY <1>2, <1>7 DEF DWHeader
<1>11. DeclaredVirtual(g) >= DeclaredVirtual(h)
  BY <1>3, <1>4, <1>10 DEF DeclaredVirtual
<1>12. g.va + DeclaredVirtual(g) <= imgSize'
  BY <1>2, <1>3, <1>4, <1>9, <1>10, TableTyped DEF DeclaredVirtual
<1>13. imgSize' \in Nat
  BY <1>3, <1>4, <1>9, TableTyped
<1>14. /\ ExtendedTable(newSize) \in [1..Slots -> DWHeader]
       /\ ExtendedTable(newSize)[loaded] = g
       /\ \A i \in 1..loaded-1 : ExtendedTable(newSize)[i] = tbl[i]
  BY <1>1, <1>8, TableTyped DEF ExtendedTable, newSize
<1>15. h.rp + h.rs <= fileSize + a /\ fileSize + a \in 1..MaxFile
  BY <1>1, <1>2, <1>3, <1>s DEF newSize
<1>16. g.rs = (fileSize + a) - h.rp /\ g.rs >= h.rs
  <2>1. rs = (fileSize + a) - h.rp
    BY DEF rs, newSize
  <2>2. g.rs = rs /\ rs >= h.rs
    BY <1>3, <1>4, <1>10
  <2> QED
    BY <2>1, <2>2
<1> QED
  BY <1>1, <1>8, <1>10, <1>11, <1>12, <1>13, <1>14, <1>15, <1>16 DEF newSize

LEMMA ExtendIntact ==
    ASSUME Inv, NoWrap, TypeOK', NEW a \in Growths,
           ExtendLastSection(a) \/ ExtendLastSectionFails(a)
    PROVE  Intact'
<1> DEFINE newSize == fileSize + a
           grown == ExtendedTable(newSize)
<1> SUFFICES ASSUME ~torn, ~torn'
             PROVE  Intact'
  BY DEF ExtendLastSection, ExtendLastSectionFails, NoteTorn, Intact, Inv, TypeOK
<1>1. /\ NoteTorn /\ BeginExtend(newSize) /\ secNum' = secNum
      /\ \/ WrapAfter(grown, secNum, newSize, imgSize') /\ fileSize' = newSize
         \/ loaded' = loaded /\ tbl' = grown /\ fileSize' = fileSize
  BY DEF ExtendLastSection, ExtendLastSectionFails
<1>2. /\ loaded \in 1..Slots /\ loaded \in Nat \ {0}
      /\ newSize \in 1..MaxFile /\ imgSize' \in Nat
      /\ grown \in [1..Slots -> DWHeader]
      /\ \A i \in 1..loaded-1 : grown[i] = tbl[i]
      /\ grown[loaded].rp = tbl[loaded].rp /\ grown[loaded].va = tbl[loaded].va
      /\ grown[loaded] \in DWHeader
      /\ grown[loaded].va + DeclaredVirtual(grown[loaded]) <= imgSize'
  BY <1>1, LastGrown, TableAssumption
<1>3. secNum = loaded /\ secNum <= SecMax /\ Ordered(tbl, loaded, imgSize)
  BY DEF Inv, Intact
<1> HIDE DEF newSize, grown
<1>4. Ordered(grown, loaded, imgSize')
  BY <1>2, <1>3, OrderedLastGrown, TableTyped
<1>5. secNum' <= loaded'
  BY <1>1, NotedCount
<1>6. loaded' = loaded /\ \A i \in 1..loaded : tbl'[i] = grown[i]
  BY <1>1, <1>2, <1>5, WrapKeeps
<1>7. Ordered(tbl', loaded, imgSize')
  BY <1>4, <1>6, OrderedSame, TableTyped
<1>8. \A i \in 1..loaded : grown[i] \in DWHeader
  BY <1>2, TableTyped, TableAssumption
<1>9. \A i \in 1..loaded : tbl'[i].rp + tbl'[i].rs \in Int
  BY <1>6, <1>8, HeaderNat
<1>10. fileSize' \in Nat
  BY <1>1, <1>2, TableTyped, TableAssumption
<1> QED
  BY <1>1, <1>3, <1>6, <1>7, <1>9, <1>10, NotedIntact, TableTyped

\* resize and wrap, which leave the headers and SizeOfImage as they are.
LEMMA KeptIntact ==
    ASSUME Inv, TypeOK', NEW fs \in 1..MaxFile,
           WrapAfter(tbl, secNum, fs, imgSize), fileSize' = fs,
           UNCHANGED <<secNum, imgSize>>,
           NoteTorn \/ (torn' = torn /\ fs = fileSize)
    PROVE  Intact'
<1> SUFFICES ASSUME ~torn, ~torn'
             PROVE  Intact'
  BY DEF NoteTorn, Intact, Inv, TypeOK
<1>1. secNum = loaded /\ secNum <= SecMax /\ Ordered(tbl, loaded, imgSize)
      /\ \A i \in 1..loaded : tbl[i].rp + tbl[i].rs <= fileSize
  BY DEF Inv, Intact
<1>2. secNum' <= loaded'
  <2>1. CASE NoteTorn
    BY <2>1, NotedCount
  <2>2. CASE fs = fileSize
    <3>1. loaded' = LoadCount(secNum, fileSize)
      BY <2>2 DEF WrapAfter
    <3>2. secNum <= Slots
      BY <1>1, TableTyped
    <3>3. loaded = LoadCount(secNum, fileSize)
      BY <1>1, <3>2 DEF Inv, LoadedIsWrap
    <3>4. secNum' = secNum
      OBVIOUS
    <3> QED
      BY <1>1, <3>1, <3>3, <3>4, TableTyped
  <2> QED
    BY <2>1, <2>2
<1>3. loaded' = loaded /\ \A i \in 1..loaded : tbl'[i] = tbl[i]
  BY <1>2, WrapKeeps, TableTyped
<1>4. Ordered(tbl', loaded', imgSize')
  BY <1>1, <1>3, OrderedSame, TableTyped
<1>5. \A i \in 1..loaded : tbl'[i].rp + tbl'[i].rs \in Int
  BY <1>3, HeaderNat, TableTyped
<1>6. CASE NoteTorn
  BY <1>1, <1>3, <1>4, <1>5, <1>6, NotedIntact, TableTyped, TableAssumption
<1>7. CASE fs = fileSize
  BY <1>1, <1>3, <1>4, <1>7 DEF Intact
<1> QED
  BY <1>6, <1>7

LEMMA InvStep == ValidAlignment /\ NoWrap /\ Inv /\ [Next]_vars => Inv'
<1> SUFFICES ASSUME ValidAlignment, NoWrap, Inv, [Next]_vars
             PROVE  Inv'
  OBVIOUS
<1>0. TypeOK' /\ LoadedIsWrap'
  BY StepTyped, LoadedIsWrapStep DEF Inv
<1>1. ASSUME NEW r \in RawSizes, NEW v \in VirtSizes, AddNewSection(r, v)
      PROVE  Intact'
  BY <1>0, <1>1, AddIntact
<1>2. ASSUME NEW r \in RawSizes, NEW v \in VirtSizes, AddNewSectionFails(r, v)
      PROVE  Intact'
  <2> SUFFICES ASSUME ~torn
               PROVE  Intact'
    BY <1>2 DEF AddNewSectionFails, Intact
  <2>1. /\ AddBounded(r, v) /\ imgSize' = VirtEnd + VirtArg(r, v)
        /\ UNCHANGED <<tbl, secNum, fileSize, loaded, torn>>
    BY <1>2 DEF AddNewSectionFails, BeginAdd
  <2>2. /\ imgSize' \in Nat /\ VirtEnd \in Nat /\ VirtArg(r, v) \in Nat
    BY <2>1, NewHeaderTyped, TableAssumption DEF Inv, DWord
  <2>3. imgSize <= imgSize'
    BY <2>1, <2>2, VirtEndAbove, TableTyped
  <2>4. \A i \in 1..loaded : tbl[i].va + DeclaredVirtual(tbl[i]) \in Nat
    BY HeaderNat, TableTyped
  <2>5. Intact
    BY DEF Inv
  <2> QED
    BY <2>1, <2>2, <2>3, <2>4, <2>5, TableTyped DEF Intact, Ordered
<1>3. ASSUME NEW a \in Growths, ExtendLastSection(a) \/ ExtendLastSectionFails(a)
      PROVE  Intact'
  BY <1>0, <1>3, ExtendIntact
<1>4. ASSUME NEW fs \in FileSizes, Resize(fs)
      PROVE  Intact'
  <2>1. fs \in 1..MaxFile
    BY <1>4, TableAssumption DEF Resize
  <2> QED
    BY <1>0, <1>4, <2>1, KeptIntact DEF Resize
<1>5. ASSUME Rewrap PROVE Intact'
  <2>1. /\ WrapAfter(tbl, secNum, fileSize, imgSize) /\ fileSize' = fileSize
        /\ UNCHANGED <<secNum, imgSize>> /\ torn' = torn
    BY <1>5 DEF Rewrap
  <2>2. fileSize \in 1..MaxFile
    BY TableTyped
  <2> QED
    BY <1>0, <2>1, <2>2, KeptIntact
<1>6. ASSUME UNCHANGED vars PROVE Intact'
  <2>1. UNCHANGED <<tbl, secNum, fileSize, imgSize, loaded, torn>> /\ Intact
    BY <1>6 DEF vars, Inv
  <2> QED
    BY <2>1 DEF Intact, Ordered
<1>7. Intact'
  <2>1. Next \/ UNCHANGED vars
    OBVIOUS
  <2> QED
    BY <1>1, <1>2, <1>3, <1>4, <1>5, <1>6, <2>1 DEF Next, Add, Extend
<1> QED
  BY <1>0, <1>7 DEF Inv

LEMMA InitInv == Init => Inv
<1> SUFFICES ASSUME NEW im \in InitImages, Open(im)
             PROVE  Intact /\ LoadedIsWrap
  BY InitTyped DEF Init, Inv
<1>1. im.num \in Nat /\ im.fs \in Nat /\ im.tbl \in [1..Slots -> DWHeader]
  BY InitAssumption, TableAssumption DEF Image
<1>2. LoadedIsWrap
  BY DEF Open, LoadedIsWrap
<1>3. loaded \in 0..Slots /\ loaded <= im.num /\ loaded <= SecMax
  BY <1>1, LoadCountBounds DEF Open
<1>4. \A i \in 1..loaded : tbl[i].rp + tbl[i].rs \in Int
  BY <1>1, <1>3, HeaderNat, TableAssumption DEF Open
<1>5. ~torn => ~Torn(tbl, secNum, loaded, fileSize) /\ Ordered(tbl, loaded, imgSize)
  BY DEF Open
<1> QED
  BY <1>1, <1>2, <1>3, <1>4, <1>5, TableAssumption DEF Open, Intact, Torn

\* As long as the file was never shorter than its headers claim, no sequence of
\* additions, extensions, resizes and wraps, with any failed resize among them,
\* makes two sections overlap or leaves one outside of the image. The alignments
\* must not be zero, and file and image together must stay below 4 GB.
THEOREM OrderKept ==
    ASSUME ValidAlignment, NoWrap
    PROVE  Spec => []SectionsOrdered
<1>1. Init => Inv
  BY InitInv
<1>2. Inv /\ [Next]_vars => Inv'
  BY InvStep
<1>3. Inv => SectionsOrdered
  BY DEF Inv, Intact, SectionsOrdered
<1> QED
  BY <1>1, <1>2, <1>3, PTL DEF Spec

-----------------------------------------------------------------------------
(* PESections implements SectionTable *)

\* An edit of an undamaged file that leaves it undamaged.
Kept == ~torn /\ ~torn'

\* Whatever happens, the abstract state is typed.
LEMMA MapTyped == TypeOK => Table!Typed
<1> SUFFICES ASSUME TypeOK
             PROVE  Table!Typed
  OBVIOUS
<1>1. \A i \in 1..loaded : tbl[i].rp \in Nat /\ tbl[i] \in Table!Section
  BY TableAssumption DEF TypeOK, DWHeader, DWord, Table!Section
<1>2. loaded \in Nat /\ fileSize \in Nat /\ imgSize \in Nat /\ torn \in BOOLEAN
  BY TableAssumption DEF TypeOK
<1> QED
  BY <1>1, <1>2 DEF Table!Typed

LEMMA InitImplements == Init => Table!Init
<1> SUFFICES ASSUME Init
             PROVE  Table!Init
  OBVIOUS
<1>1. Inv /\ Table!Typed
  BY InitInv, MapTyped DEF Inv
<1>2. torn => Table!Nothing
  BY DEF Table!Nothing
<1>3. Table!InOrder
  <2>1. CASE torn
    BY <2>1 DEF Table!InOrder
  <2>2. CASE ~torn
    BY <1>1, <2>2 DEF Inv, Intact, Ordered, Table!InOrder, Table!Behind, Table!Inside, Table!InMemory, DeclaredVirtual
  <2> QED
    BY <2>1, <2>2
<1> QED
  BY <1>1, <1>2, <1>3 DEF Table!Init

\* addNewSection is Append.
LEMMA AddImplements ==
    ASSUME Inv, Inv', Kept, ValidAlignment, NEW r \in RawSizes, NEW v \in VirtSizes,
           AddNewSection(r, v)
    PROVE  Table!Append
<1> DEFINE h == NewHeader(r, v)
<1>1. /\ loaded + 1 \in 1..Slots /\ loaded' = loaded + 1
      /\ tbl'[loaded + 1] = h /\ h \in DWHeader
      /\ \A i \in 1..loaded : tbl'[i] = tbl[i]
      /\ \A i \in 1..loaded : tbl[i].rp + tbl[i].rs <= h.rp /\ tbl[i].va + DeclaredVirtual(tbl[i]) <= h.va
      /\ fileSize' \in Nat /\ fileSize <= fileSize' /\ h.rp + h.rs = fileSize'
      /\ imgSize' \in Nat /\ imgSize <= imgSize' /\ h.va + DeclaredVirtual(h) <= imgSize'
  BY AddEffect DEF Kept
<1> HIDE DEF h
<1>2. loaded \in Nat /\ fileSize \in Nat /\ imgSize \in Nat
  BY TableTyped
<1> QED
  BY <1>1, <1>2 DEF Kept, Table!Append, Table!Behind, Table!Inside, Table!InMemory, DeclaredVirtual

\* extendLastSection is ExtendLast when the file is resized.
LEMMA ExtendImplements ==
    ASSUME Inv, Inv', Kept, NoWrap, NEW a \in Growths, ExtendLastSection(a)
    PROVE  Table!ExtendLast
<1> DEFINE h == tbl[loaded]
           g == Extended(h, fileSize + a)
           grown == ExtendedTable(fileSize + a)
<1>1. /\ BeginExtend(fileSize + a) /\ fileSize' = fileSize + a /\ secNum' = secNum
      /\ WrapAfter(grown, secNum, fileSize + a, imgSize')
  BY DEF ExtendLastSection
<1>2. /\ loaded \in 1..Slots /\ loaded \in Nat \ {0}
      /\ fileSize + a \in 1..MaxFile /\ imgSize' \in Nat
      /\ grown \in [1..Slots -> DWHeader]
      /\ grown[loaded] = g
      /\ \A i \in 1..loaded-1 : grown[i] = tbl[i]
      /\ g \in DWHeader /\ g.rp = h.rp /\ g.va = h.va
      /\ g.rs = (fileSize + a) - h.rp /\ g.rs >= h.rs
      /\ DeclaredVirtual(g) >= DeclaredVirtual(h)
      /\ g.va + DeclaredVirtual(g) <= imgSize'
  BY <1>1, LastGrown, TableAssumption DEF Kept
<1>3. loaded' = loaded /\ \A i \in 1..loaded : tbl'[i] = grown[i]
  <2>1. secNum' <= loaded'
    BY TableAssumption DEF Kept, Inv, Intact, TypeOK
  <2>2. ~torn
    BY DEF Kept
  <2> HIDE DEF grown
  <2> QED
    BY <1>1, <1>2, <2>1, <2>2, WrapKeeps
<1>4. h.rp \in Nat /\ fileSize \in Nat /\ fileSize <= fileSize' /\ loaded \in Nat
  BY <1>1, <1>2, HeaderNat, TableTyped, TableAssumption
<1> HIDE DEF h, g, grown
<1>5. g.rp + g.rs = fileSize'
  BY <1>1, <1>2, <1>4
<1>6. tbl'[loaded] = g /\ (\A i \in 1..loaded-1 : tbl'[i] = tbl[i])
  BY <1>2, <1>3
<1> QED
  BY <1>1, <1>2, <1>3, <1>4, <1>5, <1>6
     DEF Kept, h, Table!ExtendLast, Table!Inside, Table!InMemory, DeclaredVirtual

\* An extension that could not resize the file leaves it undamaged only when
\* it asks for no growth at all.
LEMMA ExtendFailsImplements ==
    ASSUME Inv, Inv', Kept, NoWrap, NEW a \in Growths, ExtendLastSectionFails(a)
    PROVE  Table!ExtendLast
<1> DEFINE h == tbl[loaded]
           g == Extended(h, fileSize + a)
           grown == ExtendedTable(fileSize + a)
<1>1. /\ BeginExtend(fileSize + a) /\ tbl' = grown
      /\ UNCHANGED <<secNum, fileSize, loaded>> /\ NoteTorn
  BY DEF ExtendLastSectionFails
<1>2. /\ loaded \in 1..Slots /\ loaded \in Nat \ {0} /\ imgSize' \in Nat
      /\ grown[loaded] = g
      /\ \A i \in 1..loaded-1 : grown[i] = tbl[i]
      /\ g \in DWHeader /\ g.rp = h.rp /\ g.va = h.va
      /\ g.rs = (fileSize + a) - h.rp /\ g.rs >= h.rs
      /\ DeclaredVirtual(g) >= DeclaredVirtual(h)
      /\ g.va + DeclaredVirtual(g) <= imgSize'
  BY <1>1, LastGrown, TableAssumption DEF Kept
<1>3. \A i \in 1..loaded' : tbl'[i].rp + tbl'[i].rs <= fileSize'
  BY DEF Kept, Inv, Intact
<1>4. tbl'[loaded] = g /\ loaded' = loaded /\ fileSize' = fileSize
  BY <1>1, <1>2
<1> HIDE DEF grown, g
<1>5. h \in DWHeader /\ fileSize \in Nat /\ a \in Nat
  BY <1>2, TableTyped, TableAssumption
<1> HIDE DEF h
<1>6. h.rp \in Nat
  BY <1>5, HeaderNat
<1>7. g.rp + g.rs = fileSize
  <2>1. loaded' \in 1..loaded' /\ loaded \in 1..loaded'
    BY <1>2, <1>4
  <2>2. g.rp + g.rs <= fileSize
    BY <1>3, <1>4, <2>1
  <2>3. g.rp + g.rs = fileSize + a
    BY <1>2, <1>5, <1>6
  <2> QED
    BY <1>5, <2>2, <2>3
<1>8. \A i \in 1..loaded-1 : tbl'[i] = tbl[i]
  BY <1>1, <1>2
<1> QED
  BY <1>2, <1>4, <1>5, <1>7, <1>8
     DEF Kept, h, Table!ExtendLast, Table!Inside, Table!InMemory, DeclaredVirtual

\* resize is SetLength and wrap is a stutter.
LEMMA WrapImplements ==
    ASSUME Inv, Inv', Kept, NEW fs \in 1..MaxFile,
           WrapAfter(tbl, secNum, fs, imgSize), fileSize' = fs, UNCHANGED <<secNum, imgSize>>
    PROVE  Table!SetLength
<1>1. loaded' = loaded /\ \A i \in 1..loaded : tbl'[i] = tbl[i]
  <2>1. secNum' <= loaded' /\ secNum' = secNum
    BY TableAssumption DEF Kept, Inv, Intact, TypeOK
  <2> QED
    BY <2>1, WrapKeeps, TableTyped DEF Kept
<1>2. \A i \in 1..loaded : tbl'[i].rp + tbl'[i].rs <= fileSize'
  BY <1>1 DEF Kept, Inv, Intact
<1>3. \A i \in 1..loaded : tbl[i].va + DeclaredVirtual(tbl[i]) <= imgSize
  BY DEF Kept, Inv, Intact, Ordered
<1>4. [i \in 1..loaded |-> tbl'[i]] = [i \in 1..loaded |-> tbl[i]] /\ imgSize' = imgSize
  BY <1>1
<1> QED
  BY <1>1, <1>2, <1>3, <1>4 DEF Kept, Table!SetLength, Table!Inside, Table!InMemory, DeclaredVirtual

LEMMA StepImplements ==
    ValidAlignment /\ NoWrap /\ Inv /\ Inv' /\ Table!Typed' /\ [Next]_vars => [Table!Next]_(Table!vars)
<1> SUFFICES ASSUME ValidAlignment, NoWrap, Inv, Inv', Table!Typed', [Next]_vars
             PROVE  Table!Next \/ UNCHANGED Table!vars
  OBVIOUS
<1>t. Table!Typed'
  OBVIOUS
<1>b. torn \in BOOLEAN /\ torn' \in BOOLEAN
  BY DEF Inv, TypeOK
<1>1. CASE torn
  <2>1. torn'
    BY <1>1 DEF Next, Add, Extend, AddNewSection, AddNewSectionFails, ExtendLastSection,
                ExtendLastSectionFails, Resize, Rewrap, NoteTorn, vars
  <2> QED
    BY <1>1, <2>1 DEF Table!vars
<1>2. CASE ~torn /\ torn'
  BY <1>2, <1>t DEF Table!Next, Table!Nothing
<1>3. CASE ~torn /\ ~torn'
  <2>k. Kept
    BY <1>3 DEF Kept
  <2>e. \/ Table!Append \/ Table!ExtendLast \/ Table!Reserve \/ Table!SetLength
        \/ UNCHANGED Table!vars
    <3>1. ASSUME NEW r \in RawSizes, NEW v \in VirtSizes, AddNewSection(r, v)
          PROVE  Table!Append
      BY <2>k, <3>1, AddImplements
    <3>2. ASSUME NEW r \in RawSizes, NEW v \in VirtSizes, AddNewSectionFails(r, v)
          PROVE  Table!Reserve
      <4>1. /\ UNCHANGED <<tbl, fileSize, loaded>> /\ imgSize' = VirtEnd + VirtArg(r, v)
            /\ AddBounded(r, v) /\ imgSize' # imgSize
        BY <3>2 DEF AddNewSectionFails, BeginAdd, AddAccepted
      <4>2. VirtEnd \in Nat /\ VirtArg(r, v) \in Nat /\ imgSize \in Nat /\ imgSize <= VirtEnd
        BY <4>1, NewHeaderTyped, VirtEndAbove, TableTyped, TableAssumption DEF Inv, DWord
      <4>3. imgSize' > imgSize
        BY <4>1, <4>2
      <4> QED
        BY <1>3, <4>1, <4>3 DEF Table!Reserve
    <3>3. ASSUME NEW a \in Growths, ExtendLastSection(a)
          PROVE  Table!ExtendLast
      BY <2>k, <3>3, ExtendImplements
    <3>4. ASSUME NEW a \in Growths, ExtendLastSectionFails(a)
          PROVE  Table!ExtendLast
      BY <2>k, <3>4, ExtendFailsImplements
    <3>5. ASSUME NEW fs \in FileSizes, Resize(fs)
          PROVE  Table!SetLength
      <4>1. fs \in 1..MaxFile /\ WrapAfter(tbl, secNum, fs, imgSize) /\ fileSize' = fs
        BY <3>5, TableAssumption DEF Resize
      <4> QED
        BY <2>k, <3>5, <4>1, WrapImplements DEF Resize
    <3>6. ASSUME Rewrap
          PROVE  Table!SetLength
      <4>1. /\ WrapAfter(tbl, secNum, fileSize, imgSize) /\ fileSize' = fileSize
            /\ UNCHANGED <<secNum, imgSize>> /\ fileSize \in 1..MaxFile
        BY <3>6, TableTyped DEF Rewrap
      <4> QED
        BY <2>k, <4>1, WrapImplements
    <3>7. ASSUME UNCHANGED vars
          PROVE  UNCHANGED Table!vars
      BY <3>7 DEF vars, Table!vars
    <3>8. Next \/ UNCHANGED vars
      OBVIOUS
    <3> QED
      BY <3>1, <3>2, <3>3, <3>4, <3>5, <3>6, <3>7, <3>8 DEF Next, Add, Extend
  <2> QED
    BY <1>3, <1>t, <2>e DEF Table!Next
<1> QED
  BY <1>b, <1>1, <1>2, <1>3

\* The editor keeps the promises of SectionTable for every table size, alignment
\* and file: sections keep their place, a new one appears as a whole behind the
\* others, a failed edit adds nothing, and no two sections share a byte, as long
\* as the alignments are not zero and file and image stay below 4 GB together.
THEOREM SectionTableImplemented ==
    ASSUME ValidAlignment, NoWrap
    PROVE  Spec => ImplementsSectionTable
<1>1. Init => Inv /\ Table!Init
  BY InitInv, InitImplements
<1>2. Inv /\ [Next]_vars => Inv'
  BY InvStep
<1>3. Inv => Table!Typed
  BY MapTyped DEF Inv
<1>4. Inv /\ Inv' /\ Table!Typed' /\ [Next]_vars => [Table!Next]_(Table!vars)
  BY StepImplements
<1> QED
  BY <1>1, <1>2, <1>3, <1>4, PTL DEF Spec, ImplementsSectionTable, Table!Spec

-----------------------------------------------------------------------------
(* The maps of the sections *)

Multiple(a, unit) == \E k \in Nat : a = k * unit

\* SectionAlignment is a multiple of FileAlignment, and neither is zero.
AlignmentsFit == ValidAlignment /\ Multiple(SectAlign, FileAlign)

\* Every section starts at its alignment and behind the headers.
Aligned(t, n) ==
    \A i \in 1..n : /\ Multiple(t[i].rp, FileAlign) /\ HdrsSize <= t[i].rp
                    /\ Multiple(t[i].va, SectAlign) /\ HdrsSize <= t[i].va

\* An image that holds all that its headers claim.
WellLaid(im) ==
    /\ im.tbl \in [1..Slots -> DWHeader] /\ im.n \in 1..Slots
    /\ im.fs \in Nat /\ im.img \in Nat
    /\ Ordered(im.tbl, im.n, im.img) /\ Aligned(im.tbl, im.n)
    /\ \A i \in 1..im.n : im.tbl[i].rp + im.tbl[i].rs <= im.fs

-----------------------------------------------------------------------------
(* Rounding *)

LEMMA RoundUpMultiple ==
    ASSUME NEW size \in Nat, NEW unit \in Nat \ {0}
    PROVE  Multiple(RoundUp(size, unit), unit)
<1> DEFINE q == size \div unit
<1>1. q \in Nat /\ q + 1 \in Nat
  OBVIOUS
<1>2. RoundUp(size, unit) \in {q * unit, (q + 1) * unit}
  BY DEF RoundUp
<1> QED
  BY <1>1, <1>2 DEF Multiple

\* No multiple of the unit lies between a size and the size rounded up.
LEMMA RoundUpLeast ==
    ASSUME NEW size \in Nat, NEW unit \in Nat \ {0}, NEW b \in Nat,
           Multiple(b, unit), size <= b
    PROVE  RoundUp(size, unit) <= b
<1> DEFINE q == size \div unit
<1>1. PICK m \in Nat : b = m * unit
  BY DEF Multiple
<1>2. q \in Nat /\ size = unit * q + (size % unit) /\ (size % unit) \in 0..unit-1
  OBVIOUS
<1>3. RoundUp(size, unit) = IF q * unit < size THEN (q + 1) * unit ELSE q * unit
  BY DEF RoundUp
<1> HIDE DEF q
<1>4. q * unit \in Nat /\ (q + 1) * unit = q * unit + unit /\ q * unit <= size
  BY <1>2
<1>5. CASE q * unit < size
  <2>1. q < m
    <3>1. SUFFICES ASSUME m <= q PROVE FALSE
      BY <1>2
    <3>2. (q - m) * unit \in Nat /\ q * unit = m * unit + (q - m) * unit /\ m * unit \in Nat
      BY <1>2, <3>1
    <3> QED
      BY <1>1, <1>4, <1>5, <3>2
  <2>2. /\ (m - q - 1) * unit \in Nat /\ m * unit \in Nat
        /\ m * unit = (q + 1) * unit + (m - q - 1) * unit
    BY <1>2, <2>1
  <2> QED
    BY <1>1, <1>3, <1>4, <1>5, <2>2
<1>6. CASE ~(q * unit < size)
  BY <1>3, <1>4, <1>6
<1> QED
  BY <1>5, <1>6

\* What lies between two aligned addresses still does when it is rounded up.
LEMMA RoundUpBetween ==
    ASSUME NEW a \in Nat, NEW b \in Nat, NEW d \in Nat, NEW unit \in Nat \ {0},
           Multiple(a, unit), Multiple(b, unit), a + d <= b
    PROVE  a + RoundUp(d, unit) <= b
<1>1. PICK k \in Nat : a = k * unit
  BY DEF Multiple
<1>2. PICK m \in Nat : b = m * unit
  BY DEF Multiple
<1>3. k <= m
  <2>1. SUFFICES ASSUME m < k PROVE FALSE
    OBVIOUS
  <2>2. (k - m - 1) * unit >= 0 /\ k * unit = m * unit + unit + (k - m - 1) * unit
    BY <2>1
  <2> QED
    BY <1>1, <1>2, <2>2
<1>4. m - k \in Nat /\ b - a = (m - k) * unit /\ b - a \in Nat /\ d <= b - a
  BY <1>1, <1>2, <1>3
<1>5. RoundUp(d, unit) <= b - a
  BY <1>4, RoundUpLeast DEF Multiple
<1>6. RoundUp(d, unit) \in Nat
  BY RoundUpNat
<1> QED
  BY <1>5, <1>6

LEMMA MultipleOfBoth ==
    ASSUME AlignmentsFit, NEW a \in Nat, Multiple(a, SectAlign)
    PROVE  Multiple(a, FileAlign)
<1>1. PICK k \in Nat : a = k * SectAlign
  BY DEF Multiple
<1>2. PICK m \in Nat : SectAlign = m * FileAlign
  BY DEF AlignmentsFit, Multiple
<1>3. k * m \in Nat /\ k * (m * FileAlign) = (k * m) * FileAlign
  BY LayoutAssumption
<1> QED
  BY <1>1, <1>2, <1>3 DEF Multiple

-----------------------------------------------------------------------------
(* What one section maps *)

LEMMA HeaderLaid ==
    ASSUME NEW im, WellLaid(im), NEW i \in 1..im.n, NEW h, h = im.tbl[i]
    PROVE  /\ h \in DWHeader
           /\ h.rp \in Nat /\ h.rs \in Nat /\ h.va \in Nat /\ h.vs \in Nat
           /\ DeclaredVirtual(h) \in Nat /\ (DeclaredVirtual(h) = 0 => h.rs = 0)
           /\ h.rp + h.rs <= im.fs /\ h.va + DeclaredVirtual(h) <= im.img
           /\ Multiple(h.rp, FileAlign) /\ Multiple(h.va, SectAlign)
           /\ HdrsSize <= h.rp /\ HdrsSize <= h.va
           /\ im.fs \in Nat /\ im.img \in Nat /\ im.n \in Nat
<1>1. i \in 1..Slots
  BY TableAssumption DEF WellLaid
<1>2. h \in DWHeader
  BY <1>1 DEF WellLaid
<1>3. h.rp \in Nat /\ h.rs \in Nat /\ h.va \in Nat /\ h.vs \in Nat /\ DeclaredVirtual(h) \in Nat
  BY <1>2, HeaderNat
<1>4. DeclaredVirtual(h) = 0 => h.rs = 0
  BY <1>3 DEF DeclaredVirtual
<1> QED
  BY <1>2, <1>3, <1>4, TableAssumption DEF WellLaid, Ordered, Aligned

LEMMA LaidInOrder ==
    ASSUME NEW im, WellLaid(im), NEW i \in 1..im.n, NEW j \in 1..im.n, i < j
    PROVE  /\ im.tbl[i].rp + im.tbl[i].rs <= im.tbl[j].rp
           /\ im.tbl[i].va + DeclaredVirtual(im.tbl[i]) <= im.tbl[j].va
  BY DEF WellLaid, Ordered

\* An aligned section starts where its header says.
LEMMA RawStartIs ==
    ASSUME NEW im, WellLaid(im), AlignmentsFit, NEW i \in 1..im.n
    PROVE  RawStart(im, i) = im.tbl[i].rp
<1> DEFINE rp == im.tbl[i].rp
<1>1. rp \in Nat /\ rp <= im.fs /\ Multiple(rp, FileAlign) /\ im.fs \in Nat
  BY HeaderLaid
<1>2. FileAlign \in Nat \ {0}
  BY LayoutAssumption DEF AlignmentsFit, ValidAlignment
<1>3. (rp \div FileAlign) * FileAlign = rp
  <2>1. PICK k \in Nat : rp = k * FileAlign
    BY <1>1 DEF Multiple
  <2> DEFINE q == rp \div FileAlign
  <2>2. q \in Nat /\ rp = FileAlign * q + (rp % FileAlign) /\ (rp % FileAlign) \in 0..FileAlign-1
    BY <1>1, <1>2
  <2> HIDE DEF q, rp
  <2>3. k * FileAlign \in Nat /\ q * FileAlign \in Nat
    BY <1>2, <2>2
  <2>4. ~(k < q)
    <3>1. SUFFICES ASSUME k < q PROVE FALSE
      OBVIOUS
    <3>2. (q - k - 1) * FileAlign \in Nat /\ q * FileAlign = k * FileAlign + FileAlign + (q - k - 1) * FileAlign
      BY <1>2, <2>2, <3>1
    <3> QED
      BY <1>1, <1>2, <2>1, <2>2, <2>3, <3>2
  <2>5. ~(q < k)
    <3>1. SUFFICES ASSUME q < k PROVE FALSE
      OBVIOUS
    <3>2. (k - q - 1) * FileAlign \in Nat /\ k * FileAlign = q * FileAlign + FileAlign + (k - q - 1) * FileAlign
      BY <1>2, <2>2, <3>1
    <3> QED
      BY <1>1, <1>2, <2>1, <2>2, <2>3, <3>2
  <2>6. q = k
    BY <2>2, <2>4, <2>5
  <2> QED
    BY <2>1, <2>6 DEF q
<1> QED
  BY <1>1, <1>2, <1>3 DEF RawStart

\* The raw content of a section stays in the file and in front of the next
\* section, and fits what the section takes in memory.
LEMMA RawSize ==
    ASSUME NEW im, WellLaid(im), AlignmentsFit, NEW i \in 1..im.n,
           NEW h, h = im.tbl[i]
    PROVE  /\ MappedRaw(im, i) \in Nat
           /\ h.rp + MappedRaw(im, i) <= im.fs
           /\ MappedRaw(im, i) <= RoundUp(DeclaredVirtual(h), SectAlign)
           /\ MappedRaw(im, i) > 0 => DeclaredVirtual(h) > 0
           /\ \A j \in 1..im.n : i < j => h.rp + MappedRaw(im, i) <= im.tbl[j].rp
<1> DEFINE dv == DeclaredVirtual(h)
           least == Least(h.rs, dv)
           want == RoundUp(least, FileAlign)
           room == RoundUp(dv, SectAlign)
           mr == MappedRaw(im, i)
<1>1. /\ h.rp \in Nat /\ h.rs \in Nat /\ dv \in Nat /\ im.fs \in Nat
      /\ h.rp + h.rs <= im.fs /\ Multiple(h.rp, FileAlign) /\ (dv = 0 => h.rs = 0)
  BY HeaderLaid
<1>2. FileAlign \in Nat \ {0} /\ SectAlign \in Nat \ {0}
  BY LayoutAssumption DEF AlignmentsFit, ValidAlignment
<1>3. least \in Nat /\ least <= h.rs /\ least <= dv
  BY <1>1 DEF Least
<1> HIDE DEF dv, least
<1>4. want \in Nat /\ room \in Nat /\ dv <= room
  BY <1>1, <1>2, <1>3, RoundUpNat
<1>5. want <= room
  <2>1. Multiple(room, SectAlign) /\ Multiple(room, FileAlign)
    BY <1>1, <1>2, <1>4, RoundUpMultiple, MultipleOfBoth
  <2>2. least <= room
    BY <1>1, <1>3, <1>4
  <2> QED
    BY <1>2, <1>3, <1>4, <2>1, <2>2, RoundUpLeast
<1>6. RawStart(im, i) = h.rp
  BY RawStartIs
<1>7. mr = IF h.rs = 0 THEN 0
           ELSE IF h.rp + want <= im.fs THEN want ELSE Least(im.fs - h.rp, room)
  <2>1. h.rp # NoAddr
    BY <1>1 DEF NoAddr
  <2> QED
    BY <1>2, <1>6, <2>1 DEF MappedRaw, Align, want, room, least, dv
<1> HIDE DEF want, room, mr
<1>8. mr \in Nat /\ h.rp + mr <= im.fs /\ mr <= room /\ (mr > 0 => h.rs # 0)
  BY <1>1, <1>4, <1>5, <1>7 DEF Least
<1>9. mr > 0 => dv > 0
  BY <1>1, <1>8
<1>10. ASSUME NEW j \in 1..im.n, i < j
       PROVE  h.rp + mr <= im.tbl[j].rp
  <2>1. /\ im.tbl[j].rp \in Nat /\ Multiple(im.tbl[j].rp, FileAlign) /\ im.tbl[j].rp <= im.fs
        /\ h.rp + h.rs <= im.tbl[j].rp
    BY <1>10, HeaderLaid, LaidInOrder
  <2>2. h.rp + least <= im.tbl[j].rp
    BY <1>1, <1>3, <2>1
  <2>3. h.rp + want <= im.tbl[j].rp
    BY <1>1, <1>2, <1>3, <2>1, <2>2, RoundUpBetween DEF want
  <2>4. h.rp + want <= im.fs
    BY <1>1, <1>4, <2>1, <2>3
  <2> QED
    BY <1>1, <1>7, <2>1, <2>3, <2>4
<1> QED
  BY <1>8, <1>9, <1>10 DEF mr, dv, room

\* What an aligned section takes in memory, whatever else is loaded.
VirtSize(im, i) ==
    Least(im.tbl[i].va + RoundUp(DeclaredVirtual(im.tbl[i]), SectAlign), MappedSize(im.img))
        - im.tbl[i].va

LEMMA MappedSizeAbove ==
    ASSUME NEW img \in Nat
    PROVE  MappedSize(img) \in Nat /\ img <= MappedSize(img)
  BY LayoutAssumption DEF MappedSize, Greatest

LEMMA VirtSizeBounds ==
    ASSUME NEW im, WellLaid(im), AlignmentsFit, NEW i \in 1..im.n,
           NEW h, h = im.tbl[i]
    PROVE  /\ VirtSize(im, i) \in Nat
           /\ VirtSize(im, i) >= DeclaredVirtual(h)
           /\ h.va + VirtSize(im, i) <= MappedSize(im.img)
           /\ \A j \in 1..im.n : i < j => h.va + RoundUp(DeclaredVirtual(h), SectAlign) <= im.tbl[j].va
           /\ \A j \in 1..im.n : i < j => h.va + VirtSize(im, i) <= im.tbl[j].va
<1> DEFINE dv == DeclaredVirtual(h)
           room == RoundUp(dv, SectAlign)
           size == MappedSize(im.img)
<1>1. /\ h.va \in Nat /\ dv \in Nat /\ im.img \in Nat /\ h.va + dv <= im.img
      /\ Multiple(h.va, SectAlign)
  BY HeaderLaid
<1>2. SectAlign \in Nat \ {0}
  BY LayoutAssumption DEF AlignmentsFit, ValidAlignment
<1>3. size \in Nat /\ im.img <= size
  BY <1>1, MappedSizeAbove
<1> HIDE DEF dv, size
<1>4. room \in Nat /\ dv <= room
  BY <1>1, <1>2, RoundUpNat
<1>5. VirtSize(im, i) = Least(h.va + room, size) - h.va
  BY DEF VirtSize, room, size, dv
<1> HIDE DEF room
<1>6. VirtSize(im, i) \in Nat /\ VirtSize(im, i) >= dv /\ h.va + VirtSize(im, i) <= size
      /\ VirtSize(im, i) <= room
  BY <1>1, <1>3, <1>4, <1>5 DEF Least
<1>7. ASSUME NEW j \in 1..im.n, i < j
      PROVE  h.va + room <= im.tbl[j].va /\ h.va + VirtSize(im, i) <= im.tbl[j].va
  <2>1. im.tbl[j].va \in Nat /\ Multiple(im.tbl[j].va, SectAlign) /\ h.va + dv <= im.tbl[j].va
    BY <1>7, HeaderLaid, LaidInOrder DEF dv
  <2>2. h.va + room <= im.tbl[j].va
    BY <1>1, <1>2, <2>1, RoundUpBetween DEF room
  <2> QED
    BY <1>1, <1>4, <1>6, <2>1, <2>2
<1> QED
  BY <1>6, <1>7 DEF dv, room, size

\* The sections that are loaded already never trim another one: the maps of an
\* aligned file do not depend on the order in which they were loaded.
LEMMA VirtSizeIs ==
    ASSUME NEW im, WellLaid(im), AlignmentsFit, NEW i \in 1..im.n,
           NEW known, known \subseteq 1..im.n
    PROVE  MappedVirtual(im, i, known) = VirtSize(im, i)
<1> DEFINE h == im.tbl[i]
           dv == DeclaredVirtual(h)
           mr == MappedRaw(im, i)
           most == Greatest(dv, mr)
           full == h.va + RoundUp(most, SectAlign)
           nexts == {im.tbl[j].va : j \in {k \in known : im.tbl[k].va > h.va /\ im.tbl[k].va < full}}
<1>1. /\ h.va \in Nat /\ dv \in Nat /\ im.img \in Nat /\ h.va + dv <= im.img
      /\ mr \in Nat /\ mr <= RoundUp(dv, SectAlign)
  BY HeaderLaid, RawSize
<1>2. SectAlign \in Nat \ {0}
  BY LayoutAssumption DEF AlignmentsFit, ValidAlignment
<1>3. RoundUp(dv, SectAlign) \in Nat /\ dv <= RoundUp(dv, SectAlign) /\ Multiple(RoundUp(dv, SectAlign), SectAlign)
  BY <1>1, <1>2, RoundUpNat, RoundUpMultiple
<1>4. most \in Nat /\ dv <= most /\ most <= RoundUp(dv, SectAlign)
  BY <1>1, <1>3 DEF Greatest
<1>5. RoundUp(most, SectAlign) = RoundUp(dv, SectAlign)
  <2> HIDE DEF most, dv
  <2>1. RoundUp(most, SectAlign) \in Nat /\ most <= RoundUp(most, SectAlign)
        /\ Multiple(RoundUp(most, SectAlign), SectAlign)
    BY <1>2, <1>4, RoundUpNat, RoundUpMultiple
  <2>2. RoundUp(most, SectAlign) <= RoundUp(dv, SectAlign)
    BY <1>2, <1>3, <1>4, RoundUpLeast
  <2>3. dv <= RoundUp(most, SectAlign)
    BY <1>1, <1>4, <2>1
  <2>4. RoundUp(dv, SectAlign) <= RoundUp(most, SectAlign)
    BY <1>1, <1>2, <2>1, <2>3, RoundUpLeast
  <2> QED
    BY <1>3, <2>1, <2>2, <2>4
<1>6. nexts = {}
  <2>1. SUFFICES ASSUME NEW k \in known, im.tbl[k].va > h.va, im.tbl[k].va < full
                 PROVE  FALSE
    OBVIOUS
  <2>2. k \in 1..im.n /\ im.tbl[k].va \in Nat /\ DeclaredVirtual(im.tbl[k]) \in Nat
    BY HeaderLaid
  <2>3. CASE k < i
    <3>1. im.tbl[k].va + DeclaredVirtual(im.tbl[k]) <= h.va
      BY <2>2, <2>3, LaidInOrder
    <3> QED
      BY <1>1, <2>1, <2>2, <3>1
  <2>4. CASE i < k
    <3>1. h.va + RoundUp(dv, SectAlign) <= im.tbl[k].va
      BY <2>2, <2>4, VirtSizeBounds
    <3> HIDE DEF h, dv
    <3> QED
      BY <1>1, <1>3, <1>5, <2>1, <2>2, <3>1
  <2>5. CASE k = i
    BY <1>1, <2>1, <2>5
  <2> QED
    BY <2>2, <2>3, <2>4, <2>5
<1>7. MappedSize(im.img) \in Nat /\ ~(MappedSize(im.img) < h.va)
  BY <1>1, MappedSizeAbove
<1>8. MappedVirtual(im, i, known) = Least(full, MappedSize(im.img)) - h.va
  <2>1. full = h.va + Align(Greatest(DeclaredVirtual(h), MappedRaw(im, i)), SectAlign)
    BY <1>2 DEF Align
  <2> HIDE DEF full
  <2> QED
    BY <1>6, <1>7, <2>1 DEF MappedVirtual
<1>9. full = h.va + RoundUp(DeclaredVirtual(h), SectAlign)
  BY <1>5
<1> HIDE DEF full
<1> QED
  BY <1>8, <1>9 DEF VirtSize
-----------------------------------------------------------------------------
(* What the maps hold *)

\* A map from the end of each of the sections S to that section.
Keyed(ends, S) == [e \in {ends[i] : i \in S} |-> CHOOSE i \in S : ends[i] = e]

OneEndEach(ends, S) == \A i, j \in S : ends[i] = ends[j] => i = j

LEMMA KeyedAt ==
    ASSUME NEW ends, NEW S, OneEndEach(ends, S), NEW i \in S
    PROVE  ends[i] \in DOMAIN Keyed(ends, S) /\ Keyed(ends, S)[ends[i]] = i
<1>1. (CHOOSE j \in S : ends[j] = ends[i]) = i
  BY DEF OneEndEach
<1> QED
  BY <1>1 DEF Keyed

LEMMA KeyedPut ==
    ASSUME NEW ends, NEW S, NEW k, k \notin S, OneEndEach(ends, S \cup {k})
    PROVE  Put(Keyed(ends, S), ends[k], k) = Keyed(ends, S \cup {k})
<1> DEFINE T == S \cup {k}
           new == Put(Keyed(ends, S), ends[k], k)
<1>1. DOMAIN new = {ends[i] : i \in T} /\ DOMAIN Keyed(ends, T) = {ends[i] : i \in T}
  BY DEF Put, Keyed
<1>2. ASSUME NEW i \in T
      PROVE  new[ends[i]] = i
  <2>1. CASE i = k
    BY <2>1 DEF Put
  <2>2. CASE i # k
    <3>1. i \in S /\ ends[i] # ends[k] /\ OneEndEach(ends, S)
      BY <1>2, <2>2 DEF OneEndEach
    <3>2. Keyed(ends, S)[ends[i]] = i /\ ends[i] \in DOMAIN Keyed(ends, S)
      BY <3>1, KeyedAt
    <3> QED
      BY <3>1, <3>2 DEF Put
  <2> QED
    BY <2>1, <2>2
<1>3. \A i \in T : Keyed(ends, T)[ends[i]] = i
  BY KeyedAt
<1>4. \A e \in {ends[i] : i \in T} : new[e] = Keyed(ends, T)[e]
  BY <1>2, <1>3
<1>5. new = [e \in DOMAIN new |-> new[e]] /\ Keyed(ends, T) = [e \in DOMAIN Keyed(ends, T) |-> Keyed(ends, T)[e]]
  BY DEF Put, Keyed
<1> HIDE DEF new, T
<1> QED
  BY <1>1, <1>4, <1>5 DEF new, T

RawEnds(im) == [i \in 1..im.n |-> im.tbl[i].rp + MappedRaw(im, i)]
VirtEnds(im) == [i \in 1..im.n |-> im.tbl[i].va + VirtSize(im, i)]
WithContent(im, k) == {i \in 1..k : MappedRaw(im, i) > 0}
MapsUpTo(im, k) == [r |-> Keyed(RawEnds(im), WithContent(im, k)),
                    v |-> Keyed(VirtEnds(im), WithContent(im, k))]

LEMMA EndsInOrder ==
    ASSUME NEW im, WellLaid(im), AlignmentsFit,
           NEW i \in 1..im.n, MappedRaw(im, i) > 0
    PROVE  /\ RawEnds(im)[i] \in Nat /\ VirtEnds(im)[i] \in Nat
           /\ im.tbl[i].rp < RawEnds(im)[i] /\ im.tbl[i].va < VirtEnds(im)[i]
           /\ \A j \in 1..im.n : i < j =>
                 /\ RawEnds(im)[i] <= im.tbl[j].rp /\ VirtEnds(im)[i] <= im.tbl[j].va
                 /\ MappedRaw(im, j) > 0 =>
                       RawEnds(im)[i] < RawEnds(im)[j] /\ VirtEnds(im)[i] < VirtEnds(im)[j]
<1>1. ASSUME NEW k \in 1..im.n, MappedRaw(im, k) > 0
      PROVE  /\ RawEnds(im)[k] = im.tbl[k].rp + MappedRaw(im, k)
             /\ VirtEnds(im)[k] = im.tbl[k].va + VirtSize(im, k)
             /\ im.tbl[k].rp \in Nat /\ im.tbl[k].va \in Nat
             /\ RawEnds(im)[k] \in Nat /\ VirtEnds(im)[k] \in Nat
             /\ im.tbl[k].rp < RawEnds(im)[k] /\ im.tbl[k].va < VirtEnds(im)[k]
  <2>1. im.tbl[k].rp \in Nat /\ im.tbl[k].va \in Nat /\ DeclaredVirtual(im.tbl[k]) \in Nat
    BY HeaderLaid
  <2>2. MappedRaw(im, k) \in Nat /\ DeclaredVirtual(im.tbl[k]) > 0
    BY <1>1, RawSize
  <2>3. VirtSize(im, k) \in Nat /\ VirtSize(im, k) >= DeclaredVirtual(im.tbl[k])
    BY VirtSizeBounds
  <2>4. RawEnds(im)[k] = im.tbl[k].rp + MappedRaw(im, k) /\ VirtEnds(im)[k] = im.tbl[k].va + VirtSize(im, k)
    BY DEF RawEnds, VirtEnds
  <2>5. MappedRaw(im, k) > 0 /\ VirtSize(im, k) > 0
    BY <1>1, <2>1, <2>2, <2>3
  <2> QED
    BY <2>1, <2>2, <2>3, <2>4, <2>5
<1>2. ASSUME NEW j \in 1..im.n, i < j
      PROVE  RawEnds(im)[i] <= im.tbl[j].rp /\ VirtEnds(im)[i] <= im.tbl[j].va
             /\ im.tbl[j].rp \in Nat /\ im.tbl[j].va \in Nat
  BY <1>1, <1>2, HeaderLaid, RawSize, VirtSizeBounds
<1>3. ASSUME NEW j \in 1..im.n, i < j, MappedRaw(im, j) > 0
      PROVE  RawEnds(im)[i] < RawEnds(im)[j] /\ VirtEnds(im)[i] < VirtEnds(im)[j]
  BY <1>1, <1>2, <1>3
<1> QED
  BY <1>1, <1>2, <1>3

LEMMA EndsApart ==
    ASSUME NEW im, WellLaid(im), AlignmentsFit, NEW k \in 0..im.n
    PROVE  /\ OneEndEach(RawEnds(im), WithContent(im, k))
           /\ OneEndEach(VirtEnds(im), WithContent(im, k))
<1>1. im.n \in Nat
  BY TableAssumption DEF WellLaid
<1>2. ASSUME NEW i \in WithContent(im, k), NEW j \in WithContent(im, k), i # j
      PROVE  RawEnds(im)[i] # RawEnds(im)[j] /\ VirtEnds(im)[i] # VirtEnds(im)[j]
  <2>1. i \in 1..im.n /\ j \in 1..im.n /\ MappedRaw(im, i) > 0 /\ MappedRaw(im, j) > 0
    BY <1>1 DEF WithContent
  <2>2. CASE i < j
    BY <2>1, <2>2, EndsInOrder
  <2>3. CASE j < i
    BY <2>1, <2>3, EndsInOrder
  <2> QED
    BY <1>2, <2>1, <2>2, <2>3
<1> QED
  BY <1>2 DEF OneEndEach

\* SectHdrsWrapper::addMapping, one section after the other.
LEMMA AddMappingIs ==
    ASSUME NEW im, WellLaid(im), AlignmentsFit, NEW k \in 1..im.n,
           NEW known, known \subseteq 1..im.n
    PROVE  AddMapping(MapsUpTo(im, k-1), im, k, known) = MapsUpTo(im, k)
<1> DEFINE old == WithContent(im, k-1)
           maps == MapsUpTo(im, k-1)
           rEnd == RawStart(im, k) + MappedRaw(im, k)
           vEnd == VirtStart(im, k) + MappedVirtual(im, k, known)
<1>1. im.n \in Nat /\ k-1 \in 0..im.n /\ k \in 0..im.n /\ MappedRaw(im, k) \in Nat
  BY RawSize, TableAssumption DEF WellLaid
<1>2. CASE MappedRaw(im, k) = 0
  <2>1. WithContent(im, k) = old
    BY <1>1, <1>2 DEF WithContent
  <2> QED
    BY <1>2, <2>1 DEF AddMapping, MapsUpTo
<1>3. CASE MappedRaw(im, k) # 0
  <2>1. MappedRaw(im, k) > 0
    BY <1>1, <1>3
  <2>2. WithContent(im, k) = old \cup {k} /\ k \notin old
    BY <1>1, <2>1 DEF WithContent
  <2>3. rEnd = RawEnds(im)[k] /\ vEnd = VirtEnds(im)[k]
    BY RawStartIs, VirtSizeIs DEF RawEnds, VirtEnds, VirtStart
  <2>4. OneEndEach(RawEnds(im), old \cup {k}) /\ OneEndEach(VirtEnds(im), old \cup {k})
    BY <1>1, <2>2, EndsApart
  <2>5. rEnd \notin DOMAIN maps.r /\ vEnd \notin DOMAIN maps.v
    BY <2>2, <2>3, <2>4 DEF MapsUpTo, Keyed, OneEndEach
  <2>6. AddMapping(maps, im, k, known) = [r |-> Put(maps.r, rEnd, k), v |-> Put(maps.v, vEnd, k)]
    BY <1>3, <2>5 DEF AddMapping
  <2>7. /\ Put(Keyed(RawEnds(im), old), RawEnds(im)[k], k) = Keyed(RawEnds(im), old \cup {k})
        /\ Put(Keyed(VirtEnds(im), old), VirtEnds(im)[k], k) = Keyed(VirtEnds(im), old \cup {k})
    BY <2>2, <2>4, KeyedPut
  <2>8. maps.r = Keyed(RawEnds(im), old) /\ maps.v = Keyed(VirtEnds(im), old)
    BY DEF MapsUpTo
  <2> HIDE DEF maps, old, rEnd, vEnd
  <2> QED
    BY <2>2, <2>3, <2>6, <2>7, <2>8 DEF MapsUpTo, maps
<1> QED
  BY <1>2, <1>3

\* The least-number principle, for sets.
LEMMA LeastMember ==
    ASSUME NEW T, T \subseteq Nat, T # {}
    PROVE  \E m \in T : \A k \in T : m <= k
<1> DEFINE R == {ss \in Nat \X Nat : ss[1] < ss[2]}
<1>1. R = OpToRel(<, Nat)
  BY DEF OpToRel
<1>2. IsWellFoundedOn(R, Nat)
  BY <1>1, NatLessThanWellFounded
<1> HIDE DEF R
<1>3. PICK m \in T : \A k \in T : ~(<<k, m>> \in R)
  BY <1>2, WFMin
<1>4. ASSUME NEW k \in T
      PROVE  m <= k
  <2>1. k \in Nat /\ m \in Nat
    OBVIOUS
  <2>2. ~(k < m)
    BY <1>3, <2>1 DEF R
  <2> QED
    BY <2>1, <2>2
<1> QED
  BY <1>4

\* Whenever the maps were built, and however: each section that maps content of
\* the file is there under its two ends, and nothing else is.
LEMMA MapsAre ==
    ASSUME NEW im, WellLaid(im), AlignmentsFit, NEW mode \in {"first", "rewrap", "reload"}
    PROVE  Maps(im, mode) = MapsUpTo(im, im.n)
<1> DEFINE Noted(maps, k) == AddMapping(maps, im, k, Known(mode, k, im.n))
           Built(g) == g = [k \in 0..im.n |-> IF k = 0 THEN EmptyMaps ELSE Noted(g[k-1], k)]
           closed == [k \in 0..im.n |-> MapsUpTo(im, k)]
           build == CHOOSE g : g = [k \in 0..im.n |-> IF k = 0 THEN EmptyMaps
                                                      ELSE AddMapping(g[k-1], im, k, Known(mode, k, im.n))]
<1>1. im.n \in Nat
  BY TableAssumption DEF WellLaid
<1>2. MapsUpTo(im, 0) = EmptyMaps
  <2>1. WithContent(im, 0) = {}
    BY DEF WithContent
  <2>2. \A ends : Keyed(ends, {}) = <<>>
    BY DEF Keyed
  <2> QED
    BY <2>1, <2>2 DEF MapsUpTo, EmptyMaps
<1>3. ASSUME NEW k \in 1..im.n
      PROVE  Noted(MapsUpTo(im, k-1), k) = MapsUpTo(im, k)
  <2>1. Known(mode, k, im.n) \subseteq 1..im.n
    BY <1>1 DEF Known
  <2> QED
    BY <2>1, AddMappingIs
<1>4. Built(closed)
  <2>1. ASSUME NEW k \in 0..im.n
        PROVE  closed[k] = IF k = 0 THEN EmptyMaps ELSE Noted(closed[k-1], k)
    <3>1. CASE k = 0
      BY <1>2, <3>1
    <3>2. CASE k # 0
      <4>1. k \in 1..im.n /\ k-1 \in 0..im.n
        BY <1>1, <3>2
      <4>2. closed[k-1] = MapsUpTo(im, k-1) /\ closed[k] = MapsUpTo(im, k)
        BY <4>1
      <4> HIDE DEF closed
      <4> QED
        BY <1>3, <3>2, <4>1, <4>2
    <3> QED
      BY <3>1, <3>2
  <2> HIDE DEF Add
  <2> QED
    BY <2>1
<1>5. Built(build)
  <2>1. \E g : Built(g)
    BY <1>4
  <2> QED
    BY <2>1
<1>6. Maps(im, mode) = build[im.n]
  BY DEF Maps
<1> HIDE DEF build, Add
<1>7. \A k \in 0..im.n : build[k] = MapsUpTo(im, k)
  <2> DEFINE T == {k \in 0..im.n : build[k] # MapsUpTo(im, k)}
  <2>1. SUFFICES ASSUME T # {} PROVE FALSE
    OBVIOUS
  <2>2. T \subseteq Nat
    BY <1>1
  <2>3. PICK m \in T : \A k \in T : m <= k
    <3> HIDE DEF T
    <3> QED
      BY <2>1, <2>2, LeastMember
  <2>4. m \in 0..im.n /\ m \in Nat
    BY <1>1
  <2>5. CASE m = 0
    BY <1>2, <1>5, <2>4, <2>5
  <2>6. CASE m # 0
    <3>1. m \in 1..im.n /\ m-1 \in 0..im.n /\ ~(m <= m-1)
      BY <1>1, <2>4, <2>6
    <3>2. build[m-1] = MapsUpTo(im, m-1)
      BY <2>3, <3>1
    <3>3. build[m] = Noted(build[m-1], m)
      BY <1>5, <2>4, <2>6
    <3> QED
      BY <1>3, <3>1, <3>2, <3>3
  <2> QED
    BY <2>5, <2>6
<1> QED
  BY <1>1, <1>6, <1>7
-----------------------------------------------------------------------------
(* Looking an address up *)

Holding(starts, sizes, addr, s) == starts[s] <= addr /\ addr < starts[s] + sizes[s]

Candidates(map, starts, sizes, addr) ==
    {k \in DOMAIN map : k >= addr /\ (Holding(starts, sizes, addr, map[k]) \/ addr < starts[map[k]])}

\* getSecHdrAtOffset on a map that holds sections only.
Hit(map, starts, sizes, addr) ==
    LET found == Candidates(map, starts, sizes, addr)
    IN IF found = {} \/ ~Holding(starts, sizes, addr, map[Min(found)]) THEN NoSec ELSE map[Min(found)]

\* Sections one behind the other, each under a key that is not behind its end.
Layered(ends, starts, sizes, S) ==
    /\ \A i \in S : /\ ends[i] \in Nat /\ starts[i] \in Nat /\ sizes[i] \in Nat
                    /\ starts[i] < ends[i] /\ ends[i] <= starts[i] + sizes[i]
    /\ \A i, j \in S : i < j => starts[i] + sizes[i] <= starts[j]

LEMMA MinOf ==
    ASSUME NEW T, T \subseteq Nat, NEW m \in T, \A k \in T : m <= k
    PROVE  Min(T) = m
<1>1. \A k \in T : k \in Nat
  OBVIOUS
<1>2. \A x \in T : (\A k \in T : x <= k) => x = m
  BY <1>1
<1> QED
  BY <1>2 DEF Min

LEMMA HitIs ==
    ASSUME NEW n \in Nat, NEW S, S \subseteq 1..n, NEW ends, NEW starts, NEW sizes, NEW addr \in Nat,
           OneEndEach(ends, S), Layered(ends, starts, sizes, S),
           NEW hit, hit = Hit(Keyed(ends, S), starts, sizes, addr)
    PROVE  /\ \A i \in S : Holding(starts, sizes, addr, i) /\ addr <= ends[i] => hit = i
           /\ hit # NoSec => hit \in S /\ Holding(starts, sizes, addr, hit)
<1> DEFINE map == Keyed(ends, S)
           found == Candidates(map, starts, sizes, addr)
<1>1. DOMAIN map = {ends[i] : i \in S} /\ \A i \in S : map[ends[i]] = i
  BY KeyedAt DEF Keyed
<1> HIDE DEF map
<1>2. found \subseteq Nat
  BY <1>1 DEF Candidates, Layered
<1>3. ASSUME NEW i \in S, Holding(starts, sizes, addr, i), addr <= ends[i]
      PROVE  Hit(map, starts, sizes, addr) = i
  <2>1. ends[i] \in found
    BY <1>1, <1>3 DEF Candidates, Layered
  <2>2. ASSUME NEW k \in found
        PROVE  ends[i] <= k
    <3>1. PICK j \in S : k = ends[j] /\ map[k] = j
      BY <1>1 DEF Candidates
    <3>2. Holding(starts, sizes, addr, j) \/ addr < starts[j]
      BY <3>1 DEF Candidates
    <3>3. i \in Nat /\ j \in Nat
      OBVIOUS
    <3>4. ~(j < i)
      BY <1>3, <3>2 DEF Layered, Holding
    <3>5. CASE j = i
      BY <1>2, <2>1, <3>1, <3>5
    <3>6. CASE i < j
      <4>1. /\ starts[i] + sizes[i] <= starts[j] /\ ends[i] <= starts[i] + sizes[i]
            /\ starts[j] < ends[j] /\ starts[i] \in Nat /\ sizes[i] \in Nat /\ ends[i] \in Nat
            /\ starts[j] \in Nat /\ ends[j] \in Nat
        BY <3>6 DEF Layered
      <4> QED
        BY <3>1, <4>1
    <3> QED
      BY <3>3, <3>4, <3>5, <3>6
  <2>3. Min(found) = ends[i]
    <3> HIDE DEF found
    <3> QED
      BY <1>2, <2>1, <2>2, MinOf
  <2> QED
    BY <1>1, <1>3, <2>1, <2>3 DEF Hit
<1>4. ASSUME Hit(map, starts, sizes, addr) # NoSec
      PROVE  hit \in S /\ Holding(starts, sizes, addr, hit)
  <2>1. found # {} /\ Hit(map, starts, sizes, addr) = map[Min(found)]
        /\ Holding(starts, sizes, addr, map[Min(found)])
    BY <1>4 DEF Hit
  <2>2. PICK m \in found : \A k \in found : m <= k
    <3> HIDE DEF found
    <3> QED
      BY <1>2, <2>1, LeastMember
  <2>3. Min(found) = m
    <3> HIDE DEF found
    <3> QED
      BY <1>2, <2>2, MinOf
  <2>4. m \in DOMAIN map
    BY DEF Candidates
  <2>5. map[m] \in S
    BY <1>1, <2>4
  <2> QED
    BY <2>1, <2>3, <2>5 DEF map
<1> QED
  BY <1>3, <1>4 DEF map

\* The headers of two images are the same; the image in memory may have grown.
SameHeaders(old, im) ==
    old.tbl = im.tbl /\ old.n = im.n /\ old.fs = im.fs /\ old.img <= im.img

RawStarts(im) == [i \in 1..im.n |-> im.tbl[i].rp]
ContentSizes(im) == [i \in 1..im.n |-> MappedRaw(im, i)]
VirtStarts(im) == [i \in 1..im.n |-> im.tbl[i].va]
MemorySizes(im) == [i \in 1..im.n |-> VirtSize(im, i)]

LEMMA SameContent ==
    ASSUME NEW old, NEW im, SameHeaders(old, im), NEW i
    PROVE  MappedRaw(old, i) = MappedRaw(im, i)
  BY DEF SameHeaders, MappedRaw, RawStart

LEMMA FindRawHits ==
    ASSUME NEW old, NEW im, WellLaid(old), WellLaid(im), AlignmentsFit, SameHeaders(old, im),
           NEW raw \in Nat
    PROVE  LET S == WithContent(old, old.n) IN
           /\ FindRaw(MapsUpTo(old, old.n), im, raw) = Hit(Keyed(RawEnds(old), S), RawStarts(im), ContentSizes(im), raw)
           /\ S \subseteq 1..im.n /\ im.n \in Nat
           /\ OneEndEach(RawEnds(old), S)
           /\ Layered(RawEnds(old), RawStarts(im), ContentSizes(im), S)
<1> DEFINE S == WithContent(old, old.n)
           map == Keyed(RawEnds(old), S)
           starts == RawStarts(im)
           sizes == ContentSizes(im)
<1>1. old.n = im.n /\ im.n \in Nat /\ S \subseteq 1..im.n /\ im.n \in 0..old.n
  BY TableAssumption DEF WellLaid, SameHeaders, WithContent
<1>2. OneEndEach(RawEnds(old), S)
  BY <1>1, EndsApart
<1>3. \A i \in 1..im.n : RawStart(im, i) = starts[i] /\ MappedRaw(im, i) = sizes[i] /\ starts[i] # NoAddr
  <2>1. \A i \in 1..im.n : im.tbl[i].rp \in Nat
    BY HeaderLaid
  <2> QED
    BY <2>1, RawStartIs DEF RawStarts, ContentSizes, NoAddr
<1>4. \A k \in DOMAIN map : map[k] \in 1..im.n /\ map[k] # NoSec
  <2>1. ASSUME NEW k \in DOMAIN map
        PROVE  map[k] \in S
    <3>1. PICK i \in S : k = RawEnds(old)[i]
      BY DEF Keyed
    <3> QED
      BY <1>2, <3>1, KeyedAt
  <2> QED
    BY <1>1, <2>1 DEF NoSec
<1>5. FindRaw(MapsUpTo(old, old.n), im, raw) = Hit(map, starts, sizes, raw)
  <2>1. Candidates(map, starts, sizes, raw) =
            {k \in DOMAIN map : /\ k >= raw /\ map[k] # NoSec
                                /\ RawStart(im, map[k]) # NoAddr
                                /\ \/ RawStart(im, map[k]) <= raw /\ raw < RawStart(im, map[k]) + MappedRaw(im, map[k])
                                   \/ raw < RawStart(im, map[k])}
    <3> HIDE DEF map, starts, sizes
    <3> QED
      BY <1>3, <1>4 DEF Candidates, Holding
  <2>2. MapsUpTo(old, old.n).r = map
    BY DEF MapsUpTo
  <2>3. ASSUME Candidates(map, starts, sizes, raw) # {}
        PROVE  Min(Candidates(map, starts, sizes, raw)) \in DOMAIN map
    <3>1. DOMAIN map \subseteq Nat
      <4>1. \A i \in S : RawEnds(old)[i] \in Nat
        BY <1>1, EndsInOrder DEF WithContent
      <4> QED
        BY <4>1 DEF Keyed
    <3>2. Candidates(map, starts, sizes, raw) \subseteq DOMAIN map
      BY DEF Candidates
    <3> HIDE DEF map, starts, sizes
    <3>3. PICK m \in Candidates(map, starts, sizes, raw) : \A k \in Candidates(map, starts, sizes, raw) : m <= k
      BY <2>3, <3>1, <3>2, LeastMember
    <3>4. Min(Candidates(map, starts, sizes, raw)) = m
      BY <3>1, <3>2, <3>3, MinOf
    <3> QED
      BY <3>2, <3>4
  <2> HIDE DEF map, starts, sizes
  <2>4. ASSUME NEW k \in DOMAIN map
        PROVE  Holding(starts, sizes, raw, map[k]) <=>
                  RawStart(im, map[k]) <= raw /\ raw < RawStart(im, map[k]) + MappedRaw(im, map[k])
    BY <1>3, <1>4 DEF Holding
  <2> DEFINE C == Candidates(map, starts, sizes, raw)
  <2>5. FindRaw(MapsUpTo(old, old.n), im, raw) =
            IF C = {} \/ ~(RawStart(im, map[Min(C)]) <= raw
                           /\ raw < RawStart(im, map[Min(C)]) + MappedRaw(im, map[Min(C)]))
            THEN NoSec ELSE map[Min(C)]
    BY <2>1, <2>2 DEF FindRaw, Find
  <2> QED
    BY <2>3, <2>4, <2>5 DEF Hit
<1>6. Layered(RawEnds(old), starts, sizes, S)
  <2>1. ASSUME NEW i \in S
        PROVE  /\ RawEnds(old)[i] \in Nat /\ starts[i] \in Nat /\ sizes[i] \in Nat
               /\ starts[i] < RawEnds(old)[i] /\ RawEnds(old)[i] <= starts[i] + sizes[i]
               /\ \A j \in S : i < j => starts[i] + sizes[i] <= starts[j]
    <3>1. i \in 1..im.n /\ i \in 1..old.n /\ MappedRaw(old, i) > 0
      BY <1>1 DEF WithContent
    <3>2. im.tbl[i].rp = old.tbl[i].rp /\ MappedRaw(old, i) = MappedRaw(im, i)
      BY SameContent DEF SameHeaders
    <3>3. starts[i] = old.tbl[i].rp /\ sizes[i] = MappedRaw(old, i)
      BY <3>1, <3>2 DEF RawStarts, ContentSizes
    <3>4. RawEnds(old)[i] = starts[i] + sizes[i]
      BY <3>1, <3>3 DEF RawEnds
    <3>5. old.tbl[i].rp \in Nat /\ MappedRaw(old, i) \in Nat
      BY <3>1, HeaderLaid, RawSize
    <3>6. \A j \in S : starts[j] = old.tbl[j].rp
      BY <1>1 DEF RawStarts, SameHeaders
    <3>7. \A j \in S : i < j => RawEnds(old)[i] <= old.tbl[j].rp
      BY <1>1, <3>1, EndsInOrder
    <3> HIDE DEF starts, sizes
    <3> QED
      BY <3>1, <3>3, <3>4, <3>5, <3>6, <3>7
  <2> QED
    BY <2>1 DEF Layered
<1> QED
  BY <1>1, <1>2, <1>5, <1>6
\* A section never takes less memory when the image grows.
LEMMA VirtSizeGrows ==
    ASSUME NEW old, NEW im, WellLaid(old), WellLaid(im), AlignmentsFit, SameHeaders(old, im),
           NEW i \in 1..im.n
    PROVE  VirtSize(old, i) <= VirtSize(im, i)
<1> DEFINE h == im.tbl[i]
           room == RoundUp(DeclaredVirtual(h), SectAlign)
<1>1. h.va \in Nat /\ DeclaredVirtual(h) \in Nat /\ old.img \in Nat /\ im.img \in Nat /\ old.img <= im.img
  BY HeaderLaid DEF WellLaid, SameHeaders
<1>2. room \in Nat
  BY <1>1, RoundUpNat, LayoutAssumption
<1>3. MappedSize(old.img) \in Nat /\ MappedSize(im.img) \in Nat /\ MappedSize(old.img) <= MappedSize(im.img)
  BY <1>1, LayoutAssumption DEF MappedSize, Greatest
<1>4. /\ VirtSize(old, i) = Least(h.va + room, MappedSize(old.img)) - h.va
      /\ VirtSize(im, i) = Least(h.va + room, MappedSize(im.img)) - h.va
  BY DEF VirtSize, SameHeaders
<1> HIDE DEF room
<1> QED
  BY <1>1, <1>2, <1>3, <1>4 DEF Least

LEMMA FindVirtualHits ==
    ASSUME NEW old, NEW im, WellLaid(old), WellLaid(im), AlignmentsFit, SameHeaders(old, im),
           NEW rva \in Nat
    PROVE  LET S == WithContent(old, old.n) IN
           /\ FindVirtual(MapsUpTo(old, old.n), im, rva) = Hit(Keyed(VirtEnds(old), S), VirtStarts(im), MemorySizes(im), rva)
           /\ S \subseteq 1..im.n /\ im.n \in Nat
           /\ OneEndEach(VirtEnds(old), S)
           /\ Layered(VirtEnds(old), VirtStarts(im), MemorySizes(im), S)
<1> DEFINE S == WithContent(old, old.n)
           map == Keyed(VirtEnds(old), S)
           starts == VirtStarts(im)
           sizes == MemorySizes(im)
<1>1. old.n = im.n /\ im.n \in Nat /\ S \subseteq 1..im.n /\ im.n \in 0..old.n
  BY TableAssumption DEF WellLaid, SameHeaders, WithContent
<1>2. OneEndEach(VirtEnds(old), S)
  BY <1>1, EndsApart
<1>3. \A i \in 1..im.n : VirtStart(im, i) = starts[i] /\ MappedVirtual(im, i, 1..im.n) = sizes[i] /\ starts[i] # NoAddr
  <2>1. \A i \in 1..im.n : im.tbl[i].va \in Nat
    BY HeaderLaid
  <2>2. \A i \in 1..im.n : MappedVirtual(im, i, 1..im.n) = VirtSize(im, i)
    BY VirtSizeIs
  <2> QED
    BY <2>1, <2>2 DEF VirtStarts, MemorySizes, VirtStart, NoAddr
<1>4. \A k \in DOMAIN map : map[k] \in 1..im.n /\ map[k] # NoSec
  <2>1. ASSUME NEW k \in DOMAIN map
        PROVE  map[k] \in S
    <3>1. PICK i \in S : k = VirtEnds(old)[i]
      BY DEF Keyed
    <3> QED
      BY <1>2, <3>1, KeyedAt
  <2> QED
    BY <1>1, <2>1 DEF NoSec
<1>5. FindVirtual(MapsUpTo(old, old.n), im, rva) = Hit(map, starts, sizes, rva)
  <2>1. Candidates(map, starts, sizes, rva) =
            {k \in DOMAIN map : /\ k >= rva /\ map[k] # NoSec
                                /\ VirtStart(im, map[k]) # NoAddr
                                /\ \/ VirtStart(im, map[k]) <= rva /\ rva < VirtStart(im, map[k]) + MappedVirtual(im, map[k], 1..im.n)
                                   \/ rva < VirtStart(im, map[k])}
    <3> HIDE DEF map, starts, sizes
    <3> QED
      BY <1>3, <1>4 DEF Candidates, Holding
  <2>2. MapsUpTo(old, old.n).v = map
    BY DEF MapsUpTo
  <2>3. ASSUME Candidates(map, starts, sizes, rva) # {}
        PROVE  Min(Candidates(map, starts, sizes, rva)) \in DOMAIN map
    <3>1. DOMAIN map \subseteq Nat
      <4>1. \A i \in S : VirtEnds(old)[i] \in Nat
        BY <1>1, EndsInOrder DEF WithContent
      <4> QED
        BY <4>1 DEF Keyed
    <3>2. Candidates(map, starts, sizes, rva) \subseteq DOMAIN map
      BY DEF Candidates
    <3> HIDE DEF map, starts, sizes
    <3>3. PICK m \in Candidates(map, starts, sizes, rva) : \A k \in Candidates(map, starts, sizes, rva) : m <= k
      BY <2>3, <3>1, <3>2, LeastMember
    <3>4. Min(Candidates(map, starts, sizes, rva)) = m
      BY <3>1, <3>2, <3>3, MinOf
    <3> QED
      BY <3>2, <3>4
  <2> HIDE DEF map, starts, sizes
  <2>4. ASSUME NEW k \in DOMAIN map
        PROVE  Holding(starts, sizes, rva, map[k]) <=>
                  VirtStart(im, map[k]) <= rva /\ rva < VirtStart(im, map[k]) + MappedVirtual(im, map[k], 1..im.n)
    BY <1>3, <1>4 DEF Holding
  <2> DEFINE C == Candidates(map, starts, sizes, rva)
  <2>5. FindVirtual(MapsUpTo(old, old.n), im, rva) =
            IF C = {} \/ ~(VirtStart(im, map[Min(C)]) <= rva
                           /\ rva < VirtStart(im, map[Min(C)]) + MappedVirtual(im, map[Min(C)], 1..im.n))
            THEN NoSec ELSE map[Min(C)]
    BY <2>1, <2>2 DEF FindVirtual, Find
  <2> QED
    BY <2>3, <2>4, <2>5 DEF Hit
<1>6. Layered(VirtEnds(old), starts, sizes, S)
  <2>1. ASSUME NEW i \in S
        PROVE  /\ VirtEnds(old)[i] \in Nat /\ starts[i] \in Nat /\ sizes[i] \in Nat
               /\ starts[i] < VirtEnds(old)[i] /\ VirtEnds(old)[i] <= starts[i] + sizes[i]
               /\ \A j \in S : i < j => starts[i] + sizes[i] <= starts[j]
    <3>1. i \in 1..im.n /\ i \in 1..old.n /\ MappedRaw(old, i) > 0
      BY <1>1 DEF WithContent
    <3>2. starts[i] = im.tbl[i].va /\ sizes[i] = VirtSize(im, i) /\ im.tbl[i].va = old.tbl[i].va
      BY <3>1 DEF VirtStarts, MemorySizes, SameHeaders
    <3>3. im.tbl[i].va \in Nat /\ VirtSize(im, i) \in Nat
      BY <3>1, HeaderLaid, VirtSizeBounds
    <3>4. VirtEnds(old)[i] = old.tbl[i].va + VirtSize(old, i) /\ VirtEnds(old)[i] \in Nat
          /\ old.tbl[i].va < VirtEnds(old)[i]
      BY <3>1, EndsInOrder DEF VirtEnds
    <3>5. VirtSize(old, i) <= VirtSize(im, i)
      BY <3>1, VirtSizeGrows
    <3>6. \A j \in S : starts[j] = im.tbl[j].va
      BY <1>1 DEF VirtStarts
    <3>7. \A j \in S : i < j => im.tbl[i].va + VirtSize(im, i) <= im.tbl[j].va
      BY <1>1, <3>1, VirtSizeBounds
    <3>8. VirtSize(old, i) \in Nat
      BY <3>1, VirtSizeBounds
    <3> HIDE DEF starts, sizes
    <3> QED
      BY <3>1, <3>2, <3>3, <3>4, <3>5, <3>6, <3>7, <3>8
  <2> QED
    BY <2>1 DEF Layered
<1> QED
  BY <1>1, <1>2, <1>5, <1>6


-----------------------------------------------------------------------------
(* The invariant *)

\* Every file that is in order has sections, all of them aligned.
FilesLaid ==
    \A im \in InitImages : LET n == LoadCount(im.num, im.fs) IN
        ~Torn(im.tbl, im.num, n, im.fs) /\ Ordered(im.tbl, n, im.img) => n # 0 /\ Aligned(im.tbl, n)

\* What an undamaged file and its maps have in common: the maps were built from
\* the headers that are in the file, for a SizeOfImage that was enough for them.
Laid ==
    ~torn => /\ loaded # 0 /\ Aligned(tbl, loaded)
             /\ mapped.im.tbl = tbl /\ mapped.im.n = loaded /\ mapped.im.fs = fileSize
             /\ mapped.im.img <= imgSize
             /\ Ordered(tbl, loaded, mapped.im.img)

MapsInv == Inv /\ HeadersKept /\ Laid

LEMMA AlignedSame ==
    ASSUME NEW t, NEW u, NEW n \in Nat, Aligned(t, n), \A i \in 1..n : u[i] = t[i]
    PROVE  Aligned(u, n)
  BY DEF Aligned

\* The maps were built from what is in the file now.
LEMMA FreshLaid ==
    ASSUME Inv', loaded' # 0, Aligned(tbl', loaded'), mapped'.im = Now'
    PROVE  Laid'
<1>1. /\ mapped'.im.tbl = tbl' /\ mapped'.im.n = loaded' /\ mapped'.im.fs = fileSize'
      /\ mapped'.im.img = imgSize'
  BY DEF Now, ImageOf
<1>2. imgSize' \in Nat
  BY TableAssumption DEF Inv, TypeOK
<1>3. ~torn' => Ordered(tbl', loaded', imgSize')
  BY DEF Inv, Intact
<1> QED
  BY <1>1, <1>2, <1>3 DEF Laid

\* A wrap of a table whose headers are aligned.
LEMMA WrapLaid ==
    ASSUME MapsInv, ~torn, Inv', ~torn', NEW t \in [1..Slots -> DWHeader], Aligned(t, loaded),
           WrapAfter(t, secNum, fileSize', imgSize'), secNum' = secNum
    PROVE  Laid'
<1>1. secNum = loaded /\ secNum' = loaded' /\ loaded # 0 /\ secNum \in Nat /\ fileSize' \in Nat /\ loaded \in Nat
  BY TableAssumption DEF MapsInv, Inv, Intact, Laid, TypeOK
<1>2. loaded' = LoadCount(secNum, fileSize') /\ tbl' = CutTable(t, fileSize') /\ mapped'.im = Now'
  BY DEF WrapAfter, Now, ImageOf
<1>3. \A i \in 1..loaded : tbl'[i] = t[i]
  <2>1. \A i \in 1..LoadCount(secNum, fileSize') : CutTable(t, fileSize')[i] = t[i]
    BY <1>1, CutKeepsLoaded
  <2> QED
    BY <1>1, <1>2, <2>1
<1>4. Aligned(tbl', loaded') /\ loaded' # 0
  BY <1>1, <1>3, AlignedSame
<1> QED
  BY <1>2, <1>4, FreshLaid

LEMMA LaidStep == AlignmentsFit /\ NoWrap /\ MapsInv /\ [Next]_vars => Laid'
<1> SUFFICES ASSUME AlignmentsFit, NoWrap, MapsInv, [Next]_vars, ~torn'
             PROVE  Laid'
  BY DEF Laid
<1>i. Inv /\ Inv' /\ ValidAlignment
  BY InvStep DEF MapsInv, AlignmentsFit
<1>t. ~torn
  BY DEF Next, Add, Extend, AddNewSection, AddNewSectionFails, ExtendLastSection,
         ExtendLastSectionFails, Resize, Rewrap, NoteTorn, vars
<1>l. /\ loaded # 0 /\ Aligned(tbl, loaded) /\ loaded \in Nat /\ loaded \in 1..loaded
      /\ tbl \in [1..Slots -> DWHeader] /\ fileSize \in Nat /\ imgSize \in Nat
  <2>1. loaded # 0 /\ Aligned(tbl, loaded)
    BY <1>t DEF MapsInv, Laid
  <2> QED
    BY <1>i, <2>1, TableTyped
<1>a. FileAlign \in Nat \ {0} /\ SectAlign \in Nat \ {0} /\ HdrsSize \in Nat
  BY LayoutAssumption DEF AlignmentsFit, ValidAlignment
<1>1. ASSUME NEW r \in RawSizes, NEW v \in VirtSizes, AddNewSection(r, v)
      PROVE  Laid'
  <2> DEFINE h == NewHeader(r, v)
  <2>1. /\ loaded' = loaded + 1 /\ tbl'[loaded + 1] = h
        /\ \A i \in 1..loaded : tbl'[i] = tbl[i]
        /\ \A i \in 1..loaded : tbl[i].rp + tbl[i].rs <= h.rp /\ tbl[i].va + DeclaredVirtual(tbl[i]) <= h.va
        /\ h \in DWHeader
    BY <1>i, <1>t, <1>1, AddEffect
  <2>2. mapped'.im = Now'
    BY <1>1 DEF AddNewSection, PasteHeader, WrapAfter, Now, ImageOf
  <2>3. h.rp = RoundUp(fileSize, FileAlign) /\ h.va = RoundUp(MappedSize(imgSize), SectAlign)
    BY DEF NewHeader, RawEnd, VirtEnd
  <2>4. Multiple(h.rp, FileAlign) /\ Multiple(h.va, SectAlign)
    BY <1>l, <1>a, <2>3, RoundUpMultiple, MappedSizeAbove
  <2>5. HdrsSize <= h.rp /\ HdrsSize <= h.va
    <3>1. /\ HdrsSize <= tbl[loaded].rp /\ HdrsSize <= tbl[loaded].va
          /\ tbl[loaded].rp + tbl[loaded].rs <= h.rp
          /\ tbl[loaded].va + DeclaredVirtual(tbl[loaded]) <= h.va
      BY <1>l, <2>1 DEF Aligned
    <3>2. tbl[loaded] \in DWHeader
      BY <1>i, <1>l, TableTyped
    <3>3. /\ tbl[loaded].rp \in Nat /\ tbl[loaded].rs \in Nat /\ tbl[loaded].va \in Nat
          /\ DeclaredVirtual(tbl[loaded]) \in Nat /\ h.rp \in Nat /\ h.va \in Nat
      BY <2>1, <3>2, HeaderNat
    <3> HIDE DEF h
    <3> QED
      BY <1>a, <3>1, <3>3
  <2> HIDE DEF h
  <2>6. Aligned(tbl', loaded')
    <3>1. ASSUME NEW i \in 1..loaded + 1
          PROVE  /\ Multiple(tbl'[i].rp, FileAlign) /\ HdrsSize <= tbl'[i].rp
                 /\ Multiple(tbl'[i].va, SectAlign) /\ HdrsSize <= tbl'[i].va
      <4>1. CASE i = loaded + 1
        BY <2>1, <2>4, <2>5, <4>1
      <4>2. CASE i # loaded + 1
        <5>1. i \in 1..loaded
          BY <1>l, <4>2
        <5> QED
          BY <1>l, <2>1, <5>1 DEF Aligned
      <4> QED
        BY <4>1, <4>2
    <3> QED
      BY <2>1, <3>1 DEF Aligned
  <2> QED
    BY <1>i, <1>l, <2>1, <2>2, <2>6, FreshLaid
<1>2. ASSUME NEW r \in RawSizes, NEW v \in VirtSizes, AddNewSectionFails(r, v)
      PROVE  Laid'
  <2>1. /\ AddBounded(r, v) /\ imgSize' = VirtEnd + VirtArg(r, v)
        /\ UNCHANGED <<tbl, fileSize, loaded, mapped, torn>>
    BY <1>2 DEF AddNewSectionFails, BeginAdd
  <2>2. VirtEnd \in Nat /\ VirtArg(r, v) \in Nat
    BY <1>i, <2>1, NewHeaderTyped, TableAssumption DEF Inv, DWord
  <2>3. imgSize <= VirtEnd
    BY <1>i, VirtEndAbove
  <2>4. mapped.im.img \in Nat
    BY <1>i, TableAssumption DEF Inv, TypeOK
  <2>5. mapped.im.img <= imgSize'
    BY <1>l, <1>t, <2>1, <2>2, <2>3, <2>4 DEF MapsInv, Laid
  <2> QED
    BY <1>t, <2>1, <2>5 DEF MapsInv, Laid
<1>3. ASSUME NEW a \in Growths, BeginExtend(fileSize + a)
      PROVE  /\ ExtendedTable(fileSize + a) \in [1..Slots -> DWHeader]
             /\ Aligned(ExtendedTable(fileSize + a), loaded)
             /\ ExtendedTable(fileSize + a)[loaded].rp + ExtendedTable(fileSize + a)[loaded].rs = fileSize + a
  <2> DEFINE grown == ExtendedTable(fileSize + a)
  <2>1. /\ grown \in [1..Slots -> DWHeader] /\ loaded \in 1..Slots
        /\ \A i \in 1..loaded-1 : grown[i] = tbl[i]
        /\ grown[loaded].rp = tbl[loaded].rp /\ grown[loaded].va = tbl[loaded].va
        /\ grown[loaded].rs = (fileSize + a) - tbl[loaded].rp
    BY <1>3, <1>i, <1>t, LastGrown, TableAssumption
  <2>2. tbl[loaded].rp \in Nat /\ fileSize + a \in Nat
    BY <1>l, <2>1, HeaderNat, TableAssumption
  <2> HIDE DEF grown
  <2>3. Aligned(grown, loaded)
    <3>1. \A i \in 1..loaded : grown[i].rp = tbl[i].rp /\ grown[i].va = tbl[i].va
      BY <1>l, <2>1
    <3> QED
      BY <1>l, <3>1 DEF Aligned
  <2>4. grown[loaded].rp + grown[loaded].rs = fileSize + a
    BY <2>1, <2>2
  <2> QED
    BY <2>1, <2>3, <2>4 DEF grown
<1>4. ASSUME NEW a \in Growths, ExtendLastSection(a)
      PROVE  Laid'
  <2>1. /\ BeginExtend(fileSize + a) /\ secNum' = secNum /\ fileSize' = fileSize + a
        /\ WrapAfter(ExtendedTable(fileSize + a), secNum, fileSize', imgSize')
    BY <1>4 DEF ExtendLastSection
  <2> QED
    BY <1>i, <1>t, <1>3, <2>1, WrapLaid
<1>5. ASSUME NEW a \in Growths, ExtendLastSectionFails(a)
      PROVE  Laid'
  <2> DEFINE grown == ExtendedTable(fileSize + a)
  <2>1. /\ BeginExtend(fileSize + a) /\ ResizeMayFail(fileSize + a) /\ tbl' = grown
        /\ UNCHANGED <<secNum, fileSize, loaded, mapped>> /\ NoteTorn
    BY <1>5 DEF ExtendLastSectionFails
  <2>2. fileSize >= NtEnd /\ NtEnd \in Nat /\ a \in Nat
    BY TableAssumption DEF MapsInv, HeadersKept
  <2>3. fileSize + a > fileSize
    BY <1>l, <2>1, <2>2 DEF ResizeMayFail, CanResize
  <2>4. tbl'[loaded'].rp + tbl'[loaded'].rs > fileSize' /\ loaded' \in 1..loaded'
    BY <1>3, <1>l, <2>1, <2>3
  <2>5. Torn(tbl', secNum', loaded', fileSize')
    BY <2>4 DEF Torn
  <2> QED
    BY <2>1, <2>5 DEF NoteTorn
<1>6. ASSUME NEW fs \in FileSizes, Resize(fs)
      PROVE  Laid'
  <2>1. WrapAfter(tbl, secNum, fileSize', imgSize') /\ secNum' = secNum
    BY <1>6 DEF Resize
  <2> QED
    BY <1>i, <1>t, <1>l, <2>1, WrapLaid
<1>7. CASE Rewrap
  <2>1. WrapAfter(tbl, secNum, fileSize', imgSize') /\ secNum' = secNum
    BY <1>7 DEF Rewrap
  <2> QED
    BY <1>i, <1>t, <1>l, <2>1, WrapLaid
<1>8. CASE UNCHANGED vars
  BY <1>8, <1>t DEF vars, MapsInv, Laid, Ordered, Aligned
<1> QED
  BY <1>1, <1>2, <1>4, <1>5, <1>6, <1>7, <1>8 DEF Next, Add, Extend
LEMMA InitLaid == HoldsHeaders /\ FilesLaid /\ Init => MapsInv
<1> SUFFICES ASSUME HoldsHeaders, FilesLaid, NEW im \in InitImages, Open(im)
             PROVE  HeadersKept /\ Laid
  BY InitInv DEF Init, MapsInv
<1>1. HeadersKept
  BY DEF HoldsHeaders, HeadersKept, Open
<1>2. Laid
  <2> SUFFICES ASSUME ~torn
               PROVE  Laid
    BY DEF Laid
  <2>1. /\ ~Torn(im.tbl, im.num, loaded, im.fs) /\ Ordered(im.tbl, loaded, im.img)
        /\ loaded = LoadCount(im.num, im.fs)
    BY DEF Open
  <2>2. /\ mapped.im.tbl = tbl /\ mapped.im.n = loaded /\ mapped.im.fs = fileSize
        /\ mapped.im.img = imgSize /\ tbl = im.tbl /\ imgSize = im.img
    BY DEF Open, ImageOf
  <2>3. imgSize \in Nat
    BY <2>2, InitAssumption, TableAssumption DEF Image
  <2> QED
    BY <2>1, <2>2, <2>3 DEF FilesLaid, Laid
<1> QED
  BY <1>1, <1>2

LEMMA MapsKept ==
    AlignmentsFit /\ NoWrap /\ MapsInv /\ [Next]_vars => MapsInv'
<1> SUFFICES ASSUME AlignmentsFit, NoWrap, MapsInv, [Next]_vars
             PROVE  HeadersKept'
  BY InvStep, LaidStep DEF MapsInv, AlignmentsFit
<1>1. fileSize' = fileSize \/ CanResize(fileSize')
  BY DEF Next, Add, Extend, AddNewSection, AddNewSectionFails, ExtendLastSection,
         ExtendLastSectionFails, Resize, Rewrap, vars
<1>t. TypeOK /\ TypeOK'
  BY StepTyped DEF MapsInv, Inv
<1>2. fileSize \in Nat /\ fileSize' \in Nat /\ NtEnd \in Nat
  BY <1>t, TableAssumption DEF TypeOK
<1> QED
  BY <1>1, <1>2 DEF MapsInv, CanResize, HeadersKept

-----------------------------------------------------------------------------
(* Conversions *)

\* The images that the maps were built from, and that look-ups use.
LEMMA ImagesLaid ==
    ASSUME MapsInv, AlignmentsFit, ~torn, NEW old, old = mapped.im
    PROVE  /\ WellLaid(old) /\ WellLaid(Now) /\ SameHeaders(old, Now)
           /\ CurrentMaps = MapsUpTo(old, old.n)
           /\ old.img = imgSize => old = Now
           /\ Now.n = loaded /\ Now.fs = fileSize /\ Now.img = imgSize /\ Now.tbl = tbl
<1>1. /\ loaded # 0 /\ Aligned(tbl, loaded)
      /\ old.tbl = tbl /\ old.n = loaded /\ old.fs = fileSize
      /\ old.img <= imgSize /\ Ordered(tbl, loaded, old.img)
  BY DEF MapsInv, Laid
<1>2. /\ Ordered(tbl, loaded, imgSize)
      /\ \A i \in 1..loaded : tbl[i].rp + tbl[i].rs <= fileSize
  BY DEF MapsInv, Inv, Intact
<1>3. mapped \in MappedType /\ old \in [tbl : [1..Slots -> DWHeader], n : 0..Slots, fs : 1..MaxFile, img : 0..MaxImage]
  BY DEF MapsInv, Inv, TypeOK, MappedType
<1>4. /\ tbl \in [1..Slots -> DWHeader] /\ loaded \in 1..Slots /\ fileSize \in Nat /\ imgSize \in Nat
      /\ old.img \in Nat
  BY <1>1, <1>3, TableTyped, TableAssumption DEF MapsInv
<1>5. Now.tbl = tbl /\ Now.n = loaded /\ Now.fs = fileSize /\ Now.img = imgSize
  BY DEF Now, ImageOf
<1>6. WellLaid(old) /\ WellLaid(Now) /\ SameHeaders(old, Now)
  BY <1>1, <1>2, <1>4, <1>5 DEF WellLaid, SameHeaders
<1>7. old.img = imgSize => old = Now
  BY <1>1, <1>3 DEF Now, ImageOf
<1>8. mapped.mode \in {"first", "rewrap", "reload"}
  BY <1>3 DEF MappedType
<1>9. CurrentMaps = MapsUpTo(old, old.n)
  BY <1>6, <1>8, MapsAre DEF CurrentMaps
<1> QED
  BY <1>5, <1>6, <1>7, <1>9

\* A file offset belongs to the section that holds it, and only to that one.
LEMMA FindRawIs ==
    ASSUME NEW old, NEW im, WellLaid(old), WellLaid(im), AlignmentsFit, SameHeaders(old, im),
           NEW raw \in Nat, NEW s, s = FindRaw(MapsUpTo(old, old.n), im, raw)
    PROVE  /\ \A i \in 1..im.n :
                 im.tbl[i].rp <= raw /\ raw < im.tbl[i].rp + MappedRaw(im, i) => s = i
           /\ s # NoSec => /\ s \in 1..im.n
                           /\ im.tbl[s].rp <= raw /\ raw < im.tbl[s].rp + MappedRaw(im, s)
<1> DEFINE S == WithContent(old, old.n)
           starts == RawStarts(im)
           sizes == ContentSizes(im)
<1>1. /\ s = Hit(Keyed(RawEnds(old), S), starts, sizes, raw)
      /\ S \subseteq 1..im.n /\ im.n \in Nat /\ OneEndEach(RawEnds(old), S)
      /\ Layered(RawEnds(old), starts, sizes, S)
  BY FindRawHits
<1>2. \A i \in 1..im.n : Holding(starts, sizes, raw, i) <=>
            im.tbl[i].rp <= raw /\ raw < im.tbl[i].rp + MappedRaw(im, i)
  BY DEF Holding, RawStarts, ContentSizes
<1>3. ASSUME NEW i \in 1..im.n, im.tbl[i].rp <= raw, raw < im.tbl[i].rp + MappedRaw(im, i)
      PROVE  i \in S /\ raw <= RawEnds(old)[i]
  <2>1. /\ MappedRaw(old, i) = MappedRaw(im, i) /\ old.tbl[i].rp = im.tbl[i].rp /\ i \in 1..old.n
        /\ im.tbl[i].rp \in Nat /\ MappedRaw(im, i) \in Nat
    BY SameContent, HeaderLaid, RawSize DEF SameHeaders
  <2>2. MappedRaw(old, i) > 0
    BY <1>3, <2>1
  <2>3. RawEnds(old)[i] = im.tbl[i].rp + MappedRaw(im, i)
    BY <2>1 DEF RawEnds
  <2> QED
    BY <1>3, <2>1, <2>2, <2>3 DEF WithContent
<1> HIDE DEF S, starts, sizes
<1>4. \A i \in S : Holding(starts, sizes, raw, i) /\ raw <= RawEnds(old)[i] => s = i
  BY <1>1, HitIs
<1>5. ASSUME s # NoSec
      PROVE  s \in S /\ Holding(starts, sizes, raw, s)
  <2> DEFINE n == im.n
             ends == RawEnds(old)
  <2>1. /\ s = Hit(Keyed(ends, S), starts, sizes, raw)
        /\ n \in Nat /\ S \subseteq 1..n /\ raw \in Nat
        /\ OneEndEach(ends, S) /\ Layered(ends, starts, sizes, S)
    BY <1>1
  <2> HIDE DEF n, ends
  <2> QED
    BY <1>5, <2>1, HitIs, ZenonT(60)
<1> QED
  BY <1>1, <1>2, <1>3, <1>4, <1>5

\* An address in memory, the same: but behind the end under which a section is
\* in the maps it is not found.
LEMMA FindVirtualIs ==
    ASSUME NEW old, NEW im, WellLaid(old), WellLaid(im), AlignmentsFit, SameHeaders(old, im),
           NEW rva \in Nat, NEW s, s = FindVirtual(MapsUpTo(old, old.n), im, rva)
    PROVE  /\ \A i \in 1..im.n :
                 /\ MappedRaw(im, i) > 0
                 /\ im.tbl[i].va <= rva /\ rva < im.tbl[i].va + VirtSize(im, i)
                 /\ rva <= im.tbl[i].va + VirtSize(old, i)
                 => s = i
           /\ s # NoSec => /\ s \in 1..im.n
                           /\ im.tbl[s].va <= rva /\ rva < im.tbl[s].va + VirtSize(im, s)
<1> DEFINE S == WithContent(old, old.n)
           starts == VirtStarts(im)
           sizes == MemorySizes(im)
<1>1. /\ s = Hit(Keyed(VirtEnds(old), S), starts, sizes, rva)
      /\ S \subseteq 1..im.n /\ im.n \in Nat /\ OneEndEach(VirtEnds(old), S)
      /\ Layered(VirtEnds(old), starts, sizes, S)
  BY FindVirtualHits
<1>2. \A i \in 1..im.n : Holding(starts, sizes, rva, i) <=>
            im.tbl[i].va <= rva /\ rva < im.tbl[i].va + VirtSize(im, i)
  BY DEF Holding, VirtStarts, MemorySizes
<1>3. ASSUME NEW i \in 1..im.n, MappedRaw(im, i) > 0, rva <= im.tbl[i].va + VirtSize(old, i)
      PROVE  i \in S /\ rva <= VirtEnds(old)[i]
  <2>1. MappedRaw(old, i) > 0 /\ old.tbl[i].va = im.tbl[i].va /\ i \in 1..old.n
    BY <1>3, SameContent DEF SameHeaders
  <2>2. VirtEnds(old)[i] = im.tbl[i].va + VirtSize(old, i)
    BY <2>1 DEF VirtEnds
  <2> QED
    BY <1>3, <2>1, <2>2 DEF WithContent
<1> HIDE DEF S, starts, sizes
<1>4. \A i \in S : Holding(starts, sizes, rva, i) /\ rva <= VirtEnds(old)[i] => s = i
  BY <1>1, HitIs
<1>5. ASSUME s # NoSec
      PROVE  s \in S /\ Holding(starts, sizes, rva, s)
  <2> DEFINE n == im.n
             ends == VirtEnds(old)
  <2>1. /\ s = Hit(Keyed(ends, S), starts, sizes, rva)
        /\ n \in Nat /\ S \subseteq 1..n /\ rva \in Nat
        /\ OneEndEach(ends, S) /\ Layered(ends, starts, sizes, S)
    BY <1>1
  <2> HIDE DEF n, ends
  <2> QED
    BY <1>5, <2>1, HitIs, ZenonT(60)
<1> QED
  BY <1>1, <1>2, <1>3, <1>4, <1>5

LEMMA ReachableKept == MapsInv /\ AlignmentsFit => SectionsReachable
<1> SUFFICES ASSUME MapsInv, AlignmentsFit, ~torn, NEW i \in 1..loaded, MappedRaw(Now, i) > 0
             PROVE  /\ FindRaw(CurrentMaps, Now, RawStart(Now, i)) = i
                    /\ FindVirtual(CurrentMaps, Now, VirtStart(Now, i)) = i
  BY DEF SectionsReachable
<1> DEFINE old == mapped.im
           im == Now
<1>1. /\ WellLaid(old) /\ WellLaid(im) /\ SameHeaders(old, im) /\ CurrentMaps = MapsUpTo(old, old.n)
      /\ i \in 1..im.n
  BY ImagesLaid
<1> HIDE DEF old, im
<1>2. RawStart(im, i) = im.tbl[i].rp /\ VirtStart(im, i) = im.tbl[i].va
  BY <1>1, RawStartIs DEF VirtStart
<1>3. im.tbl[i].rp \in Nat /\ im.tbl[i].va \in Nat /\ MappedRaw(im, i) > 0
      /\ MappedRaw(im, i) \in Nat /\ DeclaredVirtual(im.tbl[i]) > 0
      /\ DeclaredVirtual(im.tbl[i]) \in Nat
  BY <1>1, HeaderLaid, RawSize DEF im
<1>4. VirtSize(im, i) \in Nat /\ VirtSize(im, i) >= DeclaredVirtual(im.tbl[i]) /\ VirtSize(old, i) \in Nat
  <2>1. i \in 1..old.n
    BY <1>1 DEF SameHeaders
  <2> QED
    BY <1>1, <2>1, VirtSizeBounds
<1>5. FindRaw(CurrentMaps, im, im.tbl[i].rp) = i
  BY <1>1, <1>3, FindRawIs
<1>6. FindVirtual(CurrentMaps, im, im.tbl[i].va) = i
  BY <1>1, <1>3, <1>4, FindVirtualIs
<1> QED
  BY <1>2, <1>5, <1>6 DEF im

LEMMA CurrentKept == MapsInv /\ AlignmentsFit => MapsCurrent
<1> SUFFICES ASSUME MapsInv, AlignmentsFit, ~torn, mapped.im.img = imgSize
             PROVE  CurrentMaps = Maps(Now, "reload")
  BY DEF MapsCurrent
<1>1. mapped.im = Now /\ WellLaid(Now) /\ CurrentMaps = MapsUpTo(mapped.im, mapped.im.n)
  BY ImagesLaid
<1> QED
  BY <1>1, MapsAre

LEMMA OneHolder ==
    ASSUME NEW im, WellLaid(im), AlignmentsFit, NEW i \in 1..im.n, NEW j \in 1..im.n, NEW rva \in Nat,
           im.tbl[i].va <= rva, rva < im.tbl[i].va + VirtSize(im, i),
           im.tbl[j].va <= rva, rva < im.tbl[j].va + VirtSize(im, j)
    PROVE  i = j
<1>1. i \in Nat /\ j \in Nat /\ im.tbl[i].va \in Nat /\ im.tbl[j].va \in Nat
      /\ VirtSize(im, i) \in Nat /\ VirtSize(im, j) \in Nat
  BY HeaderLaid, VirtSizeBounds
<1>2. /\ i < j => im.tbl[i].va + VirtSize(im, i) <= im.tbl[j].va
      /\ j < i => im.tbl[j].va + VirtSize(im, j) <= im.tbl[i].va
  BY VirtSizeBounds
<1> QED
  BY <1>1, <1>2

\* An offset that belongs to a section comes back from the address it is mapped
\* to, unless the end of that section in the maps is an old one.
LEMMA OffsetComesBack ==
    ASSUME NEW old, NEW im, WellLaid(old), WellLaid(im), AlignmentsFit, SameHeaders(old, im),
           NEW maps, maps = MapsUpTo(old, old.n),
           NEW raw \in Nat, raw < im.fs, NEW rva, rva = RawToRva(maps, im, raw), rva # NoAddr,
           NEW back, back = RvaToRaw(maps, im, rva)
    PROVE  back = raw \/ (old # im /\ back = NoAddr)
<1> DEFINE s == FindRaw(maps, im, raw)
           t == FindVirtual(maps, im, rva)
<1>1. /\ im.n \in Nat /\ im.n > 0 /\ im.fs \in Nat /\ im.img \in Nat /\ HdrsSize \in Nat
      /\ MappedSize(im.img) \in Nat /\ im.img <= MappedSize(im.img)
  <2>1. im.n \in Nat /\ im.n > 0 /\ im.fs \in Nat /\ im.img \in Nat /\ HdrsSize \in Nat
    BY TableAssumption, LayoutAssumption DEF WellLaid
  <2> QED
    BY <2>1, MappedSizeAbove
<1>2. \A i \in 1..im.n : /\ im.tbl[i].rp \in Nat /\ im.tbl[i].va \in Nat
                         /\ HdrsSize <= im.tbl[i].va /\ im.tbl[i].va <= im.img
                         /\ DeclaredVirtual(im.tbl[i]) \in Nat
                         /\ MappedRaw(im, i) \in Nat /\ VirtSize(im, i) \in Nat
                         /\ im.tbl[i].va + VirtSize(im, i) <= MappedSize(im.img)
  <2> SUFFICES ASSUME NEW i \in 1..im.n
               PROVE  /\ im.tbl[i].rp \in Nat /\ im.tbl[i].va \in Nat
                      /\ HdrsSize <= im.tbl[i].va /\ im.tbl[i].va <= im.img
                      /\ DeclaredVirtual(im.tbl[i]) \in Nat
                      /\ MappedRaw(im, i) \in Nat /\ VirtSize(im, i) \in Nat
                      /\ im.tbl[i].va + VirtSize(im, i) <= MappedSize(im.img)
    OBVIOUS
  <2>1. /\ im.tbl[i].rp \in Nat /\ im.tbl[i].va \in Nat /\ HdrsSize <= im.tbl[i].va
        /\ DeclaredVirtual(im.tbl[i]) \in Nat /\ im.tbl[i].va + DeclaredVirtual(im.tbl[i]) <= im.img
    BY HeaderLaid
  <2>2. MappedRaw(im, i) \in Nat /\ VirtSize(im, i) \in Nat
        /\ im.tbl[i].va + VirtSize(im, i) <= MappedSize(im.img)
    BY RawSize, VirtSizeBounds
  <2> QED
    BY <1>1, <2>1, <2>2
<1>3. \A i \in 1..im.n : RawStart(im, i) = im.tbl[i].rp /\ RawStart(im, i) # NoAddr
                         /\ MappedVirtual(im, i, 1..im.n) = VirtSize(im, i)
  <2>1. \A i \in 1..im.n : RawStart(im, i) = im.tbl[i].rp
    BY RawStartIs
  <2>2. \A i \in 1..im.n : MappedVirtual(im, i, 1..im.n) = VirtSize(im, i)
    BY VirtSizeIs
  <2> QED
    BY <1>2, <2>1, <2>2 DEF NoAddr
<1>4. s # NoSec => s \in 1..im.n /\ im.tbl[s].rp <= raw /\ raw < im.tbl[s].rp + MappedRaw(im, s)
  BY FindRawIs
<1>5. CASE s # NoSec
  <2> DEFINE curr == raw - im.tbl[s].rp
  <2>1. /\ s \in 1..im.n /\ curr \in Nat /\ curr < MappedRaw(im, s) /\ im.tbl[s].rp + curr = raw
        /\ MappedRaw(im, s) > 0
    BY <1>2, <1>4, <1>5
  <2>2. curr < VirtSize(im, s) /\ rva = im.tbl[s].va + curr
    <3>1. rva = IF curr >= VirtSize(im, s) THEN NoAddr ELSE im.tbl[s].va + curr
      BY <1>1, <1>3, <1>5, <2>1 DEF RawToRva, VirtStart
    <3> HIDE DEF s, curr
    <3> QED
      BY <1>2, <2>1, <3>1
  <2> HIDE DEF s, curr
  <2>3. /\ rva \in Nat /\ im.tbl[s].va <= rva /\ rva < im.tbl[s].va + VirtSize(im, s)
        /\ rva < MappedSize(im.img) /\ rva >= HdrsSize /\ rva - im.tbl[s].va = curr
    BY <1>1, <1>2, <2>1, <2>2
  <2>4. t # NoSec => t = s
    <3>1. ASSUME t # NoSec
          PROVE  t \in 1..im.n /\ im.tbl[t].va <= rva /\ rva < im.tbl[t].va + VirtSize(im, t)
      BY <2>3, <3>1, FindVirtualIs
    <3> HIDE DEF t
    <3> QED
      BY <2>1, <2>3, <3>1, OneHolder
  <2>5. CASE t = s
    <3>1. back = IF curr >= MappedRaw(im, s) THEN NoAddr ELSE im.tbl[s].rp + curr
      <4>1. s # NoSec /\ ~(rva >= MappedSize(im.img))
        BY <1>1, <1>5, <2>3 DEF s
      <4> QED
        BY <1>3, <2>1, <2>3, <2>5, <4>1 DEF RvaToRaw, VirtStart
    <3> HIDE DEF t
    <3> QED
      BY <1>2, <2>1, <3>1
  <2>6. CASE t = NoSec
    <3>1. back = NoAddr
      BY <1>1, <2>3, <2>6 DEF RvaToRaw
    <3>2. ASSUME old = im
          PROVE  FALSE
      <4>1. rva <= im.tbl[s].va + VirtSize(old, s)
        BY <1>2, <2>1, <2>3, <3>2
      <4>2. t = s
        BY <2>1, <2>3, <4>1, FindVirtualIs
      <4> QED
        BY <2>1, <2>6, <4>2 DEF NoSec
    <3> QED
      BY <3>1, <3>2
  <2> QED
    BY <2>4, <2>5, <2>6
<1>6. CASE s = NoSec
  <2>1. raw < HdrsSize /\ rva = raw
    BY <1>1, <1>6 DEF RawToRva
  <2>2. t = NoSec
    <3>1. ASSUME t # NoSec
          PROVE  t \in 1..im.n /\ im.tbl[t].va <= rva
      BY <2>1, <3>1, FindVirtualIs
    <3> HIDE DEF t
    <3> QED
      BY <1>1, <1>2, <2>1, <3>1
  <2>3. raw < MappedSize(im.img)
    <3>1. 1 \in 1..im.n
      BY <1>1
    <3> QED
      BY <1>1, <1>2, <2>1, <3>1
  <2> QED
    BY <1>1, <2>1, <2>2, <2>3 DEF RvaToRaw
<1> QED
  BY <1>5, <1>6

\* An address that belongs to the file comes back from its offset.
LEMMA AddressComesBack ==
    ASSUME NEW old, NEW im, WellLaid(old), WellLaid(im), AlignmentsFit, SameHeaders(old, im),
           NEW maps, maps = MapsUpTo(old, old.n),
           NEW rva \in Nat, NEW raw, raw = RvaToRaw(maps, im, rva), raw # NoAddr
    PROVE  RawToRva(maps, im, raw) = rva
<1> DEFINE s == FindVirtual(maps, im, rva)
           t == FindRaw(maps, im, raw)
<1>1. im.n \in Nat /\ im.n > 0 /\ im.fs \in Nat /\ HdrsSize \in Nat
  BY TableAssumption, LayoutAssumption DEF WellLaid
<1>2. \A i \in 1..im.n : /\ im.tbl[i].rp \in Nat /\ im.tbl[i].va \in Nat /\ HdrsSize <= im.tbl[i].rp
                         /\ MappedRaw(im, i) \in Nat /\ VirtSize(im, i) \in Nat
                         /\ im.tbl[i].rp + MappedRaw(im, i) <= im.fs
  BY HeaderLaid, RawSize, VirtSizeBounds
<1>3. \A i \in 1..im.n : RawStart(im, i) = im.tbl[i].rp /\ RawStart(im, i) # NoAddr
                         /\ MappedVirtual(im, i, 1..im.n) = VirtSize(im, i)
  <2>1. \A i \in 1..im.n : RawStart(im, i) = im.tbl[i].rp
    BY RawStartIs
  <2>2. \A i \in 1..im.n : MappedVirtual(im, i, 1..im.n) = VirtSize(im, i)
    BY VirtSizeIs
  <2> QED
    BY <1>2, <2>1, <2>2 DEF NoAddr
<1>4. s # NoSec => s \in 1..im.n /\ im.tbl[s].va <= rva /\ rva < im.tbl[s].va + VirtSize(im, s)
  BY FindVirtualIs
<1>5. CASE s # NoSec
  <2> DEFINE curr == rva - im.tbl[s].va
  <2>1. s \in 1..im.n /\ curr \in Nat /\ curr < VirtSize(im, s) /\ im.tbl[s].va + curr = rva
    BY <1>2, <1>4, <1>5
  <2>2. curr < MappedRaw(im, s) /\ raw = im.tbl[s].rp + curr
    <3>1. raw = IF curr >= MappedRaw(im, s) THEN NoAddr ELSE im.tbl[s].rp + curr
      BY <1>3, <1>5, <2>1 DEF RvaToRaw, VirtStart
    <3> HIDE DEF s, curr
    <3> QED
      BY <1>2, <2>1, <3>1
  <2> HIDE DEF s, curr
  <2>3. /\ raw \in Nat /\ im.tbl[s].rp <= raw /\ raw < im.tbl[s].rp + MappedRaw(im, s)
        /\ raw < im.fs /\ raw - im.tbl[s].rp = curr
    BY <1>1, <1>2, <2>1, <2>2
  <2>4. t = s
    BY <2>1, <2>3, FindRawIs
  <2>5. s # NoSec /\ ~(raw >= im.fs)
    BY <1>1, <1>5, <2>3 DEF s
  <2>6. RawToRva(maps, im, raw) = IF curr >= VirtSize(im, s) THEN NoAddr ELSE im.tbl[s].va + curr
    BY <1>3, <2>1, <2>3, <2>4, <2>5 DEF RawToRva, VirtStart
  <2> HIDE DEF t
  <2> QED
    BY <1>2, <2>1, <2>6
<1>6. CASE s = NoSec
  <2>1. rva < im.fs /\ rva < HdrsSize /\ raw = rva
    BY <1>1, <1>6 DEF RvaToRaw
  <2>2. t = NoSec
    <3>1. ASSUME t # NoSec
          PROVE  t \in 1..im.n /\ im.tbl[t].rp <= raw
      BY <2>1, <3>1, FindRawIs
    <3> HIDE DEF t
    <3> QED
      BY <1>1, <1>2, <2>1, <3>1
  <2> QED
    BY <1>1, <2>1, <2>2 DEF RawToRva
<1> QED
  BY <1>5, <1>6

LEMMA RoundTripKept == MapsInv /\ AlignmentsFit => RoundTrip
<1> SUFFICES ASSUME MapsInv, AlignmentsFit, ~torn
             PROVE  RoundTrip
  BY DEF RoundTrip
<1> DEFINE old == mapped.im
           im == Now
           maps == CurrentMaps
<1>1. /\ WellLaid(old) /\ WellLaid(im) /\ SameHeaders(old, im) /\ maps = MapsUpTo(old, old.n)
      /\ (old.img = imgSize => old = im) /\ im.fs = fileSize /\ im.img = imgSize
  BY ImagesLaid
<1>2. fileSize \in Nat /\ imgSize \in Nat /\ MappedSize(imgSize) \in Nat
  BY <1>1, MappedSizeAbove DEF WellLaid
<1> HIDE DEF old, im, maps
<1>3. ASSUME NEW raw \in 0..fileSize-1, RawToRva(maps, im, raw) # NoAddr
      PROVE  LET back == RvaToRaw(maps, im, RawToRva(maps, im, raw))
             IN back = raw \/ (old.img # imgSize /\ back = NoAddr)
  <2>1. raw \in Nat /\ raw < im.fs
    BY <1>1, <1>2
  <2> QED
    BY <1>1, <1>3, <2>1, OffsetComesBack
<1>4. ASSUME NEW rva \in 0..MappedSize(imgSize)-1, RvaToRaw(maps, im, rva) # NoAddr
      PROVE  RawToRva(maps, im, RvaToRaw(maps, im, rva)) = rva
  <2>1. rva \in Nat
    BY <1>2
  <2> QED
    BY <1>1, <1>4, <2>1, AddressComesBack
<1> QED
  BY <1>3, <1>4 DEF RoundTrip, old, im, maps

-----------------------------------------------------------------------------
(* Theorems *)

\* However and in whatever order they were built, the maps are those of the
\* headers as they are now.
THEOREM MapsStayCurrent ==
    ASSUME AlignmentsFit, NoWrap, HoldsHeaders, FilesLaid
    PROVE  Spec => []MapsCurrent
<1>1. Init => MapsInv
  BY InitLaid
<1>2. MapsInv /\ [Next]_vars => MapsInv'
  BY MapsKept
<1>3. MapsInv => MapsCurrent
  BY CurrentKept
<1> QED
  BY <1>1, <1>2, <1>3, PTL DEF Spec

\* Every section is found by the first byte of its content, on disk and in
\* memory, between any two edits.
THEOREM SectionsFound ==
    ASSUME AlignmentsFit, NoWrap, HoldsHeaders, FilesLaid
    PROVE  Spec => []SectionsReachable
<1>1. Init => MapsInv
  BY InitLaid
<1>2. MapsInv /\ [Next]_vars => MapsInv'
  BY MapsKept
<1>3. MapsInv => SectionsReachable
  BY ReachableKept
<1> QED
  BY <1>1, <1>2, <1>3, PTL DEF Spec

\* rawToRva and rvaToRaw invert each other, for every file, every offset and
\* every address.
THEOREM ConversionsInvert ==
    ASSUME AlignmentsFit, NoWrap, HoldsHeaders, FilesLaid
    PROVE  Spec => []RoundTrip
<1>1. Init => MapsInv
  BY InitLaid
<1>2. MapsInv /\ [Next]_vars => MapsInv'
  BY MapsKept
<1>3. MapsInv => RoundTrip
  BY RoundTripKept
<1> QED
  BY <1>1, <1>2, <1>3, PTL DEF Spec

-----------------------------------------------------------------------------
(* What the promises of SectionTable add up to *)

\* Any section table, its variables not those of an editor.
VARIABLES count, place, fileLen, imgLen, damaged

AnyTable == INSTANCE SectionTable

LEMMA TablePlaceNat ==
    ASSUME NEW s \in AnyTable!Section
    PROVE  s.rp \in Nat /\ s.rs \in Nat /\ s.va \in Nat /\ s.vs \in Nat /\ AnyTable!InMemory(s) \in Nat
  BY DEF AnyTable!Section, AnyTable!InMemory

LEMMA TableOrderStep == AnyTable!Typed /\ AnyTable!InOrder /\ [AnyTable!Next]_(AnyTable!vars) => AnyTable!Typed' /\ AnyTable!InOrder'
<1> SUFFICES ASSUME AnyTable!Typed, AnyTable!InOrder, [AnyTable!Next]_(AnyTable!vars)
             PROVE  AnyTable!Typed' /\ AnyTable!InOrder'
  OBVIOUS
<1>t. /\ count \in Nat /\ fileLen \in Nat /\ imgLen \in Nat
      /\ \A i \in 1..count : place[i] \in AnyTable!Section
  BY DEF AnyTable!Typed
<1>1. CASE UNCHANGED AnyTable!vars
  BY <1>1 DEF AnyTable!vars, AnyTable!Typed, AnyTable!InOrder, AnyTable!Behind, AnyTable!Inside
<1>2. CASE AnyTable!Next
  <2>t. AnyTable!Typed'
    BY <1>2 DEF AnyTable!Next
  <2>n. /\ count' \in Nat /\ fileLen' \in Nat /\ imgLen' \in Nat
        /\ \A i \in 1..count' : place'[i] \in AnyTable!Section
    BY <2>t DEF AnyTable!Typed
  <2>1. CASE AnyTable!Append
    <3>1. count' = count + 1
      BY <2>1 DEF AnyTable!Append
    <3>2. \A i \in 1..count : place'[i] = place[i] /\ AnyTable!Behind(place'[i], place'[count'])
      BY <2>1 DEF AnyTable!Append
    <3>3. ASSUME NEW i \in 1..count', NEW j \in 1..count', i < j
          PROVE  AnyTable!Behind(place'[i], place'[j])
      <4>1. CASE j = count'
        BY <1>t, <3>1, <3>2, <3>3, <4>1
      <4>2. CASE j # count'
        <5>1. i \in 1..count /\ j \in 1..count
          BY <1>t, <3>1, <3>3, <4>2
        <5> QED
          BY <3>2, <3>3, <5>1 DEF AnyTable!InOrder
      <4> QED
        BY <4>1, <4>2
    <3>4. ASSUME NEW i \in 1..count'
          PROVE  AnyTable!Inside(place'[i], fileLen', imgLen')
      <4>1. CASE i = count'
        BY <2>1, <4>1 DEF AnyTable!Append
      <4>2. CASE i # count'
        <5>1. i \in 1..count /\ place'[i] = place[i] /\ place[i] \in AnyTable!Section
          BY <1>t, <3>1, <3>2, <4>2
        <5>2. AnyTable!Inside(place[i], fileLen, imgLen) /\ fileLen' >= fileLen /\ imgLen' >= imgLen
          BY <2>1, <5>1 DEF AnyTable!Append, AnyTable!InOrder
        <5>3. place[i].rp + place[i].rs \in Nat /\ place[i].va + AnyTable!InMemory(place[i]) \in Nat
          BY <5>1, TablePlaceNat
        <5> QED
          BY <1>t, <2>n, <5>1, <5>2, <5>3 DEF AnyTable!Inside
      <4> QED
        BY <4>1, <4>2
    <3> QED
      BY <2>t, <3>3, <3>4 DEF AnyTable!InOrder
  <2>2. CASE AnyTable!ExtendLast
    <3>1. /\ count' = count /\ count \in 1..count
          /\ \A i \in 1..count-1 : place'[i] = place[i]
          /\ place'[count].rp = place[count].rp /\ place'[count].va = place[count].va
          /\ fileLen' >= fileLen
          /\ AnyTable!Inside(place'[count], fileLen', imgLen')
      BY <1>t, <2>2 DEF AnyTable!ExtendLast
    <3>2. ASSUME NEW i \in 1..count', NEW j \in 1..count', i < j
          PROVE  AnyTable!Behind(place'[i], place'[j])
      <4>1. i \in 1..count-1 /\ place'[j].rp = place[j].rp /\ place'[j].va = place[j].va
        BY <1>t, <3>1, <3>2
      <4>2. AnyTable!Behind(place[i], place[j]) /\ place'[i] = place[i]
        BY <3>1, <3>2, <4>1 DEF AnyTable!InOrder
      <4> QED
        BY <4>1, <4>2 DEF AnyTable!Behind
    <3>3. ASSUME NEW i \in 1..count'
          PROVE  AnyTable!Inside(place'[i], fileLen', imgLen')
      <4>1. CASE i = count
        BY <3>1, <4>1
      <4>2. CASE i # count
        <5>1. i < count /\ i \in 1..count' /\ count \in 1..count'
          BY <1>t, <3>1, <4>2
        <5>2. AnyTable!Behind(place'[i], place'[count])
          BY <3>2, <5>1
        <5>3. place'[i] \in AnyTable!Section /\ place'[count] \in AnyTable!Section
          BY <2>n, <5>1
        <5>4. /\ place'[i].rp + place'[i].rs \in Nat /\ place'[i].va + AnyTable!InMemory(place'[i]) \in Nat
              /\ place'[count].rp \in Nat /\ place'[count].rs \in Nat
              /\ place'[count].va \in Nat /\ AnyTable!InMemory(place'[count]) \in Nat
          BY <5>3, TablePlaceNat
        <5> QED
          BY <2>n, <3>1, <5>2, <5>4 DEF AnyTable!Behind, AnyTable!Inside
      <4> QED
        BY <4>1, <4>2
    <3> QED
      BY <2>t, <3>2, <3>3 DEF AnyTable!InOrder
  <2>3. CASE AnyTable!Reserve
    <3>1. \A i \in 1..count : place[i].va + AnyTable!InMemory(place[i]) \in Nat
      BY <1>t, TablePlaceNat
    <3>2. UNCHANGED <<count, place, fileLen>> /\ imgLen' > imgLen
      BY <2>3 DEF AnyTable!Reserve
    <3>3. \A i \in 1..count : AnyTable!Inside(place[i], fileLen, imgLen')
      BY <1>t, <2>n, <3>1, <3>2 DEF AnyTable!InOrder, AnyTable!Inside
    <3> QED
      BY <2>t, <3>2, <3>3 DEF AnyTable!InOrder
  <2>4. CASE AnyTable!SetLength
    BY <2>t, <2>4 DEF AnyTable!SetLength, AnyTable!InOrder
  <2>5. CASE damaged' /\ AnyTable!Nothing'
    BY <2>t, <2>5 DEF AnyTable!Nothing, AnyTable!InOrder
  <2> QED
    BY <1>2, <2>1, <2>2, <2>3, <2>4, <2>5 DEF AnyTable!Next
<1> QED
  BY <1>1, <1>2

\* Any implementation of SectionTable keeps its sections disjoint and in order,
\* on disk and in memory, inside of the file and of the image: the promises that
\* each call makes by itself (Append, ExtendLast) add up over any sequence.
THEOREM AlwaysInOrder == AnyTable!Spec => [](AnyTable!Typed /\ AnyTable!InOrder)
<1>1. AnyTable!Init => AnyTable!Typed /\ AnyTable!InOrder
  BY DEF AnyTable!Init
<1>2. AnyTable!Typed /\ AnyTable!InOrder /\ [AnyTable!Next]_(AnyTable!vars) => AnyTable!Typed' /\ AnyTable!InOrder'
  BY TableOrderStep
<1> QED
  BY <1>1, <1>2, PTL DEF AnyTable!Spec

-----------------------------------------------------------------------------
(* Threads and locks *)

Places == {"idle", "lockBegin", "lockWrap", "lockEnd", "lockRead", "lockHdr", "begin",
           "canResize", "realloc", "wrap", "wrapSec", "end", "reload", "read", "getHdr"}
JobType == [op : {"none", "add", "extend", "resize"}, r : Nat, v : Nat, size : Nat, hdr : DWHeader, img : Nat]

\* Where the threads are, and what they were asked for.
JobsTyped ==
    /\ pc \in [Threads -> Places] /\ job \in [Threads -> JobType]
    /\ \A t \in Threads : job[t].op = "add" => job[t].r \in RawSizes /\ job[t].v \in VirtSizes

\* A part that needs a lock runs exactly while its thread holds the lock.
LocksHeld ==
    /\ peLock \in Threads \cup {NoThread} /\ secLock \in Threads \cup {NoThread}
    /\ \A t \in Threads :
          /\ pc[t] \in LockedParts <=> peLock = t
          /\ pc[t] \in {"wrapSec", "getHdr"} <=> secLock = t

\* Between the push of an entry and the reload of the maps, which no other
\* locked part can see, the maps are one entry short.
NoneReloads == \A t \in Threads : pc[t] # "reload"
MapsWhole == NoneReloads => mapped.im.n = loaded

\* The file has got another length, and the thread that did it has not wrapped.
WrapPending == \E t \in Threads : pc[t] \in {"lockWrap", "wrap", "wrapSec"}

\* As long as no wrap is pending, the entries are those that a wrap would load:
\* with the count that is in the file, or, before the reload, with the next one.
EntriesKnown ==
    ~WrapPending =>
        /\ NoneReloads => LoadedIsWrap /\ mapped.im.fs = fileSize
        /\ ~NoneReloads => (loaded <= SecMax => loaded = LoadCount((secNum + 1) % WW, fileSize))

ThreadsInv == TypeOK /\ JobsTyped /\ LocksHeld /\ MapsWhole /\ EntriesKnown

-----------------------------------------------------------------------------
(* Type correctness *)

LEMMA ThreadsTyped ==
    ASSUME ThreadsInv
    PROVE  /\ tbl \in [1..Slots -> DWHeader]
           /\ secNum \in 0..WW-1 /\ secNum \in Nat
           /\ fileSize \in 1..MaxFile /\ fileSize \in Nat
           /\ imgSize \in 0..MaxImage /\ loaded \in 0..Slots /\ loaded \in Nat
           /\ mapped \in MappedType /\ torn \in BOOLEAN
           /\ ret \in [op : {"none", "add", "extend"}, sec : Nat, got : Nat]
           /\ \A t \in Threads : job[t] \in JobType
  BY TableAssumption DEF ThreadsInv, TypeOK, JobsTyped, MappedType

\* canResize lets a call go on to the reallocation; or the resize fails, there or here.
Accepts(t) ==
    /\ pc[t] = "canResize" /\ Goto(t, "realloc")
    /\ UNCHANGED <<file, ret, torn, job, locks>>
Refuses(t) ==
    /\ pc[t] \in {"canResize", "realloc"} /\ ResizeRefused(t)
    /\ UNCHANGED <<file, ret, locks>>

LEMMA Answered ==
    ASSUME NEW t
    PROVE  CanResizeAsked(t) \/ ReallocFails(t) => Accepts(t) \/ Refuses(t)
  BY DEF CanResizeAsked, ReallocFails, Accepts, Refuses, locks, core

\* A step that leaves the file alone.
LEMMA FileKept == TypeOK /\ UNCHANGED <<file, ret, torn>> => TypeOK'
  BY DEF file, TypeOK

LEMMA FileTyped ==
    ASSUME ThreadsInv, NEW t \in Threads, Begin(t) \/ Step(t)
    PROVE  TypeOK'
<1> USE TableAssumption
<1>t. TypeOK /\ job[t] \in JobType
  BY ThreadsTyped DEF ThreadsInv
<1>1. ASSUME \/ Start(t) \/ LockPE(t) \/ LockSec(t)
             \/ Read(t) \/ GetHdr(t) \/ Accepts(t) \/ GoesUndefined(t)
      PROVE  TypeOK'
  <2>1. UNCHANGED <<file, ret, torn>>
    BY <1>1 DEF Start, LockPE, LockSec, Read, GetHdr, Accepts, GoesUndefined, file, vars
  <2> QED
    BY <1>t, <2>1, FileKept
<1>2. CASE AddBegin(t)
  <2> DEFINE r == job[t].r
             v == job[t].v
  <2>1. /\ UNCHANGED <<tbl, secNum, fileSize, loaded, mapped, ret, torn>>
        /\ imgSize' = imgSize \/ (AddBounded(r, v) /\ imgSize' = VirtEnd + VirtArg(r, v))
        /\ r \in RawSizes /\ v \in VirtSizes
    BY <1>2 DEF AddBegin, BeginAdd, ThreadsInv, JobsTyped
  <2>2. imgSize' \in 0..MaxImage
    BY <1>t, <2>1, NewHeaderTyped, ThreadsTyped
  <2> QED
    BY <1>t, <2>1, <2>2 DEF TypeOK
<1>3. CASE ExtendBegin(t)
  <2> DEFINE a == job[t].size
  <2>1. /\ UNCHANGED <<secNum, fileSize, loaded, mapped, ret, torn>>
        /\ \/ UNCHANGED <<tbl, imgSize>>
           \/ BeginExtend(fileSize + a) /\ tbl' = ExtendedTable(fileSize + a)
    BY <1>3 DEF ExtendBegin
  <2>2. a \in Nat
    BY <1>t DEF JobType
  <2>3. imgSize' \in 0..MaxImage /\ tbl' \in [1..Slots -> DWHeader]
    BY <1>t, <2>1, <2>2, ExtendBeginTyped, ThreadsTyped
  <2> QED
    BY <1>t, <2>1, <2>3 DEF TypeOK
<1>4. CASE Realloc(t)
  <2> DEFINE newSize == job[t].size
  <2>1. /\ newSize \in 1..MaxFile /\ fileSize' = newSize
        /\ tbl' = CutTable(tbl, newSize)
        /\ torn' = (torn \/ Torn(tbl', secNum, LoadCount(secNum, newSize), newSize))
        /\ UNCHANGED <<secNum, imgSize, loaded, mapped, ret>>
    BY <1>4 DEF Realloc
  <2>2. newSize \in Nat /\ newSize \in 1..MaxFile
    BY <1>t, <2>1 DEF JobType
  <2>3. tbl' \in [1..Slots -> DWHeader]
    BY <2>1, <2>2, CutTyped, ThreadsTyped
  <2>4. torn' \in BOOLEAN
    BY <2>1
  <2> HIDE DEF newSize
  <2> QED
    BY <1>t, <2>1, <2>2, <2>3, <2>4 DEF TypeOK
<1>5. CASE Refuses(t)
  <2>1. /\ UNCHANGED <<tbl, secNum, fileSize, imgSize, loaded, mapped, ret>>
        /\ torn' = (torn \/ Torn(tbl, secNum, LoadCount(secNum, fileSize), fileSize))
    BY <1>5 DEF Refuses, ResizeRefused, file
  <2>2. torn' \in BOOLEAN
    BY <2>1
  <2> QED
    BY <1>t, <2>1, <2>2 DEF TypeOK
<1>6. CASE WrapCore(t)
  <2>1. /\ WrapAfter(tbl, secNum, fileSize, imgSize)
        /\ UNCHANGED <<secNum, fileSize, imgSize, ret, torn>>
    BY <1>6 DEF WrapCore
  <2>2. tbl' \in [1..Slots -> DWHeader] /\ loaded' \in 0..Slots /\ mapped' \in MappedType
    BY <2>1, WrapTyped, ThreadsTyped
  <2> QED
    BY <1>t, <2>1, <2>2 DEF TypeOK, MappedType
<1>7. CASE AddPush(t)
  <2>1. /\ UNCHANGED <<secNum, fileSize, imgSize, mapped, ret>>
        /\ \/ UNCHANGED <<tbl, loaded, torn>>
           \/ /\ CanAddEntry(tbl, loaded, fileSize)
              /\ tbl' = [tbl EXCEPT ![loaded + 1] = job[t].hdr]
              /\ loaded' = loaded + 1
              /\ torn' = (torn \/ Torn(tbl', secNum, loaded', fileSize))
    BY <1>7 DEF AddPush
  <2>2. CASE UNCHANGED <<tbl, loaded, torn>>
    BY <1>t, <2>1, <2>2 DEF TypeOK
  <2>3. CASE /\ CanAddEntry(tbl, loaded, fileSize)
             /\ tbl' = [tbl EXCEPT ![loaded + 1] = job[t].hdr]
             /\ loaded' = loaded + 1
             /\ torn' = (torn \/ Torn(tbl', secNum, loaded', fileSize))
    <3>1. loaded + 1 \in 1..Slots /\ job[t].hdr \in DWHeader
      <4>1. loaded \in Nat /\ job[t] \in JobType
        BY ThreadsTyped
      <4>2. loaded + 1 \in 1..Slots
        BY <2>3, <4>1, TableAssumption DEF CanAddEntry
      <4>3. job[t].hdr \in DWHeader
        BY <4>1 DEF JobType
      <4> QED
        BY <4>2, <4>3
    <3>2. tbl' \in [1..Slots -> DWHeader] /\ loaded' \in 0..Slots
      BY <2>3, <3>1, ThreadsTyped
    <3>3. torn' \in BOOLEAN
      BY <2>3
    <3> QED
      BY <1>t, <2>1, <3>2, <3>3 DEF TypeOK
  <2> QED
    BY <2>1, <2>2, <2>3
<1>8. CASE AddReload(t)
  <2>1. /\ mapped' = [im |-> Now, mode |-> "reload"]
        /\ secNum' = (secNum + 1) % WW
        /\ UNCHANGED <<tbl, fileSize, imgSize, loaded, ret, torn>>
    BY <1>8 DEF AddReload
  <2>2. mapped' \in MappedType
    BY <2>1, ThreadsTyped DEF Now, ImageOf, MappedType
  <2>3. secNum + 1 \in Nat /\ WW \in Nat \ {0}
    BY ThreadsTyped
  <2>4. secNum' \in 0..WW-1
    BY <2>1, <2>3
  <2> QED
    BY <1>t, <2>1, <2>2, <2>4 DEF TypeOK, MappedType
<1> QED
  BY <1>1, <1>2, <1>3, <1>4, <1>5, <1>6, <1>7, <1>8, Answered DEF Begin, Step

-----------------------------------------------------------------------------
(* The calls and the two locks *)

\* A step only moves the thread that takes it.
LEMMA PlacesTyped ==
    ASSUME ThreadsInv, NEW t \in Threads, Begin(t) \/ Step(t)
    PROVE  /\ pc' \in [Threads -> Places]
           /\ \A u \in Threads \ {t} : pc'[u] = pc[u] /\ job'[u] = job[u]
<1>1. pc \in [Threads -> Places] /\ job \in [Threads -> JobType]
  BY DEF ThreadsInv, JobsTyped
<1>2. /\ \/ pc' = pc
         \/ \E p \in Places : pc' = [pc EXCEPT ![t] = p]
      /\ \/ job' = job
         \/ \E j : job' = [job EXCEPT ![t] = j]
  BY Answered DEF Begin, Step, Start, LockPE, LockSec, AddBegin, ExtendBegin, Realloc, Accepts,
                  Refuses, ResizeRefused,
         WrapCore, AddPush, AddReload, Read, GetHdr, GoesUndefined, Goto, SetJob, Finish, Places
<1> QED
  BY <1>1, <1>2

\* The arguments and the local variables of the calls keep their types: the
\* header that addNewSection pastes later and the one extendLastSection changed.
LEMMA JobsStep ==
    ASSUME ThreadsInv, NEW t \in Threads, Begin(t) \/ Step(t)
    PROVE  JobsTyped'
<1> USE TableAssumption
<1> DEFINE Asked(j) == j \in JobType /\ (j.op = "add" => j.r \in RawSizes /\ j.v \in VirtSizes)
<1>t. /\ pc \in [Threads -> Places] /\ job \in [Threads -> JobType]
      /\ \A u \in Threads : Asked(job[u])
  BY DEF ThreadsInv, JobsTyped
<1>n. NoJob \in JobType /\ NoJob.op = "none"
  BY DEF NoJob, JobType, ZeroHdr, DWHeader, DWord
<1>s. SUFFICES job' = job \/ \E j : Asked(j) /\ job' = [job EXCEPT ![t] = j]
  <2>1. job' \in [Threads -> JobType] /\ \A u \in Threads : Asked(job'[u])
    BY <1>t, <1>s
  <2> QED
    BY <2>1, PlacesTyped DEF JobsTyped
<1>1. CASE Start(t)
  <2>1. CASE \E r \in RawSizes, v \in VirtSizes :
               SetJob(t, [NoJob EXCEPT !.op = "add", !.r = r, !.v = v])
    <3>1. PICK r \in RawSizes, v \in VirtSizes :
               SetJob(t, [NoJob EXCEPT !.op = "add", !.r = r, !.v = v])
      BY <2>1
    <3>2. r \in Nat /\ v \in Nat
      BY DEF DWord
    <3>3. Asked([NoJob EXCEPT !.op = "add", !.r = r, !.v = v])
      BY <1>n, <3>2 DEF JobType
    <3> QED
      BY <3>1, <3>3 DEF SetJob
  <2>2. CASE \E a \in Growths : SetJob(t, [NoJob EXCEPT !.op = "extend", !.size = a])
    <3>1. PICK a \in Growths : SetJob(t, [NoJob EXCEPT !.op = "extend", !.size = a])
      BY <2>2
    <3>2. Asked([NoJob EXCEPT !.op = "extend", !.size = a])
      BY <1>n DEF JobType
    <3> QED
      BY <3>1, <3>2 DEF SetJob
  <2>3. CASE \E fs \in FileSizes : SetJob(t, [NoJob EXCEPT !.op = "resize", !.size = fs])
    <3>1. PICK fs \in FileSizes : SetJob(t, [NoJob EXCEPT !.op = "resize", !.size = fs])
      BY <2>3
    <3>2. Asked([NoJob EXCEPT !.op = "resize", !.size = fs])
      BY <1>n DEF JobType
    <3> QED
      BY <3>1, <3>2 DEF SetJob
  <2>4. CASE UNCHANGED job
    BY <2>4
  <2> QED
    BY <1>1, <2>1, <2>2, <2>3, <2>4 DEF Start
<1>2. CASE AddBegin(t)
  <2> DEFINE r == job[t].r
             v == job[t].v
  <2>1. r \in RawSizes /\ v \in VirtSizes
    BY <1>2, <1>t DEF AddBegin
  <2>2. CASE /\ BeginAdd(r, v)
             /\ SetJob(t, [job[t] EXCEPT !.hdr = NewHeader(r, v), !.size = RawEnd + r])
    <3>1. NewHeader(r, v) \in DWHeader /\ RawEnd + r \in Nat
      BY <2>1, <2>2, NewHeaderTyped DEF BeginAdd, ThreadsInv
    <3> HIDE DEF r, v
    <3>2. Asked([job[t] EXCEPT !.hdr = NewHeader(r, v), !.size = RawEnd + r])
      BY <1>t, <3>1 DEF JobType
    <3> QED
      BY <2>2, <3>2 DEF SetJob
  <2>3. CASE SetJob(t, NoJob)
    BY <1>n, <2>3 DEF SetJob
  <2> QED
    BY <1>2, <2>2, <2>3 DEF AddBegin, Finish
<1>3. CASE ExtendBegin(t)
  <2> DEFINE newSize == fileSize + job[t].size
  <2>1. CASE /\ BeginExtend(newSize)
             /\ SetJob(t, [job[t] EXCEPT !.hdr = tbl[loaded], !.img = imgSize, !.size = newSize])
    <3>1. job[t].size \in Nat
      BY <1>t DEF JobType
    <3>4. TypeOK
      BY DEF ThreadsInv
    <3>5. tbl[loaded] \in DWHeader
      BY <2>1, <3>1, <3>4, ExtendBeginTyped
    <3>2. newSize \in Nat /\ tbl[loaded] \in DWHeader /\ imgSize \in Nat
      BY <3>1, <3>5, ThreadsTyped
    <3> HIDE DEF newSize
    <3>3. Asked([job[t] EXCEPT !.hdr = tbl[loaded], !.img = imgSize, !.size = newSize])
      BY <1>t, <3>2 DEF JobType
    <3> QED
      BY <2>1, <3>3 DEF SetJob
  <2>2. CASE SetJob(t, NoJob)
    BY <1>n, <2>2 DEF SetJob
  <2> QED
    BY <1>3, <2>1, <2>2 DEF ExtendBegin, Finish
<1>4. CASE \/ LockPE(t) \/ LockSec(t) \/ Realloc(t) \/ Accepts(t) \/ Refuses(t) \/ WrapCore(t)
           \/ AddPush(t) \/ AddReload(t) \/ Read(t) \/ GetHdr(t) \/ GoesUndefined(t)
  <2>1. job' = job \/ SetJob(t, NoJob)
    BY <1>4 DEF LockPE, LockSec, Realloc, Accepts, Refuses, ResizeRefused, WrapCore, AddPush,
                AddReload, Read, GetHdr, GoesUndefined, Finish
  <2> QED
    BY <1>n, <2>1 DEF SetJob
<1> QED
  BY <1>1, <1>2, <1>3, <1>4, Answered DEF Begin, Step

\* Every piece of a call that ends with a lock given back was begun when it was
\* taken, by the same thread.
LEMMA LocksStep ==
    ASSUME ThreadsInv, NEW t \in Threads, Begin(t) \/ Step(t)
    PROVE  LocksHeld'
<1> USE ThreadAssumption DEF LockedParts
<1>t. /\ pc \in [Threads -> Places] /\ pc' \in [Threads -> Places] /\ LocksHeld
      /\ \A u \in Threads \ {t} : pc'[u] = pc[u]
  BY PlacesTyped DEF ThreadsInv, JobsTyped
<1>1. CASE Start(t)
  <2>1. /\ UNCHANGED locks /\ pc[t] = "idle"
        /\ pc'[t] \in {"lockBegin", "canResize", "lockRead", "lockHdr"}
    BY <1>1, <1>t DEF Start, Goto
  <2> QED
    BY <1>t, <2>1 DEF LocksHeld, locks
<1>2. CASE LockPE(t)
  <2>1. /\ peLock = NoThread /\ peLock' = t /\ secLock' = secLock
        /\ pc[t] \in {"lockBegin", "lockWrap", "lockEnd", "lockRead"}
        /\ pc'[t] \in {"begin", "wrap", "end", "read"}
    BY <1>2, <1>t DEF LockPE, Goto
  <2> QED
    BY <1>t, <2>1 DEF LocksHeld
<1>3. CASE LockSec(t)
  <2>1. /\ secLock = NoThread /\ secLock' = t /\ peLock' = peLock
        /\ \/ pc[t] = "wrap" /\ pc'[t] = "wrapSec"
           \/ pc[t] = "lockHdr" /\ pc'[t] = "getHdr"
    BY <1>3, <1>t DEF LockSec, Goto
  <2> QED
    BY <1>t, <2>1 DEF LocksHeld
<1>4. CASE AddBegin(t) \/ ExtendBegin(t)
  <2>1. /\ pc[t] = "begin" /\ pc'[t] \in {"canResize", "idle"}
        /\ peLock' = NoThread /\ secLock' = secLock
    BY <1>4, <1>t DEF AddBegin, ExtendBegin, Goto, Finish, Unlock
  <2> QED
    BY <1>t, <2>1 DEF LocksHeld
<1>5. CASE Realloc(t) \/ Accepts(t) \/ Refuses(t)
  <2>1. /\ pc[t] \in {"canResize", "realloc"}
        /\ pc'[t] \in {"realloc", "lockWrap", "lockRead", "idle"}
        /\ UNCHANGED locks
    BY <1>5, <1>t DEF Realloc, Accepts, Refuses, ResizeRefused, Goto, Finish
  <2> QED
    BY <1>t, <2>1 DEF LocksHeld, locks
<1>6. CASE WrapCore(t)
  <2>1. /\ pc[t] = "wrapSec" /\ pc'[t] \in {"lockEnd", "lockRead", "idle"}
        /\ peLock' = NoThread /\ secLock' = NoThread
    BY <1>6, <1>t DEF WrapCore, Goto, Finish
  <2> QED
    BY <1>t, <2>1 DEF LocksHeld
<1>7. CASE AddPush(t)
  <2>1. /\ pc[t] = "end" /\ secLock' = secLock
        /\ \/ pc'[t] = "reload" /\ peLock' = peLock
           \/ pc'[t] = "idle" /\ peLock' = NoThread
    BY <1>7, <1>t DEF AddPush, Goto, Finish, Unlock
  <2> QED
    BY <1>t, <2>1 DEF LocksHeld
<1>8. CASE AddReload(t) \/ Read(t)
  <2>1. /\ pc[t] \in {"reload", "read"} /\ pc'[t] = "idle"
        /\ peLock' = NoThread /\ secLock' = secLock
    BY <1>8, <1>t DEF AddReload, Read, Goto, Finish, Unlock
  <2> QED
    BY <1>t, <2>1 DEF LocksHeld
<1>9. CASE GetHdr(t)
  <2>1. /\ pc[t] = "getHdr" /\ pc'[t] = "idle"
        /\ peLock' = peLock /\ secLock' = NoThread
    BY <1>9, <1>t DEF GetHdr, Goto, Finish
  <2> QED
    BY <1>t, <2>1 DEF LocksHeld
<1>10. CASE GoesUndefined(t)
  BY <1>10, <1>t DEF GoesUndefined, LocksHeld, locks
<1> QED
  BY <1>1, <1>2, <1>3, <1>4, <1>5, <1>6, <1>7, <1>8, <1>9, <1>10, Answered DEF Begin, Step

-----------------------------------------------------------------------------
(* The entries and the maps *)

\* The steps that touch the entries, the maps, the count or the length hold
\* m_peMutex, but for the reallocation: nobody else is between push and reload.
LEMMA OnlyOneReloads ==
    ASSUME ThreadsInv, NEW t \in Threads, peLock = t, pc[t] # "reload"
    PROVE  NoneReloads
  BY DEF ThreadsInv, LocksHeld, NoneReloads, LockedParts

\* A step that is not about sections neither starts nor ends a reload or a wrap.
LEMMA MapsStep ==
    ASSUME ThreadsInv, NEW t \in Threads, Begin(t) \/ Step(t)
    PROVE  MapsWhole'
<1>t. /\ pc \in [Threads -> Places] /\ pc' \in [Threads -> Places] /\ LocksHeld /\ MapsWhole
      /\ \A u \in Threads \ {t} : pc'[u] = pc[u]
  BY PlacesTyped DEF ThreadsInv, JobsTyped
<1>1. CASE /\ UNCHANGED <<loaded, mapped>>
           /\ pc[t] # "reload"
  <2>1. NoneReloads' => NoneReloads
    BY <1>1, <1>t DEF NoneReloads
  <2> QED
    BY <1>1, <1>t, <2>1 DEF MapsWhole
<1>2. CASE WrapCore(t)
  <2>1. loaded' = mapped'.im.n
    BY <1>2 DEF WrapCore, WrapAfter, ImageOf
  <2> QED
    BY <2>1 DEF MapsWhole
<1>3. CASE AddPush(t) /\ pc'[t] = "reload"
  BY <1>3 DEF MapsWhole, NoneReloads
<1>4. CASE AddReload(t)
  <2>1. loaded' = mapped'.im.n
    BY <1>4 DEF AddReload, Now, ImageOf
  <2> QED
    BY <2>1 DEF MapsWhole
<1>5. AddPush(t) => pc'[t] = "reload" \/ (UNCHANGED <<loaded, mapped>> /\ pc[t] # "reload")
  BY <1>t DEF AddPush, Goto
<1>6. \/ Start(t) \/ LockPE(t) \/ LockSec(t) \/ AddBegin(t) \/ ExtendBegin(t) \/ Realloc(t)
      \/ Accepts(t) \/ Refuses(t) \/ Read(t) \/ GetHdr(t)
      => UNCHANGED <<loaded, mapped>> /\ pc[t] # "reload"
  BY DEF Start, LockPE, LockSec, AddBegin, ExtendBegin, Realloc, Accepts, Refuses, ResizeRefused,
         Read, GetHdr, file
<1>7. CASE GoesUndefined(t)
  BY <1>7, <1>t DEF GoesUndefined, vars, MapsWhole, NoneReloads
<1> QED
  BY <1>1, <1>2, <1>3, <1>4, <1>5, <1>6, <1>7, Answered DEF Begin, Step

\* While no wrap is pending, a thread that begins or ends a part of another kind
\* leaves the entries known.
LEMMA EntriesStep ==
    ASSUME ThreadsInv, NEW t \in Threads, Begin(t) \/ Step(t)
    PROVE  EntriesKnown'
<1>t. /\ pc \in [Threads -> Places] /\ pc' \in [Threads -> Places]
      /\ LocksHeld /\ MapsWhole /\ EntriesKnown
      /\ \A u \in Threads \ {t} : pc'[u] = pc[u]
  BY PlacesTyped DEF ThreadsInv, JobsTyped
\* Such a step changes none of what EntriesKnown speaks of, and the thread is at
\* none of the places it names, before or after, unless it stays in a wrap.
<1>1. ASSUME UNCHANGED <<secNum, fileSize, loaded, mapped>>,
             pc[t] # "reload" /\ pc'[t] # "reload",
             pc[t] \in {"lockWrap", "wrap", "wrapSec"} => pc'[t] \in {"lockWrap", "wrap", "wrapSec"}
      PROVE  EntriesKnown'
  <2>1. WrapPending => WrapPending'
    BY <1>1, <1>t DEF WrapPending
  <2>2. NoneReloads' <=> NoneReloads
    BY <1>1, <1>t DEF NoneReloads
  <2>3. LoadedIsWrap' <=> LoadedIsWrap
    BY <1>1 DEF LoadedIsWrap
  <2> QED
    BY <1>1, <1>t, <2>1, <2>2, <2>3 DEF EntriesKnown
<1>2. CASE \/ Start(t) \/ LockPE(t) \/ LockSec(t) \/ AddBegin(t) \/ ExtendBegin(t)
           \/ Accepts(t) \/ Refuses(t) \/ Read(t) \/ GetHdr(t)
  <2>1. UNCHANGED <<secNum, fileSize, loaded, mapped>>
    BY <1>2 DEF Start, LockPE, LockSec, AddBegin, ExtendBegin, Accepts, Refuses, ResizeRefused,
                Read, GetHdr, file
  <2>2. pc[t] # "reload" /\ pc'[t] # "reload"
    BY <1>2, <1>t DEF Start, LockPE, LockSec, AddBegin, ExtendBegin, Accepts, Refuses, ResizeRefused,
                      Read, GetHdr, Goto, Finish
  <2>3. pc[t] \in {"lockWrap", "wrap", "wrapSec"} => pc'[t] \in {"lockWrap", "wrap", "wrapSec"}
    BY <1>2, <1>t DEF Start, LockPE, LockSec, AddBegin, ExtendBegin, Accepts, Refuses, ResizeRefused,
                      Read, GetHdr, Goto, Finish
  <2> QED
    BY <1>1, <2>1, <2>2, <2>3
<1>3. CASE Realloc(t)
  <2>1. WrapPending'
    BY <1>3, <1>t DEF Realloc, Goto, WrapPending
  <2> QED
    BY <2>1 DEF EntriesKnown
<1>4. CASE WrapCore(t)
  <2>1. loaded' = LoadCount(secNum, fileSize) /\ mapped'.im.fs = fileSize
        /\ secNum' = secNum /\ fileSize' = fileSize
    BY <1>4 DEF WrapCore, WrapAfter, ImageOf
  <2>2. LoadedIsWrap'
    BY <2>1 DEF LoadedIsWrap
  <2>3. NoneReloads'
    <3>1. peLock = t /\ pc[t] # "reload" /\ pc'[t] # "reload"
      BY <1>4, <1>t DEF WrapCore, LocksHeld, LockedParts, Goto, Finish
    <3> QED
      BY <1>t, <3>1, OnlyOneReloads DEF NoneReloads
  <2> QED
    BY <2>1, <2>2, <2>3 DEF EntriesKnown
<1>5. CASE AddPush(t)
  <2>1. /\ UNCHANGED <<secNum, fileSize, mapped>> /\ pc[t] = "end" /\ peLock = t
    BY <1>5, <1>t DEF AddPush, LocksHeld, LockedParts
  <2>2. NoneReloads /\ (WrapPending <=> WrapPending')
    <3>1. NoneReloads
      BY <2>1, OnlyOneReloads
    <3>2. pc'[t] \in {"idle", "reload"}
      BY <1>5, <1>t DEF AddPush, Goto, Finish
    <3> QED
      BY <1>t, <2>1, <3>1, <3>2 DEF WrapPending
  <2>3. CASE loaded' = loaded /\ pc'[t] = "idle"
    <3>1. NoneReloads'
      BY <1>t, <2>2, <2>3 DEF NoneReloads
    <3>2. LoadedIsWrap' <=> LoadedIsWrap
      BY <2>1, <2>3 DEF LoadedIsWrap
    <3> QED
      BY <1>t, <2>1, <2>2, <3>1, <3>2 DEF EntriesKnown
  <2>4. CASE CanAddEntry(tbl, loaded, fileSize) /\ loaded' = loaded + 1 /\ pc'[t] = "reload"
    <3>1. ~NoneReloads'
      BY <2>4 DEF NoneReloads
    <3>2. SUFFICES ASSUME ~WrapPending, loaded + 1 <= SecMax
                   PROVE  loaded + 1 = LoadCount((secNum + 1) % WW, fileSize)
      BY <2>1, <2>2, <2>4, <3>1 DEF EntriesKnown
    <3>3. loaded <= SecMax
      BY <3>2, ThreadsTyped, TableAssumption
    <3>4. loaded = LoadCount(secNum, fileSize)
      BY <1>t, <2>2, <3>2, <3>3 DEF EntriesKnown, LoadedIsWrap
    <3>5. secNum \in Nat /\ fileSize \in Nat
      BY ThreadsTyped
    <3>6. /\ LoadCount(secNum, fileSize) = secNum /\ (secNum + 1) % WW = secNum + 1
          /\ LoadCount(secNum + 1, fileSize) = secNum + 1
      BY <2>4, <3>2, <3>4, <3>5, AddedIsLoaded
    <3> QED
      BY <3>4, <3>6
  <2> QED
    BY <1>5, <1>t, <2>3, <2>4 DEF AddPush, Goto, Finish
<1>6. CASE AddReload(t)
  <2>1. /\ mapped'.im.fs = fileSize /\ secNum' = (secNum + 1) % WW
        /\ UNCHANGED <<fileSize, loaded>> /\ pc[t] = "reload" /\ pc'[t] = "idle"
    BY <1>6, <1>t DEF AddReload, Now, ImageOf, Finish, Goto
  <2>2. ~NoneReloads /\ NoneReloads'
    <3>1. \A u \in Threads : pc[u] = "reload" => u = t
      BY <1>t, <2>1 DEF LocksHeld, LockedParts
    <3> QED
      BY <1>t, <2>1, <3>1 DEF NoneReloads
  <2>3. WrapPending => WrapPending'
    BY <1>t, <2>1 DEF WrapPending
  <2>4. ~WrapPending => LoadedIsWrap'
    BY <1>t, <2>1, <2>2 DEF EntriesKnown, LoadedIsWrap
  <2> QED
    BY <2>1, <2>2, <2>3, <2>4 DEF EntriesKnown
<1>7. CASE GoesUndefined(t)
  <2>1. UNCHANGED <<vars, pc>>
    BY <1>7 DEF GoesUndefined
  <2> QED
    BY <1>t, <2>1 DEF vars, EntriesKnown, NoneReloads, WrapPending, LoadedIsWrap
<1> QED
  BY <1>2, <1>3, <1>4, <1>5, <1>6, <1>7, Answered DEF Begin, Step

-----------------------------------------------------------------------------
(* Theorems *)

LEMMA ThreadsInvInit == AllInit => ThreadsInv
<1> SUFFICES ASSUME AllInit
             PROVE  ThreadsInv
  OBVIOUS
<1>1. TypeOK
  BY InitTyped DEF AllInit
<1>2. JobsTyped
  <2>1. NoJob \in JobType /\ NoJob.op = "none"
    BY TableAssumption DEF NoJob, JobType, ZeroHdr, DWHeader, DWord
  <2> QED
    BY <2>1 DEF AllInit, JobsTyped, Places
<1>3. LocksHeld
  BY ThreadAssumption DEF AllInit, LocksHeld, LockedParts
<1>4. PICK im \in InitImages : Open(im)
  BY DEF AllInit, Init
<1>5. MapsWhole
  BY <1>4 DEF Open, MapsWhole, ImageOf
<1>6. EntriesKnown
  BY <1>4 DEF AllInit, Open, EntriesKnown, NoneReloads, LoadedIsWrap, ImageOf
<1> QED
  BY <1>1, <1>2, <1>3, <1>5, <1>6 DEF ThreadsInv

LEMMA ThreadsInvStep == ThreadsInv /\ [AllNext]_allVars => ThreadsInv'
<1> SUFFICES ASSUME ThreadsInv, [AllNext]_allVars
             PROVE  ThreadsInv'
  OBVIOUS
<1>1. ASSUME NEW t \in Threads, Begin(t) \/ Step(t)
      PROVE  ThreadsInv'
  BY <1>1, FileTyped, JobsStep, LocksStep, MapsStep, EntriesStep DEF ThreadsInv
<1>2. CASE UNCHANGED allVars
  <2>1. UNCHANGED <<tbl, secNum, fileSize, imgSize, loaded, mapped, ret, torn,
                    pc, job, peLock, secLock>>
    BY <1>2 DEF allVars, vars, locks
  <2> QED
    BY <2>1 DEF ThreadsInv, TypeOK, JobsTyped, LocksHeld, MapsWhole, EntriesKnown, NoneReloads,
                WrapPending, LoadedIsWrap
<1> QED
  BY <1>1, <1>2 DEF AllNext

\* For any number of threads and calls: a thread runs a locked part of a call
\* exactly while it holds the lock of that part, every lock is given back by the
\* piece that ends with it, and the file keeps its type and bounds.
THEOREM ThreadsTypeCorrect == AllSpec => []ThreadsTypeOK
<1>1. ThreadsInv => ThreadsTypeOK
  BY DEF ThreadsInv, LocksHeld, ThreadsTypeOK
<1> QED
  BY <1>1, ThreadsInvInit, ThreadsInvStep, PTL DEF AllSpec

\* A locked reader (rawToRva, getSecHdrAtOffset...) never finds maps that are one
\* entry short, although addEntry pushes the entry before it reloads the maps.
THEOREM ReadersSafe == AllSpec => []ReadersSeeWhole
<1>1. ThreadsInv => ReadersSeeWhole
  <2> SUFFICES ASSUME ThreadsInv, NEW t \in Threads, pc[t] = "read"
               PROVE  mapped.im.n = loaded
    BY DEF ReadersSeeWhole
  <2>1. peLock = t
    BY DEF ThreadsInv, LocksHeld, LockedParts
  <2> QED
    BY <2>1, OnlyOneReloads DEF ThreadsInv, MapsWhole
<1> QED
  BY <1>1, ThreadsInvInit, ThreadsInvStep, PTL DEF AllSpec

\* Whatever two reallocations and wraps did to each other, when no call is under
\* way the entries are those that a wrap of the file would load, and the maps
\* were built from them and for the length the file has.
THEOREM SettlesWhole == AllSpec => []Settled
<1>1. ThreadsInv => Settled
  <2> SUFFICES ASSUME ThreadsInv, \A t \in Threads : pc[t] = "idle"
               PROVE  LoadedIsWrap /\ mapped.im.n = loaded /\ mapped.im.fs = fileSize
    BY DEF Settled
  <2>1. NoneReloads /\ ~WrapPending
    BY DEF NoneReloads, WrapPending
  <2> QED
    BY <2>1 DEF ThreadsInv, MapsWhole, EntriesKnown
<1> QED
  BY <1>1, ThreadsInvInit, ThreadsInvStep, PTL DEF AllSpec

\* What canResize has granted spares the headers, unless it was asked while the
\* pointers of PECore were NULL.
HeadersHeld ==
    ~blind => HeadersKept /\ \A t \in Threads : pc[t] = "realloc" => job[t].size >= NtEnd

LEMMA HeadersStep ==
    ASSUME ThreadsInv, HeadersHeld, NEW t \in Threads, Begin(t) \/ Step(t)
    PROVE  HeadersHeld'
<1>t. /\ NtEnd \in Nat /\ fileSize \in Nat /\ t \in Threads
      /\ pc \in [Threads -> Places] /\ job[t] \in JobType
      /\ \A u \in Threads \ {t} : pc'[u] = pc[u] /\ job'[u] = job[u]
  BY ThreadsTyped, PlacesTyped, TableAssumption DEF ThreadsInv, JobsTyped
<1>s. job[t].size \in Nat
  BY <1>t DEF JobType
\* A step that neither changes the length nor grants a resize.
<1>1. ASSUME UNCHANGED <<fileSize, blind>>, pc'[t] # "realloc"
      PROVE  HeadersHeld'
  BY <1>1, <1>t DEF HeadersHeld, HeadersKept
<1>2. CASE \/ Start(t) \/ LockPE(t) \/ LockSec(t) \/ AddBegin(t) \/ ExtendBegin(t)
           \/ WrapCore(t) \/ AddPush(t) \/ AddReload(t) \/ Read(t) \/ GetHdr(t)
  <2>1. UNCHANGED <<fileSize, blind>>
    BY <1>2 DEF Start, LockPE, LockSec, AddBegin, ExtendBegin, WrapCore, AddPush, AddReload, Read,
                GetHdr, file, core
  <2>2. pc'[t] # "realloc"
    BY <1>2, <1>t DEF Start, LockPE, LockSec, AddBegin, ExtendBegin, WrapCore, AddPush, AddReload,
                      Read, GetHdr, Goto, Finish
  <2> QED
    BY <1>1, <2>1, <2>2
<1>3. CASE CanResizeAsked(t)
  <2> DEFINE newSize == job[t].size
  <2>0. UNCHANGED fileSize
    BY <1>3 DEF CanResizeAsked, file
  <2>1. UNCHANGED fileSize /\ (blind => blind')
    <3>1. \/ UNCHANGED blind
          \/ \E limit \in Limits : blind' = (blind \/ (Rewrapping /\ limit < NtEnd))
      BY <1>3, Zenon DEF CanResizeAsked
    <3>2. ASSUME NEW X, blind' = (blind \/ X)
          PROVE  blind => blind'
      BY <3>2
    <3>3. (UNCHANGED blind) => (blind => blind')
      OBVIOUS
    <3> QED
      BY <2>0, <3>1, <3>2, <3>3, Zenon
  <2>2. CASE pc'[t] # "realloc"
    <3>1. HeadersHeld => (~blind => HeadersKept)
      BY DEF HeadersHeld
    <3> QED
      BY <1>t, <2>1, <2>2 DEF HeadersHeld, HeadersKept
  <2>3. CASE pc'[t] = "realloc"
    <3>1. job' = job
      BY <1>3, <1>t, <2>3 DEF CanResizeAsked, ResizeRefused, Goto, Finish
    <3>2. \/ newSize > fileSize
          \/ \E limit \in Limits : newSize >= limit /\ blind' = (blind \/ (Rewrapping /\ limit < NtEnd))
      BY <1>3, <1>t, <2>3 DEF CanResizeAsked, ResizeRefused, Goto, Finish
    <3>3. ASSUME ~blind'
          PROVE  newSize >= NtEnd
      <4>1. CASE newSize > fileSize
        BY <1>s, <1>t, <2>1, <3>3, <4>1 DEF HeadersHeld, HeadersKept
      <4>2. CASE \E limit \in Limits : newSize >= limit /\ blind' = (blind \/ (Rewrapping /\ limit < NtEnd))
        <5>1. PICK limit \in Limits : newSize >= limit /\ ~(Rewrapping /\ limit < NtEnd)
          BY <3>3, <4>2
        <5>2. limit \in Int /\ (~Rewrapping => limit = NtEnd)
          <6>1. NtLen \in Nat /\ NtLen32 \in Nat /\ NtEnd \in Nat
            BY <1>t, ThreadAssumption
          <6> QED
            BY <5>1, <6>1 DEF Limits
        <5> QED
          BY <1>s, <1>t, <5>1, <5>2
      <4> QED
        BY <3>2, <4>1, <4>2
    <3> QED
      BY <1>t, <2>1, <3>1, <3>3 DEF HeadersHeld, HeadersKept
  <2> QED
    BY <2>2, <2>3
<1>4. CASE Realloc(t)
  <2>1. /\ pc[t] = "realloc" /\ pc'[t] = "lockWrap" /\ fileSize' = job[t].size
        /\ blind' = blind
    BY <1>4, <1>t DEF Realloc, Goto
  <2> QED
    BY <1>s, <1>t, <2>1 DEF HeadersHeld, HeadersKept
<1>5. CASE ReallocFails(t)
  <2>1. UNCHANGED <<fileSize, blind>> /\ pc'[t] # "realloc"
    BY <1>5, <1>t DEF ReallocFails, ResizeRefused, Goto, Finish, file, core
  <2> QED
    BY <1>1, <2>1
<1>6. CASE GoesUndefined(t)
  BY <1>6 DEF GoesUndefined, HeadersHeld, HeadersKept, vars, core
<1> QED
  BY <1>2, <1>3, <1>4, <1>5, <1>6 DEF Begin, Step

\* canResize is asked with no lock held, and the file may have got another length
\* before its answer is used. Still, for any number of threads and calls, what it
\* grants spares the NT headers, unless a thread asks it while core.wrap of
\* another has reset the pointers that it reads.
THEOREM ThreadsKeepHeaders ==
    ASSUME HoldsHeaders
    PROVE  AllSpec => []HeadersAlwaysKept
<1>1. AllInit => ThreadsInv /\ HeadersHeld
  <2>1. AllInit => HeadersHeld
    BY DEF AllInit, Init, Open, HeadersHeld, HeadersKept, HoldsHeaders
  <2> QED
    BY <2>1, ThreadsInvInit
<1>2. ThreadsInv /\ HeadersHeld /\ [AllNext]_allVars => ThreadsInv' /\ HeadersHeld'
  <2> SUFFICES ASSUME ThreadsInv, HeadersHeld, [AllNext]_allVars
               PROVE  HeadersHeld'
    BY ThreadsInvStep
  <2>1. CASE \E t \in Threads : Begin(t) \/ Step(t)
    BY <2>1, HeadersStep
  <2>2. CASE UNCHANGED allVars
    BY <2>2 DEF allVars, vars, core, HeadersHeld, HeadersKept
  <2> QED
    BY <2>1, <2>2 DEF AllNext
<1>3. HeadersHeld => HeadersAlwaysKept
  BY DEF HeadersHeld, HeadersAlwaysKept
<1> QED
  BY <1>1, <1>2, <1>3, PTL DEF AllSpec

-----------------------------------------------------------------------------
(* The limit of sections *)

\* Between the push of an entry and the count the entries are one ahead, and
\* nobody else can pass the test of the count then.
ThreadsWithin ==
    /\ secNum <= SecMax
    /\ NoneReloads => loaded <= secNum
    /\ ~NoneReloads => loaded <= secNum + 1 /\ secNum # SecMax

LEMMA ThreadsWithinStep ==
    ASSUME ThreadsInv, ThreadsWithin, NEW t \in Threads, Begin(t) \/ Step(t)
    PROVE  ThreadsWithin'
<1> USE TableAssumption
<1>t. /\ pc \in [Threads -> Places] /\ LocksHeld
      /\ secNum \in Nat /\ loaded \in Nat /\ fileSize \in Nat
      /\ \A u \in Threads \ {t} : pc'[u] = pc[u]
      /\ pc' \in [Threads -> Places]
  BY ThreadsTyped, PlacesTyped DEF ThreadsInv, JobsTyped
<1>1. CASE \/ Start(t) \/ LockPE(t) \/ LockSec(t) \/ AddBegin(t) \/ ExtendBegin(t)
           \/ Realloc(t) \/ Accepts(t) \/ Refuses(t) \/ Read(t) \/ GetHdr(t)
  <2>1. UNCHANGED <<secNum, loaded>>
    BY <1>1 DEF Start, LockPE, LockSec, AddBegin, ExtendBegin, Realloc, Accepts, Refuses,
                ResizeRefused, Read, GetHdr, file
  <2>2. pc[t] # "reload" /\ pc'[t] # "reload"
    BY <1>1, <1>t DEF Start, LockPE, LockSec, AddBegin, ExtendBegin, Realloc, Accepts, Refuses,
                      ResizeRefused, Read,
                      GetHdr, Goto, Finish
  <2>3. NoneReloads' <=> NoneReloads
    BY <1>t, <2>2 DEF NoneReloads
  <2> QED
    BY <2>1, <2>3 DEF ThreadsWithin
<1>2. CASE WrapCore(t)
  <2>1. pc[t] = "wrapSec" /\ peLock = t
    BY <1>2 DEF WrapCore, ThreadsInv, LocksHeld, LockedParts
  <2>2. NoneReloads /\ NoneReloads'
    <3>1. NoneReloads
      BY <2>1, OnlyOneReloads
    <3>2. pc'[t] # "reload"
      BY <1>2, <1>t DEF WrapCore, Goto, Finish
    <3> QED
      BY <1>t, <3>1, <3>2 DEF NoneReloads
  <2>3. secNum' = secNum /\ loaded' = LoadCount(secNum, fileSize)
    BY <1>2 DEF WrapCore, WrapAfter
  <2> QED
    BY <1>t, <2>2, <2>3, LoadCountBounds DEF ThreadsWithin
<1>3. CASE AddPush(t)
  <2>1. pc[t] = "end" /\ peLock = t
    BY <1>3 DEF AddPush, ThreadsInv, LocksHeld, LockedParts
  <2>2. NoneReloads
    BY <2>1, OnlyOneReloads
  <2>3. CASE UNCHANGED <<secNum, loaded>> /\ Finish(t)
    <3>1. NoneReloads'
      BY <1>t, <2>2, <2>3 DEF NoneReloads, Finish, Goto
    <3> QED
      BY <2>2, <2>3, <3>1 DEF ThreadsWithin
  <2>4. CASE secNum' = secNum /\ secNum # SecMax /\ loaded' = loaded + 1 /\ Goto(t, "reload")
    <3>1. ~NoneReloads'
      BY <1>t, <2>4 DEF NoneReloads, Goto
    <3> QED
      BY <1>t, <2>2, <2>4, <3>1 DEF ThreadsWithin
  <2> QED
    BY <1>3, <2>3, <2>4 DEF AddPush
<1>4. CASE AddReload(t)
  <2>1. pc[t] = "reload" /\ peLock = t
    BY <1>4 DEF AddReload, ThreadsInv, LocksHeld, LockedParts
  <2>2. ~NoneReloads
    BY <2>1 DEF NoneReloads
  <2>3. NoneReloads'
    <3>1. \A u \in Threads \ {t} : pc[u] # "reload"
      BY <1>t, <2>1 DEF LocksHeld, LockedParts
    <3>2. pc'[t] # "reload"
      BY <1>4, <1>t DEF AddReload, Goto, Finish
    <3> QED
      BY <1>t, <3>1, <3>2 DEF NoneReloads
  <2>4. secNum' = (secNum + 1) % WW /\ loaded' = loaded
    BY <1>4 DEF AddReload
  <2>5. secNum < SecMax /\ loaded <= secNum + 1
    BY <1>t, <2>2 DEF ThreadsWithin
  <2>6. secNum' = secNum + 1
    BY <1>t, <2>4, <2>5
  <2> QED
    BY <1>t, <2>3, <2>4, <2>5, <2>6 DEF ThreadsWithin
<1>5. CASE GoesUndefined(t)
  BY <1>5 DEF GoesUndefined, vars, ThreadsWithin, NoneReloads
<1> QED
  BY <1>1, <1>2, <1>3, <1>4, <1>5, Answered DEF Begin, Step

\* SECT_COUNT_MAX holds for any number of threads too: nobody gets between the
\* test of the count in addNewSection and the place where it is raised.
THEOREM ThreadsKeepLimit ==
    ASSUME CountsLegal
    PROVE  AllSpec => []SectionLimit
<1>1. AllInit => ThreadsInv /\ ThreadsWithin
  <2> SUFFICES ASSUME AllInit, NEW im \in InitImages, Open(im)
               PROVE  ThreadsWithin
    BY ThreadsInvInit DEF AllInit, Init
  <2>1. im.num \in Nat /\ im.fs \in Nat
    BY InitAssumption, TableAssumption DEF Image
  <2>2. NoneReloads
    BY DEF AllInit, NoneReloads
  <2> QED
    BY <2>1, <2>2, LoadCountBounds DEF Open, CountsLegal, ThreadsWithin
<1>2. ThreadsInv /\ ThreadsWithin /\ [AllNext]_allVars => ThreadsInv' /\ ThreadsWithin'
  <2> SUFFICES ASSUME ThreadsInv, ThreadsWithin, [AllNext]_allVars
               PROVE  ThreadsWithin'
    BY ThreadsInvStep
  <2>1. CASE \E t \in Threads : Begin(t) \/ Step(t)
    BY <2>1, ThreadsWithinStep
  <2>2. CASE UNCHANGED allVars
    BY <2>2 DEF allVars, vars, ThreadsWithin, NoneReloads
  <2> QED
    BY <2>1, <2>2 DEF AllNext
<1>3. ThreadsInv /\ ThreadsWithin => SectionLimit
  <2> SUFFICES ASSUME ThreadsInv, ThreadsWithin
               PROVE  loaded <= SecMax
    BY DEF SectionLimit
  <2>1. secNum \in Nat /\ loaded \in Nat /\ SecMax \in Nat
    BY ThreadsTyped, TableAssumption
  <2> QED
    BY <2>1 DEF ThreadsWithin
<1> QED
  BY <1>1, <1>2, <1>3, PTL DEF AllSpec

-----------------------------------------------------------------------------
(* One thread implements SectionTable *)

Enlarging(t) == pc[t] \in {"canResize", "realloc"} /\ job[t].op = "extend"
Adding(t) ==
    \/ pc[t] \in {"lockEnd", "end"}
    \/ pc[t] \in {"canResize", "realloc", "lockWrap", "wrap", "wrapSec"} /\ job[t].op = "add"

\* The sections are in order, inside of the file and of the image.
Within(secs, n, fs, img) == Ordered(secs, n, img) /\ \A i \in 1..n : secs[i].rp + secs[i].rs <= fs

Shown == [i \in 1..loaded |-> ShownHeader(i)]

\* The header that addNewSection keeps fits behind the sections that are there.
HeaderWaits(h, fs) ==
    /\ \A i \in 1..loaded : tbl[i].rp + tbl[i].rs <= h.rp /\ tbl[i].va + DeclaredVirtual(tbl[i]) <= h.va
    /\ h.va + DeclaredVirtual(h) <= imgSize /\ h.rp + h.rs <= fs /\ fileSize <= fs

\* extendLastSection has changed the header h, the file does not yet have the length fs.
LastWaits(h, fs) ==
    LET g == tbl[loaded] IN
    /\ loaded > 0 /\ g.rp = h.rp /\ g.va = h.va /\ g.rs = fs - h.rp /\ g.rs >= h.rs
    /\ DeclaredVirtual(g) >= DeclaredVirtual(h) /\ g.va + DeclaredVirtual(g) <= imgSize /\ fileSize <= fs

\* Between the steps of a call: what is shown is in order, the entries are those of
\* the count, and what the call has still to do fits.
Whole(t) ==
    ~torn =>
        /\ Within(Shown, loaded, fileSize, ShownImage)
        /\ LoadCount(loaded, fileSize) = loaded
        /\ secNum = IF pc[t] = "reload" THEN loaded - 1 ELSE loaded
        /\ Adding(t) => HeaderWaits(job[t].hdr, IF pc[t] \in {"canResize", "realloc"} THEN job[t].size ELSE fileSize)
        /\ Enlarging(t) => LastWaits(job[t].hdr, job[t].size)

ShownIs(t) ==
    /\ Enlarging(t) => /\ ShownImage = job[t].img
                       /\ \A i : ShownHeader(i) = IF i = loaded THEN job[t].hdr ELSE tbl[i]
    /\ ~Enlarging(t) => ShownImage = imgSize /\ \A i : ShownHeader(i) = tbl[i]

LEMMA ShownNow == \A t : Threads = {t} => ShownIs(t)
<1> SUFFICES ASSUME NEW t, Threads = {t}
             PROVE  ShownIs(t)
  OBVIOUS
<1>1. CASE Enlarging(t)
  <2>1. Extending = {t}
    BY <1>1 DEF Extending, Enlarging
  <2>2. Before = job[t]
    BY <2>1 DEF Before
  <2> QED
    BY <1>1, <2>1, <2>2 DEF ShownIs, ShownImage, ShownHeader
<1>2. CASE ~Enlarging(t)
  <2>1. Extending = {}
    BY <1>2 DEF Extending, Enlarging
  <2> QED
    BY <1>2, <2>1 DEF ShownIs, ShownImage, ShownHeader
<1> QED
  BY <1>1, <1>2

LEMMA ShownAfter == (\A t : Threads = {t} => ShownIs(t))'
  BY ShownNow, PTL

LEMMA WithinSame ==
    ASSUME NEW secs, NEW others, NEW n \in Nat, NEW fs, NEW img,
           \A i \in 1..n : others[i] = secs[i]
    PROVE  Within(secs, n, fs, img) <=> Within(others, n, fs, img)
  BY DEF Within, Ordered

\* While no extension is under way the table that is shown is the one in the file.
LEMMA ShownTable ==
    ASSUME NEW t, ShownIs(t), loaded \in Nat, NEW fs, NEW img
    PROVE  /\ ~Enlarging(t) => (Within(Shown, loaded, fs, img) <=> Within(tbl, loaded, fs, img))
<1>1. ASSUME ~Enlarging(t)
      PROVE  \A i \in 1..loaded : Shown[i] = tbl[i]
  BY <1>1 DEF ShownIs, Shown
<1> QED
  BY <1>1, WithinSame

ShownTables == \A t : ShownIs(t) /\ loaded \in Nat => \A fs, img : ~Enlarging(t) =>
                  (Within(Shown, loaded, fs, img) <=> Within(tbl, loaded, fs, img))

LEMMA ShownTableAfter == ShownTables'
<1>1. ShownTables
  BY ShownTable DEF ShownTables
<1> QED
  BY <1>1, PTL

-----------------------------------------------------------------------------

LEMMA ToStutter ==
    ASSUME torn' = torn,
           ~torn => /\ loaded' = loaded /\ fileSize' = fileSize /\ ShownImage' = ShownImage
                    /\ \A i \in 1..loaded : ShownHeader(i)' = ShownHeader(i)
    PROVE  UNCHANGED ThreadsTable!vars
<1>1. CASE torn
  BY <1>1 DEF ThreadsTable!vars
<1>2. CASE ~torn
  <2>1. [i \in 1..loaded |-> ShownHeader(i)'] = [i \in 1..loaded |-> ShownHeader(i)]
    BY <1>2
  <2> QED
    BY <1>2, <2>1 DEF ThreadsTable!vars
<1> QED
  BY <1>1, <1>2

LEMMA ToReserve ==
    ASSUME Kept, loaded' = loaded, fileSize' = fileSize, ShownImage' > ShownImage,
           \A i \in 1..loaded : ShownHeader(i)' = ShownHeader(i)
    PROVE  ThreadsTable!Reserve
<1>1. [i \in 1..loaded |-> ShownHeader(i)'] = [i \in 1..loaded |-> ShownHeader(i)]
  OBVIOUS
<1> QED
  BY <1>1 DEF Kept, ThreadsTable!Reserve

LEMMA ToLength ==
    ASSUME Kept, loaded' = loaded, ShownImage' = ShownImage,
           \A i \in 1..loaded : ShownHeader(i)' = ShownHeader(i),
           Within(Shown, loaded, fileSize', ShownImage)
    PROVE  ThreadsTable!SetLength
<1>1. [i \in 1..loaded |-> ShownHeader(i)'] = [i \in 1..loaded |-> ShownHeader(i)]
  OBVIOUS
<1>2. \A i \in 1..loaded : /\ ShownHeader(i).rp + ShownHeader(i).rs <= fileSize'
                           /\ ShownHeader(i).va + DeclaredVirtual(ShownHeader(i)) <= ShownImage
  BY DEF Within, Ordered, Shown
<1> QED
  BY <1>1, <1>2 DEF Kept, ThreadsTable!SetLength, ThreadsTable!Inside, ThreadsTable!InMemory, DeclaredVirtual

LEMMA ToAppend ==
    ASSUME Kept, loaded \in Nat, NEW m, m = loaded + 1, loaded' = m, NEW h, ShownHeader(m)' = h,
           \A i \in 1..loaded : /\ ShownHeader(i)' = ShownHeader(i)
                                /\ ShownHeader(i).rp + ShownHeader(i).rs <= h.rp
                                /\ ShownHeader(i).va + DeclaredVirtual(ShownHeader(i)) <= h.va,
           h.rp + h.rs <= fileSize', h.va + DeclaredVirtual(h) <= ShownImage',
           fileSize' >= fileSize, ShownImage' >= ShownImage
    PROVE  ThreadsTable!Append
<1> DEFINE now  == [i \in 1..loaded |-> ShownHeader(i)]
           then == [i \in 1..m |-> ShownHeader(i)']
<1>1. m \in 1..m /\ \A i \in 1..loaded : i \in 1..m
  OBVIOUS
<1>2. then[m] = h
  BY <1>1
<1>3. ASSUME NEW i \in 1..loaded
      PROVE  /\ then[i] = now[i]
             /\ now[i].rp + now[i].rs <= h.rp /\ now[i].va + DeclaredVirtual(now[i]) <= h.va
  BY <1>1, <1>3
<1>4. /\ \A i \in 1..loaded : then[i] = now[i] /\ ThreadsTable!Behind(now[i], then[m])
      /\ ThreadsTable!Inside(then[m], fileSize', ShownImage')
  BY <1>2, <1>3 DEF ThreadsTable!Behind, ThreadsTable!Inside, ThreadsTable!InMemory, DeclaredVirtual
<1>5. /\ (IF torn THEN 0 ELSE loaded) = loaded /\ (IF torn' THEN 0 ELSE loaded') = m
      /\ (IF torn THEN 0 ELSE fileSize) = fileSize /\ (IF torn' THEN 0 ELSE fileSize') = fileSize'
      /\ (IF torn THEN 0 ELSE ShownImage) = ShownImage /\ (IF torn' THEN 0 ELSE ShownImage') = ShownImage'
  BY DEF Kept
<1> QED
  BY <1>4, <1>5 DEF ThreadsTable!Append

LEMMA ToExtendLast ==
    ASSUME Kept, loaded \in Nat \ {0}, loaded' = loaded,
           NEW h, h = ShownHeader(loaded), NEW g, g = ShownHeader(loaded)',
           \A i \in 1..loaded-1 : ShownHeader(i)' = ShownHeader(i),
           g.rp = h.rp, g.va = h.va, g.rs >= h.rs, DeclaredVirtual(g) >= DeclaredVirtual(h),
           g.rp + g.rs = fileSize', fileSize' >= fileSize, g.va + DeclaredVirtual(g) <= ShownImage',
           g.rp + g.rs \in Nat
    PROVE  ThreadsTable!ExtendLast
<1>1. g.rp + g.rs <= fileSize'
  OBVIOUS
<1> QED
  BY <1>1 DEF Kept, ThreadsTable!ExtendLast, ThreadsTable!Inside, ThreadsTable!InMemory, DeclaredVirtual

-----------------------------------------------------------------------------
(* The steps of the one thread *)

\* While no extension is under way.
LEMMA WholeNow ==
    ASSUME NEW t, Threads = {t}, ThreadsInv, Whole(t), ~torn, ~Enlarging(t)
    PROVE  /\ Within(tbl, loaded, fileSize, imgSize) /\ LoadCount(loaded, fileSize) = loaded
           /\ secNum = IF pc[t] = "reload" THEN loaded - 1 ELSE loaded
           /\ Adding(t) => HeaderWaits(job[t].hdr, IF pc[t] \in {"canResize", "realloc"} THEN job[t].size ELSE fileSize)
           /\ ShownImage = imgSize /\ \A i : ShownHeader(i) = tbl[i]
<1>1. ShownIs(t)
  BY ShownNow
<1>2. ShownImage = imgSize /\ \A i : ShownHeader(i) = tbl[i]
  BY <1>1 DEF ShownIs
<1>3. loaded \in Nat
  BY ThreadsTyped
<1>4. Within(tbl, loaded, fileSize, imgSize)
  BY <1>1, <1>2, <1>3, ShownTable DEF Whole
<1> QED
  BY <1>2, <1>4 DEF Whole

LEMMA WholeThen ==
    ASSUME NEW t, Threads = {t}, TypeOK', ~Enlarging(t)'
    PROVE  /\ ShownImage' = imgSize' /\ \A i : ShownHeader(i)' = tbl'[i]
           /\ /\ Within(tbl', loaded', fileSize', imgSize') /\ LoadCount(loaded', fileSize') = loaded'
              /\ secNum' = IF pc'[t] = "reload" THEN loaded' - 1 ELSE loaded'
              /\ Adding(t)' => HeaderWaits(job[t].hdr, IF pc[t] \in {"canResize", "realloc"} THEN job[t].size ELSE fileSize)'
              => Whole(t)'
<1>1. ShownIs(t)'
  BY ShownAfter
<1>2. ShownImage' = imgSize' /\ \A i : ShownHeader(i)' = tbl'[i]
  BY <1>1 DEF ShownIs
<1>3. loaded' \in Nat
  BY TableAssumption DEF TypeOK
<1>4. Within(Shown', loaded', fileSize', imgSize') <=> Within(tbl', loaded', fileSize', imgSize')
  BY <1>1, <1>3, ShownTableAfter DEF ShownTables
<1> QED
  BY <1>2, <1>4 DEF Whole, Within, Ordered, LoadCount, SlotsInFile, HeaderWaits

\* A step that leaves the headers, their count and both lengths as they are.
LEMMA SameFile ==
    ASSUME NEW t, Threads = {t}, ThreadsInv, TypeOK', Whole(t), Kept,
           ~Enlarging(t), ~Enlarging(t)',
           UNCHANGED <<loaded, fileSize, imgSize>>, \A i \in 1..loaded : tbl'[i] = tbl[i],
           secNum' = IF pc'[t] = "reload" THEN loaded - 1 ELSE loaded,
           Adding(t)' => /\ Adding(t) /\ job'[t] = job[t]
                         /\ pc[t] \notin {"canResize", "realloc"} /\ pc'[t] \notin {"canResize", "realloc"}
    PROVE  Whole(t)' /\ UNCHANGED ThreadsTable!vars
<1>1. /\ Within(tbl, loaded, fileSize, imgSize) /\ LoadCount(loaded, fileSize) = loaded
      /\ Adding(t) => HeaderWaits(job[t].hdr, IF pc[t] \in {"canResize", "realloc"} THEN job[t].size ELSE fileSize)
      /\ ShownImage = imgSize /\ \A i : ShownHeader(i) = tbl[i]
  BY WholeNow DEF Kept
<1>2. ShownImage' = imgSize' /\ \A i : ShownHeader(i)' = tbl'[i]
  BY WholeThen
<1>3. loaded \in Nat
  BY ThreadsTyped
<1>4. Within(tbl', loaded, fileSize, imgSize)
  BY <1>1, <1>3, WithinSame
<1>5. Adding(t)' => HeaderWaits(job[t].hdr, IF pc[t] \in {"canResize", "realloc"} THEN job[t].size ELSE fileSize)'
  BY <1>1 DEF HeaderWaits
<1>6. Whole(t)'
  BY <1>1, <1>4, <1>5, WholeThen
<1>7. /\ torn' = torn /\ loaded' = loaded /\ fileSize' = fileSize /\ ShownImage' = ShownImage
      /\ \A i \in 1..loaded : ShownHeader(i)' = ShownHeader(i)
  <2>1. torn \in BOOLEAN /\ torn' \in BOOLEAN
    BY ThreadsTyped DEF TypeOK
  <2>2. torn' = torn
    BY <2>1 DEF Kept
  <2> QED
    BY <1>1, <1>2, <2>2
<1>8. UNCHANGED ThreadsTable!vars
  BY <1>7, ToStutter
<1> QED
  BY <1>6, <1>8

LEMMA LoadedAtMost ==
    ASSUME NEW num \in Nat, NEW fs \in Nat
    PROVE  LoadCount(num, fs) <= num /\ LoadCount(num, fs) \in Nat
  BY LoadCountBounds, TableAssumption

\* The file has got another length and holds all its headers and sections.
LEMMA Reallocated ==
    ASSUME NEW t, Threads = {t}, ThreadsInv, TypeOK', Whole(t), Kept,
           ~Enlarging(t), pc[t] = "realloc", Realloc(t)
    PROVE  Whole(t)' /\ ThreadsTable!SetLength
<1> DEFINE newSize == job[t].size
           n == LoadCount(secNum, newSize)
<1>1. /\ Within(tbl, loaded, fileSize, imgSize) /\ LoadCount(loaded, fileSize) = loaded
      /\ secNum = loaded /\ (Adding(t) => HeaderWaits(job[t].hdr, newSize))
      /\ ShownImage = imgSize /\ \A i : ShownHeader(i) = tbl[i]
  BY WholeNow DEF Kept
<1>2. /\ tbl' = CutTable(tbl, newSize) /\ fileSize' = newSize
      /\ UNCHANGED <<secNum, imgSize, loaded, job>>
      /\ ~Torn(tbl', secNum, n, newSize)
  BY DEF Realloc, Kept
<1>3. pc'[t] = "lockWrap"
  BY DEF Realloc, Goto, ThreadsInv, JobsTyped
<1>t. /\ loaded \in Nat /\ newSize \in Nat /\ tbl \in [1..Slots -> DWHeader]
      /\ job[t] \in JobType
  BY ThreadsTyped DEF JobType
<1> HIDE DEF newSize
<1>4. n = loaded
  <2>1. n <= secNum /\ n \in Nat
    <3>1. secNum \in Nat /\ newSize \in Nat
      BY <1>1, <1>t
    <3> QED
      BY <3>1, LoadedAtMost
  <2>2. ~(secNum > n)
    BY <1>2 DEF Torn
  <2> QED
    BY <1>1, <1>t, <2>1, <2>2
<1>5. \A i \in 1..loaded : tbl'[i] = tbl[i]
  <2>1. \A i \in 1..LoadCount(secNum, newSize) : CutTable(tbl, newSize)[i] = tbl[i]
    BY <1>1, <1>t, CutKeepsLoaded
  <2> QED
    BY <1>2, <1>4, <2>1
<1>6. Within(tbl', loaded, newSize, imgSize) /\ Within(tbl, loaded, newSize, imgSize)
  <2>1. \A i \in 1..loaded : tbl[i] \in DWHeader
    <3>1. loaded \in 0..Slots
      BY ThreadsTyped
    <3> QED
      BY <1>t, <3>1, TableAssumption
  <2>2. ASSUME NEW i \in 1..loaded
        PROVE  tbl[i].rp + tbl[i].rs <= newSize
    <3>1. ~(tbl'[i].rp + tbl'[i].rs > newSize) /\ tbl'[i] = tbl[i]
      BY <1>2, <1>4, <1>5 DEF Torn
    <3>2. tbl[i].rp \in Nat /\ tbl[i].rs \in Nat
      BY <2>1, HeaderNat
    <3> QED
      BY <1>t, <3>1, <3>2
  <2>3. Within(tbl, loaded, newSize, imgSize)
    BY <1>1, <2>2 DEF Within
  <2> QED
    BY <1>t, <1>5, <2>3, WithinSame
<1>7. ~Enlarging(t)'
  BY <1>3 DEF Enlarging
<1>8. ShownImage' = imgSize' /\ \A i : ShownHeader(i)' = tbl'[i]
  BY <1>7, WholeThen
<1>9. Adding(t)' => HeaderWaits(job[t].hdr, IF pc[t] \in {"canResize", "realloc"} THEN job[t].size ELSE fileSize)'
  <2>1. Adding(t)' => Adding(t)
    BY <1>2, <1>3 DEF Adding
  <2> QED
    BY <1>1, <1>2, <1>3, <1>5, <1>t, <2>1 DEF HeaderWaits, newSize
<1>10. Whole(t)'
  BY <1>1, <1>2, <1>3, <1>4, <1>6, <1>7, <1>9, WholeThen
<1>11. Within(Shown, loaded, newSize, imgSize)
  <2>1. \A i \in 1..loaded : Shown[i] = tbl[i]
    BY <1>1 DEF Shown
  <2> QED
    BY <1>t, <1>6, <2>1, WithinSame
<1>12. ThreadsTable!SetLength
  BY <1>1, <1>2, <1>5, <1>8, <1>11, ToLength
<1> QED
  BY <1>10, <1>12

\* The last section has grown, and the file with it.
LEMMA Enlarged ==
    ASSUME NEW t, Threads = {t}, ThreadsInv, TypeOK', Whole(t), Kept,
           Enlarging(t), ~Enlarging(t)', ~Adding(t)', pc'[t] # "reload",
           \A i \in 1..loaded : tbl'[i] = tbl[i],
           UNCHANGED <<loaded, imgSize, secNum>>, fileSize' = job[t].size,
           LoadCount(loaded, fileSize') = loaded
    PROVE  Whole(t)' /\ ThreadsTable!ExtendLast
<1> DEFINE h == job[t].hdr
           g == tbl[loaded]
           fs == job[t].size
<1>1. ShownImage = job[t].img /\ \A i : ShownHeader(i) = IF i = loaded THEN h ELSE tbl[i]
  BY ShownNow DEF ShownIs
<1>2. /\ Within(Shown, loaded, fileSize, ShownImage) /\ secNum = loaded
      /\ loaded > 0 /\ g.rp = h.rp /\ g.va = h.va /\ g.rs = fs - h.rp /\ g.rs >= h.rs
      /\ DeclaredVirtual(g) >= DeclaredVirtual(h) /\ g.va + DeclaredVirtual(g) <= imgSize
      /\ fileSize <= fs
  BY DEF Whole, LastWaits, Kept, Enlarging
<1>t. /\ loaded \in Nat \ {0} /\ loaded \in 1..Slots /\ loaded \in 1..loaded
      /\ job[t] \in JobType /\ h \in DWHeader /\ fs \in Nat /\ fileSize \in Nat /\ imgSize \in Nat
      /\ \A i \in 1..loaded : tbl[i] \in DWHeader
      /\ job[t].img \in Nat
  <2>1. /\ loaded \in 0..Slots /\ imgSize \in 0..MaxImage /\ tbl \in [1..Slots -> DWHeader]
        /\ loaded \in Nat /\ fileSize \in Nat /\ job[t] \in JobType
    BY ThreadsTyped
  <2>2. h \in DWHeader /\ fs \in Nat /\ job[t].img \in Nat
    BY <2>1 DEF JobType
  <2>3. loaded \in Nat \ {0} /\ loaded \in 1..Slots /\ loaded \in 1..loaded
    BY <1>2, <2>1, TableAssumption
  <2>4. \A i \in 1..loaded : tbl[i] \in DWHeader
    <3>1. 1..loaded \subseteq 1..Slots
      BY <2>1, TableAssumption
    <3> HIDE DEF h, g, fs
    <3> QED
      BY <2>1, <3>1
  <2> HIDE DEF h, g, fs
  <2> QED
    BY <2>1, <2>2, <2>3, <2>4
<1>3. ShownImage' = imgSize /\ \A i : ShownHeader(i)' = tbl'[i]
  BY WholeThen
<1>4. g \in DWHeader /\ g.rp \in Nat /\ g.rs \in Nat /\ g.va \in Nat /\ h.rp \in Nat /\ h.rs \in Nat
  BY <1>t, HeaderNat
<1>5. Shown[loaded] = h /\ \A i \in 1..loaded-1 : Shown[i] = tbl[i]
  BY <1>1, <1>t DEF Shown
<1>6. g.rp + g.rs = fs
  BY <1>2, <1>4, <1>t
<1>7. Ordered(tbl, loaded, imgSize)
  <2>1. \A i \in 1..loaded : Shown[i] \in DWHeader
    BY <1>1, <1>t DEF Shown
  <2>2. Ordered(Shown, loaded, ShownImage) /\ ShownImage \in Nat
    BY <1>1, <1>2, <1>t DEF Within
  <2> QED
    BY <1>2, <1>4, <1>5, <1>t, <2>1, <2>2, OrderedLastGrown
<1>8. Within(tbl, loaded, fs, imgSize)
  <2>1. ASSUME NEW i \in 1..loaded
        PROVE  tbl[i].rp + tbl[i].rs <= fs
    <3>1. CASE i = loaded
      BY <1>4, <1>6, <1>t, <3>1
    <3>2. CASE i # loaded
      <4>1. tbl[i].rp + tbl[i].rs <= fileSize
        BY <1>2, <1>5, <1>t, <3>2 DEF Within
      <4>2. tbl[i].rp \in Nat /\ tbl[i].rs \in Nat
        BY <1>t, HeaderNat
      <4> QED
        BY <1>2, <1>t, <4>1, <4>2
    <3> QED
      BY <3>1, <3>2
  <2> QED
    BY <1>7, <2>1 DEF Within
<1>9. Within(tbl', loaded, fs, imgSize)
  BY <1>8, <1>t, WithinSame
<1>10. Whole(t)'
  BY <1>2, <1>9, WholeThen
<1>11. ThreadsTable!ExtendLast
  <2>1. h = ShownHeader(loaded)
    BY <1>1
  <2>2. g = ShownHeader(loaded)'
    BY <1>3, <1>t
  <2>3. \A i \in 1..loaded-1 : ShownHeader(i)' = ShownHeader(i)
    BY <1>1, <1>3, <1>t
  <2>4. fileSize' = fs /\ fileSize' >= fileSize
    BY <1>2, <1>t
  <2>5. ShownImage' = imgSize
    BY <1>3
  <2>6. g.rp + g.rs \in Nat
    BY <1>4
  <2> HIDE DEF h, g, fs
  <2> QED
    BY <1>2, <1>6, <1>t, <2>1, <2>2, <2>3, <2>4, <2>5, <2>6, ToExtendLast
<1> QED
  BY <1>10, <1>11

\* extendLastSection once the file was reallocated, or was not.
LEMMA ExtendReallocated ==
    ASSUME NEW t, Threads = {t}, ThreadsInv, TypeOK', Whole(t), Kept,
           Enlarging(t), Realloc(t) \/ Refuses(t)
    PROVE  Whole(t)' /\ ThreadsTable!ExtendLast
<1> DEFINE fs == job[t].size
<1>1. /\ secNum = loaded /\ fileSize <= fs /\ loaded > 0
      /\ tbl[loaded].rs = fs - job[t].hdr.rp /\ tbl[loaded].rp = job[t].hdr.rp
  BY DEF Whole, LastWaits, Kept, Enlarging
<1>t. /\ loaded \in Nat \ {0} /\ loaded \in 1..Slots /\ tbl \in [1..Slots -> DWHeader]
      /\ fs \in Nat /\ fileSize \in Nat
  <2>1. loaded \in 0..Slots
    BY ThreadsTyped
  <2> QED
    BY <1>1, <2>1, ThreadsTyped DEF JobType
<1>2. /\ pc'[t] \in {"lockWrap", "lockRead"} /\ UNCHANGED <<secNum, imgSize, loaded>>
      /\ pc'[t] = "lockWrap" => job'[t].op = "extend"
  <2>1. pc \in [Threads -> Places] /\ job \in [Threads -> JobType] /\ t \in Threads
    BY DEF ThreadsInv, JobsTyped
  <2> QED
    BY <2>1 DEF Realloc, Refuses, ResizeRefused, Goto, Enlarging, file
<1>3. ~Enlarging(t)' /\ ~Adding(t)'
  BY <1>2 DEF Enlarging, Adding
<1> HIDE DEF fs
<1>4. CASE Realloc(t)
  <2>1. /\ tbl' = CutTable(tbl, fs) /\ fileSize' = fs
        /\ ~Torn(tbl', secNum, LoadCount(secNum, fs), fs)
    BY <1>4 DEF Realloc, Kept, fs
  <2>2. LoadCount(loaded, fs) = loaded
    <3>1. LoadCount(loaded, fs) <= loaded /\ LoadCount(loaded, fs) \in Nat
      <4>1. loaded \in Nat /\ fs \in Nat
        BY <1>t
      <4> QED
        BY <4>1, LoadedAtMost
    <3>2. ~(loaded > LoadCount(loaded, fs))
      BY <1>1, <2>1 DEF Torn
    <3> QED
      BY <1>t, <3>1, <3>2
  <2>3. \A i \in 1..loaded : tbl'[i] = tbl[i]
    <3>1. \A i \in 1..LoadCount(loaded, fs) : CutTable(tbl, fs)[i] = tbl[i]
      BY <1>t, CutKeepsLoaded
    <3> QED
      BY <2>1, <2>2, <3>1
  <2>4. fileSize' = job[t].size /\ LoadCount(loaded, fileSize') = loaded /\ pc'[t] # "reload"
    BY <1>2, <2>1, <2>2 DEF fs
  <2> QED
    BY <1>2, <1>3, <2>3, <2>4, Enlarged
<1>5. CASE Refuses(t)
  <2>1. /\ UNCHANGED <<tbl, fileSize>>
        /\ ~Torn(tbl, secNum, LoadCount(secNum, fileSize), fileSize)
    BY <1>5 DEF Refuses, ResizeRefused, Kept, file
  <2>2. LoadCount(loaded, fileSize) = loaded
    <3>1. LoadCount(loaded, fileSize) <= loaded /\ LoadCount(loaded, fileSize) \in Nat
      <4>1. loaded \in Nat /\ fileSize \in Nat
        BY <1>t
      <4> QED
        BY <4>1, LoadedAtMost
    <3>2. ~(loaded > LoadCount(loaded, fileSize))
      BY <1>1, <2>1 DEF Torn
    <3> QED
      BY <1>t, <3>1, <3>2
  <2>3. fs = fileSize
    <3>1. loaded \in 1..loaded /\ tbl[loaded] \in DWHeader
      BY <1>t
    <3>2. ~(tbl[loaded].rp + tbl[loaded].rs > fileSize)
      BY <1>1, <2>1, <2>2, <3>1 DEF Torn
    <3>3. tbl[loaded].rp \in Nat /\ tbl[loaded].rs \in Nat
      BY <3>1, HeaderNat
    <3> QED
      BY <1>1, <1>t, <3>2, <3>3
  <2>4. fileSize' = job[t].size /\ LoadCount(loaded, fileSize') = loaded /\ pc'[t] # "reload"
    BY <1>2, <2>1, <2>2, <2>3 DEF fs
  <2> QED
    BY <1>2, <1>3, <2>1, <2>4, Enlarged
<1> QED
  BY <1>4, <1>5

\* The first part of addNewSection: room in memory is taken for the new section.
LEMMA AddBegun ==
    ASSUME NEW t, Threads = {t}, ThreadsInv, TypeOK', Whole(t), Kept, ValidAlignment,
           AddBegin(t), pc'[t] = "canResize"
    PROVE  Whole(t)' /\ ThreadsTable!Reserve
<1> DEFINE r == job[t].r
           v == job[t].v
           h == NewHeader(r, v)
<1>j. pc \in [Threads -> Places] /\ job \in [Threads -> JobType] /\ t \in Threads
  BY DEF ThreadsInv, JobsTyped
<1>1. /\ AddAccepted(r, v) /\ AddBounded(r, v) /\ imgSize' = VirtEnd + VirtArg(r, v)
      /\ job'[t] = [job[t] EXCEPT !.hdr = h, !.size = RawEnd + r] /\ job[t].op = "add"
      /\ UNCHANGED <<tbl, secNum, fileSize, loaded>> /\ pc[t] = "begin"
  BY <1>j DEF AddBegin, BeginAdd, SetJob, Finish, Goto
<1>2. job'[t].hdr = h /\ job'[t].size = RawEnd + r /\ job'[t].op = "add"
  BY <1>1, <1>j DEF JobType
<1>3. r \in RawSizes /\ v \in VirtSizes /\ TypeOK
  BY <1>1, <1>j DEF ThreadsInv, JobsTyped
<1>4. /\ h \in DWHeader /\ RawEnd \in Nat /\ VirtEnd \in Nat /\ VirtArg(r, v) \in Nat
      /\ imgSize' \in Nat /\ r \in Nat
  BY <1>1, <1>3, NewHeaderTyped, TableAssumption DEF DWord
<1>5. ~Enlarging(t) /\ ~Enlarging(t)'
  BY <1>1, <1>2 DEF Enlarging
<1>6. /\ Within(tbl, loaded, fileSize, imgSize) /\ LoadCount(loaded, fileSize) = loaded
      /\ secNum = loaded
      /\ ShownImage = imgSize /\ \A i : ShownHeader(i) = tbl[i]
  BY <1>1, <1>5, WholeNow DEF Kept
<1>t. /\ loaded \in Nat /\ imgSize \in Nat /\ fileSize \in Nat
      /\ \A i \in 1..loaded : tbl[i] \in DWHeader
  <2>1. loaded \in 0..Slots /\ imgSize \in 0..MaxImage /\ tbl \in [1..Slots -> DWHeader]
    BY ThreadsTyped
  <2> QED
    BY <2>1, ThreadsTyped, TableAssumption
<1>7. imgSize <= VirtEnd /\ fileSize <= RawEnd
  <2>1. MappedSize(imgSize) \in Nat /\ MappedSize(imgSize) >= imgSize
    BY <1>t, LayoutAssumption DEF MappedSize, Greatest
  <2>2. VirtEnd >= MappedSize(imgSize)
    BY <2>1, RoundUpNat, LayoutAssumption DEF VirtEnd, ValidAlignment
  <2>3. RawEnd >= fileSize
    BY <1>t, RoundUpNat, LayoutAssumption DEF RawEnd, ValidAlignment
  <2> QED
    BY <1>4, <1>t, <2>1, <2>2, <2>3
<1>8. /\ h.rp = RawEnd /\ h.rs = r /\ h.va = VirtEnd /\ DeclaredVirtual(h) = VirtArg(r, v)
  BY <1>4 DEF NewHeader, VirtArg, DeclaredVirtual
<1>9. imgSize' > imgSize
  <2>1. imgSize' # imgSize
    BY <1>1 DEF AddAccepted
  <2> QED
    BY <1>1, <1>4, <1>7, <1>t, <2>1
<1> HIDE DEF r, v, h
<1>10. \A i \in 1..loaded : /\ tbl[i].rp + tbl[i].rs <= h.rp
                            /\ tbl[i].va + DeclaredVirtual(tbl[i]) <= h.va
                            /\ tbl[i].va + DeclaredVirtual(tbl[i]) <= imgSize'
  <2> TAKE i \in 1..loaded
  <2>1. /\ tbl[i].rp \in Nat /\ tbl[i].rs \in Nat /\ tbl[i].va \in Nat /\ DeclaredVirtual(tbl[i]) \in Nat
    BY <1>t, HeaderNat
  <2>2. tbl[i].rp + tbl[i].rs <= fileSize /\ tbl[i].va + DeclaredVirtual(tbl[i]) <= imgSize
    BY <1>6 DEF Within, Ordered
  <2> QED
    BY <1>4, <1>7, <1>8, <1>9, <1>t, <2>1, <2>2
<1>11. Within(tbl, loaded, fileSize, imgSize')
  BY <1>6, <1>10 DEF Within, Ordered
<1>12. HeaderWaits(job[t].hdr, job[t].size)'
  <2>1. /\ h.va + DeclaredVirtual(h) <= imgSize' /\ h.rp + h.rs <= RawEnd + r
        /\ fileSize <= RawEnd + r
    BY <1>1, <1>4, <1>7, <1>8, <1>t
  <2> QED
    BY <1>1, <1>2, <1>10, <2>1 DEF HeaderWaits
<1>13. Whole(t)'
  BY <1>1, <1>5, <1>6, <1>11, <1>12, WholeThen
<1>14. ShownImage' > ShownImage /\ \A i \in 1..loaded : ShownHeader(i)' = ShownHeader(i)
  BY <1>1, <1>5, <1>6, <1>9, WholeThen
<1> QED
  BY <1>1, <1>13, <1>14, ToReserve

\* The second part: the header goes behind the others.
LEMMA Pushed ==
    ASSUME NEW t, Threads = {t}, ThreadsInv, TypeOK', Whole(t), Kept,
           AddPush(t), pc'[t] = "reload"
    PROVE  Whole(t)' /\ ThreadsTable!Append
<1> DEFINE h == job[t].hdr
           n == loaded + 1
<1>j. pc \in [Threads -> Places] /\ job \in [Threads -> JobType] /\ t \in Threads
  BY DEF ThreadsInv, JobsTyped
<1>1. /\ pc[t] = "end" /\ CanAddEntry(tbl, loaded, fileSize) /\ secNum # SecMax
      /\ tbl' = [tbl EXCEPT ![n] = h] /\ loaded' = n
      /\ UNCHANGED <<secNum, fileSize, imgSize, job>>
  BY <1>j DEF AddPush, Finish, Goto
<1>2. ~Enlarging(t) /\ ~Enlarging(t)' /\ Adding(t) /\ ~Adding(t)'
  BY <1>1 DEF Enlarging, Adding
<1>3. /\ Within(tbl, loaded, fileSize, imgSize) /\ LoadCount(loaded, fileSize) = loaded
      /\ secNum = loaded /\ HeaderWaits(h, fileSize)
      /\ ShownImage = imgSize /\ \A i : ShownHeader(i) = tbl[i]
  BY <1>1, <1>2, WholeNow DEF Kept
<1>t. /\ loaded \in Nat /\ n \in Nat /\ imgSize \in Nat /\ fileSize \in Nat /\ h \in DWHeader
      /\ n \in 1..Slots /\ tbl \in [1..Slots -> DWHeader] /\ \A i \in 1..loaded : i \in 1..Slots /\ i # n
  <2>1. loaded \in 0..Slots /\ imgSize \in 0..MaxImage /\ tbl \in [1..Slots -> DWHeader]
    BY ThreadsTyped
  <2>2. loaded < Slots
    BY <1>1 DEF CanAddEntry
  <2> QED
    BY <1>j, <2>1, <2>2, ThreadsTyped, TableAssumption DEF JobType
<1> HIDE DEF n, h
<1>4. tbl'[n] = h /\ \A i \in 1..loaded : tbl'[i] = tbl[i]
  BY <1>1, <1>t
<1>5. LoadCount(n, fileSize) = n
  <2>1. loaded <= SecMax
    BY <1>3, <1>t, LoadCountBounds
  <2>2. loaded + 1 <= SecMax
    BY <1>1, <1>3, <1>t, <2>1, TableAssumption
  <2> QED
    BY <1>1, <1>3, <1>t, <2>2, AddedIsLoaded DEF n
<1>6. /\ h.rp \in Nat /\ h.rs \in Nat /\ h.va \in Nat /\ DeclaredVirtual(h) \in Nat
  BY <1>t, HeaderNat
<1>7. /\ \A i \in 1..loaded : /\ tbl[i].rp + tbl[i].rs <= h.rp
                              /\ tbl[i].va + DeclaredVirtual(tbl[i]) <= h.va
      /\ h.va + DeclaredVirtual(h) <= imgSize /\ h.rp + h.rs <= fileSize
  BY <1>3 DEF HeaderWaits
<1>8. Within(tbl', n, fileSize, imgSize)
  <2>1. Ordered(tbl, loaded, imgSize)
    BY <1>3 DEF Within
  <2>2. \A i \in 1..loaded : tbl'[i] = tbl[i] /\ tbl[i] \in DWHeader
    BY <1>4, <1>t
  <2>3. tbl'[loaded + 1] = h /\ imgSize <= imgSize
    BY <1>4, <1>t DEF n
  <2>4. Ordered(tbl', loaded + 1, imgSize)
    <3> DEFINE u == tbl'
    <3>1. u[loaded + 1] = h /\ \A i \in 1..loaded : u[i] = tbl[i] /\ tbl[i] \in DWHeader
      BY <2>2, <2>3
    <3> HIDE DEF u
    <3>2. Ordered(u, loaded + 1, imgSize)
      BY <1>7, <1>t, <2>1, <2>3, <3>1, OrderedWithNew
    <3> QED
      BY <3>2 DEF u
  <2>5. ASSUME NEW i \in 1..n
        PROVE  tbl'[i].rp + tbl'[i].rs <= fileSize
    <3>1. CASE i = n
      BY <1>4, <1>7, <3>1
    <3>2. CASE i # n
      <4>1. i \in 1..loaded
        BY <1>t, <3>2 DEF n
      <4> QED
        BY <1>3, <1>4, <4>1 DEF Within
    <3> QED
      BY <3>1, <3>2
  <2> QED
    BY <2>4, <2>5 DEF Within, n
<1>9. secNum' = loaded' - 1
  BY <1>1, <1>3, <1>t DEF n
<1>10. Whole(t)'
  BY <1>1, <1>2, <1>5, <1>8, <1>9, WholeThen
<1>11. ThreadsTable!Append
  <2>1. ShownImage' = imgSize' /\ \A i : ShownHeader(i)' = tbl'[i]
    BY <1>2, WholeThen
  <2>2. PICK m \in Nat : m = n
    BY <1>t
  <2>3. loaded' = m /\ m = loaded + 1 /\ ShownHeader(m)' = h
    BY <1>1, <1>4, <2>1, <2>2 DEF n
  <2>4. \A i \in 1..loaded : /\ ShownHeader(i)' = ShownHeader(i)
                             /\ ShownHeader(i).rp + ShownHeader(i).rs <= h.rp
                             /\ ShownHeader(i).va + DeclaredVirtual(ShownHeader(i)) <= h.va
    BY <1>3, <1>4, <1>7, <2>1
  <2>5. /\ h.rp + h.rs <= fileSize' /\ h.va + DeclaredVirtual(h) <= ShownImage'
        /\ fileSize' >= fileSize /\ ShownImage' >= ShownImage
    BY <1>1, <1>3, <1>7, <1>t, <2>1
  <2> QED
    BY <1>t, <2>3, <2>4, <2>5, ToAppend
<1> QED
  BY <1>10, <1>11

\* The first part of extendLastSection: the header is changed, nothing shows yet.
LEMMA ExtendBegun ==
    ASSUME NEW t, Threads = {t}, ThreadsInv, TypeOK', Whole(t), Kept, NoWrap,
           ExtendBegin(t), pc'[t] = "canResize"
    PROVE  Whole(t)' /\ UNCHANGED ThreadsTable!vars
<1> DEFINE a == job[t].size
           h == tbl[loaded]
           g == Extended(h, fileSize + a)
<1>j. pc \in [Threads -> Places] /\ job \in [Threads -> JobType] /\ t \in Threads
  BY DEF ThreadsInv, JobsTyped
<1>1. /\ BeginExtend(fileSize + a) /\ tbl' = ExtendedTable(fileSize + a)
      /\ job'[t] = [job[t] EXCEPT !.hdr = h, !.img = imgSize, !.size = fileSize + a]
      /\ job[t].op = "extend" /\ pc[t] = "begin"
      /\ UNCHANGED <<secNum, fileSize, loaded>>
  BY <1>j DEF ExtendBegin, SetJob, Finish, Goto
<1>2. /\ job'[t].hdr = h /\ job'[t].img = imgSize /\ job'[t].size = fileSize + a
      /\ job'[t].op = "extend" /\ a \in Nat
  BY <1>1, <1>j DEF JobType
<1>3. ~Enlarging(t) /\ Enlarging(t)' /\ ~Adding(t)'
  BY <1>1, <1>2 DEF Enlarging, Adding
<1>4. /\ Within(tbl, loaded, fileSize, imgSize) /\ LoadCount(loaded, fileSize) = loaded
      /\ secNum = loaded
      /\ ShownImage = imgSize /\ \A i : ShownHeader(i) = tbl[i]
  BY <1>1, <1>3, WholeNow DEF Kept
<1>t. loaded \in Nat /\ fileSize \in Nat /\ loaded <= SecMax
  BY <1>4, ThreadsTyped, LoadCountBounds
<1>5. Inv
  BY <1>4, <1>t DEF Inv, ThreadsInv, LoadedIsWrap, Intact, Within
<1>6. /\ loaded \in Nat \ {0} /\ loaded > 0
      /\ tbl'[loaded] = g
      /\ \A i \in 1..loaded-1 : tbl'[i] = tbl[i]
      /\ g.rp = h.rp /\ g.va = h.va
      /\ g.rs = (fileSize + a) - h.rp /\ g.rs >= h.rs
      /\ DeclaredVirtual(g) >= DeclaredVirtual(h)
      /\ g.va + DeclaredVirtual(g) <= imgSize'
  <2>1. ~torn
    BY DEF Kept
  <2> QED
    BY <1>1, <1>2, <1>5, <2>1, LastGrown
<1>7. LastWaits(job[t].hdr, job[t].size)'
  <2>1. fileSize' <= fileSize + a
    BY <1>1, <1>2, <1>t
  <2> HIDE DEF a, h, g
  <2> QED
    BY <1>1, <1>2, <1>6, <2>1 DEF LastWaits
<1>8. ShownImage' = imgSize /\ \A i : ShownHeader(i)' = IF i = loaded THEN h ELSE tbl'[i]
  <2>1. ShownIs(t)'
    BY ShownAfter
  <2> QED
    BY <1>1, <1>2, <1>3, <2>1 DEF ShownIs
<1>9. \A i \in 1..loaded : ShownHeader(i)' = tbl[i]
  BY <1>6, <1>8, <1>t
<1>10. Within(Shown', loaded, fileSize, imgSize)
  <2>1. \A i \in 1..loaded : Shown'[i] = tbl[i]
    <3>1. Shown' = [i \in 1..loaded |-> ShownHeader(i)']
      BY <1>1 DEF Shown
    <3> QED
      BY <1>9, <3>1
  <2> QED
    BY <1>4, <1>t, <2>1, WithinSame
<1>11. Whole(t)'
  <2>1. pc'[t] # "reload"
    OBVIOUS
  <2>2. Within(Shown, loaded, fileSize, ShownImage)'
    <3>1. Within(Shown', loaded', fileSize', ShownImage')
      BY <1>1, <1>8, <1>10
    <3> QED
      BY <3>1 DEF Within, Ordered
  <2>3. (LoadCount(loaded, fileSize) = loaded)'
    BY <1>1, <1>4 DEF LoadCount, SlotsInFile
  <2> QED
    BY <1>1, <1>3, <1>4, <1>7, <2>1, <2>2, <2>3 DEF Whole
<1>12. /\ torn' = torn /\ loaded' = loaded /\ fileSize' = fileSize /\ ShownImage' = ShownImage
       /\ \A i \in 1..loaded : ShownHeader(i)' = ShownHeader(i)
  <2>1. torn' = torn
    BY DEF ExtendBegin
  <2> QED
    BY <1>1, <1>4, <1>8, <1>9, <2>1
<1> QED
  BY <1>11, <1>12, ToStutter

\* The steps that leave the headers and the two lengths alone: locks are taken and
\* given back, calls begin, end or give up, the core is wrapped, the count raised.
LEMMA Quiet ==
    ASSUME NEW t, Threads = {t}, ThreadsInv, TypeOK', Whole(t), Kept,
           \/ Start(t) \/ LockPE(t) \/ LockSec(t) \/ Read(t) \/ GetHdr(t)
           \/ AddBegin(t) /\ pc'[t] = "idle"
           \/ ExtendBegin(t) /\ pc'[t] = "idle"
           \/ AddPush(t) /\ pc'[t] = "idle"
           \/ Refuses(t) /\ ~Enlarging(t)
    PROVE  Whole(t)' /\ UNCHANGED ThreadsTable!vars
<1>j. pc \in [Threads -> Places] /\ job \in [Threads -> JobType] /\ t \in Threads
  BY DEF ThreadsInv, JobsTyped
<1>1. UNCHANGED <<tbl, secNum, fileSize, imgSize, loaded>>
  <2>1. ASSUME AddBegin(t), pc'[t] = "idle"
        PROVE  UNCHANGED <<tbl, secNum, fileSize, imgSize, loaded>>
    BY <1>j, <2>1 DEF AddBegin, Goto
  <2>2. ASSUME ExtendBegin(t), pc'[t] = "idle"
        PROVE  UNCHANGED <<tbl, secNum, fileSize, imgSize, loaded>>
    BY <1>j, <2>2 DEF ExtendBegin, Goto
  <2>3. ASSUME AddPush(t), pc'[t] = "idle"
        PROVE  UNCHANGED <<tbl, secNum, fileSize, imgSize, loaded>>
    BY <1>j, <2>3 DEF AddPush, Goto
  <2> QED
    BY <2>1, <2>2, <2>3 DEF Start, LockPE, LockSec, Read, GetHdr, Refuses, file
<1>2. /\ pc[t] # "reload" /\ pc'[t] # "reload"
      /\ pc'[t] # "realloc" /\ (pc'[t] = "canResize" => job'[t].op = "resize")
      /\ pc[t] \in {"canResize", "realloc"} => ~Enlarging(t)
  BY <1>j DEF Start, LockPE, LockSec, Read, GetHdr, AddBegin, ExtendBegin, AddPush, Refuses, ResizeRefused,
              Goto, Finish, SetJob, NoJob
<1>3. ~Enlarging(t) /\ ~Enlarging(t)'
  BY <1>2 DEF Enlarging
<1>4. Adding(t)' => /\ Adding(t) /\ job'[t] = job[t]
                    /\ pc[t] \notin {"canResize", "realloc"} /\ pc'[t] \notin {"canResize", "realloc"}
  <2>1. CASE Start(t)
    <3>1. pc'[t] \in {"lockBegin", "canResize", "lockRead", "lockHdr"}
      BY <1>j, <2>1 DEF Start, Goto
    <3> QED
      BY <1>2, <3>1 DEF Adding
  <2>2. CASE LockPE(t) \/ LockSec(t)
    <3>1. /\ job' = job
          /\ \/ pc[t] = "lockWrap" /\ pc'[t] = "wrap"
             \/ pc[t] = "lockEnd" /\ pc'[t] = "end"
             \/ pc[t] = "wrap" /\ pc'[t] = "wrapSec"
             \/ pc'[t] \in {"begin", "read", "getHdr"}
      BY <1>j, <2>2 DEF LockPE, LockSec, Goto
    <3> QED
      BY <3>1 DEF Adding
  <2>3. CASE pc'[t] \in {"idle", "lockRead"}
    BY <2>3 DEF Adding
  <2> QED
    BY <1>j, <2>1, <2>2, <2>3 DEF Read, GetHdr, Refuses, ResizeRefused, Goto, Finish
<1>5. secNum = loaded
  BY <1>2, <1>3, WholeNow DEF Kept
<1> QED
  BY <1>1, <1>2, <1>3, <1>4, <1>5, SameFile

\* PEFile::wrapCore loads what was loaded, reloadMapping and setHdrSectionsNum
\* make the count that of the entries.
LEMMA Wrapped ==
    ASSUME NEW t, Threads = {t}, ThreadsInv, TypeOK', Whole(t), Kept, WrapCore(t) \/ AddReload(t)
    PROVE  Whole(t)' /\ UNCHANGED ThreadsTable!vars
<1>j. pc \in [Threads -> Places] /\ job \in [Threads -> JobType] /\ t \in Threads
  BY DEF ThreadsInv, JobsTyped
<1>1. pc[t] \in {"wrapSec", "reload"} /\ pc'[t] \in {"lockEnd", "lockRead", "idle"}
  BY <1>j DEF WrapCore, AddReload, Goto, Finish
<1>2. ~Enlarging(t) /\ ~Enlarging(t)'
  BY <1>1 DEF Enlarging
<1>3. /\ LoadCount(loaded, fileSize) = loaded
      /\ secNum = IF pc[t] = "reload" THEN loaded - 1 ELSE loaded
  BY <1>2, WholeNow DEF Kept
<1>t. /\ loaded \in Nat /\ loaded \in 0..Slots /\ fileSize \in Nat /\ tbl \in [1..Slots -> DWHeader]
      /\ secNum \in Nat
  BY ThreadsTyped
<1>4. CASE WrapCore(t)
  <2>1. /\ pc[t] = "wrapSec" /\ tbl' = CutTable(tbl, fileSize) /\ loaded' = LoadCount(secNum, fileSize)
        /\ UNCHANGED <<secNum, fileSize, imgSize>>
    BY <1>4 DEF WrapCore, WrapAfter
  <2>2. \A i \in 1..LoadCount(loaded, fileSize) : CutTable(tbl, fileSize)[i] = tbl[i]
    BY <1>t, CutKeepsLoaded
  <2>3. \A i \in 1..loaded : tbl'[i] = tbl[i]
    BY <1>3, <2>1, <2>2
  <2>4. Adding(t)' => Adding(t) /\ job'[t] = job[t]
    BY <1>4, <1>j DEF WrapCore, Adding, Goto, Finish
  <2>5. loaded' = loaded /\ secNum' = loaded /\ pc'[t] # "reload"
    BY <1>1, <1>3, <2>1
  <2> QED
    BY <1>1, <1>2, <2>1, <2>3, <2>4, <2>5, SameFile
<1>5. CASE AddReload(t)
  <2>1. /\ pc[t] = "reload" /\ pc'[t] = "idle" /\ secNum' = (secNum + 1) % WW
        /\ UNCHANGED <<tbl, fileSize, imgSize, loaded>>
    BY <1>5, <1>j DEF AddReload, Goto, Finish
  <2>2. secNum' = loaded
    <3>1. secNum + 1 = loaded
      BY <1>3, <1>t, <2>1
    <3>2. loaded < WW /\ WW \in Nat
      BY <1>t, TableAssumption
    <3> QED
      BY <1>t, <2>1, <3>1, <3>2
  <2>3. ~Adding(t)'
    BY <2>1 DEF Adding
  <2> QED
    BY <1>1, <1>2, <2>1, <2>2, <2>3, SameFile
<1> QED
  BY <1>4, <1>5

-----------------------------------------------------------------------------
(* The refinement *)

LEMMA ThreadsMapTyped ==
    ASSUME NEW t, Threads = {t}, ThreadsInv
    PROVE  ThreadsTable!Typed
<1>t. /\ loaded \in Nat /\ fileSize \in Nat /\ imgSize \in Nat /\ torn \in BOOLEAN
      /\ job[t] \in JobType /\ job[t].hdr \in DWHeader /\ job[t].img \in Nat
      /\ \A i \in 1..loaded : tbl[i] \in DWHeader
  <2>1. loaded \in 0..Slots /\ imgSize \in 0..MaxImage /\ tbl \in [1..Slots -> DWHeader]
    BY ThreadsTyped
  <2>2. job[t] \in JobType
    BY ThreadsTyped
  <2> QED
    BY <2>1, <2>2, ThreadsTyped, TableAssumption DEF JobType
<1>1. ShownImage \in Nat /\ \A i \in 1..loaded : ShownHeader(i) \in DWHeader
  BY <1>t, ShownNow DEF ShownIs
<1>2. DWHeader \subseteq ThreadsTable!Section
  BY TableAssumption DEF DWHeader, DWord, ThreadsTable!Section
<1>3. \A i \in 1..loaded : ShownHeader(i) \in ThreadsTable!Section
  BY <1>1, <1>2
<1> QED
  BY <1>t, <1>1, <1>3 DEF ThreadsTable!Typed

ThreadsMap == \A t : Threads = {t} /\ ThreadsInv => ThreadsTable!Typed

LEMMA ThreadsMapTypedAfter == ThreadsMap'
<1>1. ThreadsMap
  BY ThreadsMapTyped DEF ThreadsMap
<1> QED
  BY <1>1, PTL

LEMMA OneThreadInit ==
    ASSUME NEW t, Threads = {t}, AllInit
    PROVE  Whole(t) /\ ThreadsTable!Init
<1>1. ThreadsInv /\ Inv
  BY ThreadsInvInit, InitInv DEF AllInit
<1>2. ~Enlarging(t) /\ ~Adding(t) /\ pc[t] = "idle"
  BY DEF AllInit, Enlarging, Adding
<1>3. ShownImage = imgSize /\ \A i : ShownHeader(i) = tbl[i]
  BY <1>2, ShownNow DEF ShownIs
<1>4. Whole(t)
  <2> SUFFICES ASSUME ~torn
               PROVE  Whole(t)
    BY DEF Whole
  <2>1. Within(tbl, loaded, fileSize, imgSize) /\ secNum = loaded /\ loaded = LoadCount(loaded, fileSize)
    <3>1. loaded \in Nat /\ secNum = loaded /\ secNum <= SecMax
      BY <1>1, ThreadsTyped DEF Inv, Intact
    <3> QED
      BY <1>1, <3>1 DEF Inv, Intact, LoadedIsWrap, Within
  <2>2. Within(Shown, loaded, fileSize, ShownImage)
    <3>1. loaded \in Nat /\ \A i \in 1..loaded : Shown[i] = tbl[i]
      BY <1>1, <1>3, ThreadsTyped DEF Shown
    <3> QED
      BY <1>3, <2>1, <3>1, WithinSame
  <2> QED
    BY <1>2, <2>1, <2>2 DEF Whole
<1>5. ThreadsTable!InOrder
  <2>1. CASE torn
    BY <2>1 DEF ThreadsTable!InOrder
  <2>2. CASE ~torn
    <3>1. \A i \in 1..loaded : ShownHeader(i) = tbl[i]
      BY <1>3
    <3>2. Within(tbl, loaded, fileSize, imgSize)
      BY <1>1, <2>2 DEF Inv, Intact, Within
    <3> QED
      BY <1>3, <2>2, <3>1, <3>2 DEF Within, Ordered, ThreadsTable!InOrder, ThreadsTable!Behind, ThreadsTable!Inside,
                               ThreadsTable!InMemory, DeclaredVirtual
  <2> QED
    BY <2>1, <2>2
<1>6. torn => ThreadsTable!Nothing
  BY DEF ThreadsTable!Nothing
<1>7. ThreadsTable!Typed
  BY <1>1, ThreadsMapTyped
<1> QED
  BY <1>4, <1>5, <1>6, <1>7 DEF ThreadsTable!Init

\* Nothing but the process that is lost.
LEMMA FileLeftAlone ==
    ASSUME UNCHANGED <<vars, pc, job>>
    PROVE  UNCHANGED ThreadsTable!vars /\ \A t : Whole(t) => Whole(t)'
<1>1. UNCHANGED <<tbl, secNum, fileSize, imgSize, loaded, torn, pc, job>>
  BY DEF vars
<1>2. ShownImage' = ShownImage /\ \A i : ShownHeader(i)' = ShownHeader(i)
  BY <1>1 DEF ShownImage, ShownHeader, Before, Extending
<1>3. UNCHANGED ThreadsTable!vars
  BY <1>1, <1>2, ToStutter
<1>4. Shown' = Shown
  BY <1>1, <1>2 DEF Shown
<1> QED
  BY <1>1, <1>2, <1>3, <1>4 DEF Whole, Within, Ordered, LoadCount, SlotsInFile, Adding, Enlarging,
                                HeaderWaits, LastWaits

\* canResize has said yes: nothing else has happened.
LEMMA Granted ==
    ASSUME NEW t, Threads = {t}, pc \in [Threads -> Places], Accepts(t)
    PROVE  UNCHANGED ThreadsTable!vars /\ (Whole(t) => Whole(t)')
<1>1. /\ UNCHANGED <<tbl, secNum, fileSize, imgSize, loaded, torn, job>>
      /\ pc[t] = "canResize" /\ pc'[t] = "realloc"
  BY DEF Accepts, Goto, file
<1>2. Extending' = Extending
  BY <1>1 DEF Extending
<1>3. ShownImage' = ShownImage /\ \A i : ShownHeader(i)' = ShownHeader(i)
  BY <1>1, <1>2 DEF ShownImage, ShownHeader, Before
<1>4. UNCHANGED ThreadsTable!vars
  BY <1>1, <1>3, ToStutter
<1>5. Shown' = Shown
  BY <1>1, <1>3 DEF Shown
<1> QED
  BY <1>1, <1>3, <1>4, <1>5 DEF Whole, Within, Ordered, LoadCount, SlotsInFile, Adding, Enlarging,
                                HeaderWaits, LastWaits

LEMMA OneThreadStep ==
    ASSUME NEW t, Threads = {t}, ThreadsInv, Whole(t), ValidAlignment, NoWrap, [AllNext]_allVars
    PROVE  Whole(t)' /\ [ThreadsTable!Next]_(ThreadsTable!vars)
<1>i. ThreadsInv'
  BY ThreadsInvStep
<1>b. torn \in BOOLEAN /\ torn' \in BOOLEAN /\ TypeOK'
  BY <1>i, ThreadsTyped DEF ThreadsInv, TypeOK
<1>m. ThreadsTable!Typed'
  BY <1>i, ThreadsMapTypedAfter DEF ThreadsMap
<1>a. \/ Begin(t) \/ Step(t) \/ UNCHANGED allVars
  BY DEF AllNext
<1>u. CASE UNCHANGED <<vars, pc, job>>
  BY <1>u, FileLeftAlone
<1>s. CASE ~UNCHANGED <<vars, pc, job>>
  <2>a. \/ Start(t) \/ LockPE(t) \/ LockSec(t) \/ AddBegin(t) \/ ExtendBegin(t) \/ Realloc(t)
        \/ Accepts(t) \/ Refuses(t) \/ WrapCore(t) \/ AddPush(t) \/ AddReload(t) \/ Read(t) \/ GetHdr(t)
    BY <1>a, <1>s, Answered DEF Begin, Step, GoesUndefined, allVars
  <2>1. CASE torn
    <3>1. torn'
      BY <2>1, <2>a DEF Start, LockPE, LockSec, AddBegin, ExtendBegin, Realloc, Accepts, Refuses,
                        ResizeRefused, WrapCore,
                        AddPush, AddReload, Read, GetHdr
    <3>2. UNCHANGED ThreadsTable!vars
      BY <2>1, <3>1 DEF ThreadsTable!vars
    <3> QED
      BY <3>1, <3>2 DEF Whole
  <2>2. CASE ~torn /\ torn'
    BY <2>2, <1>m DEF Whole, ThreadsTable!Next, ThreadsTable!Nothing
  <2>3. CASE Kept
    <3>j. pc \in [Threads -> Places] /\ t \in Threads
      BY DEF ThreadsInv, JobsTyped
    <3>1. CASE Realloc(t) \/ Refuses(t)
      <4>1. Realloc(t) => pc[t] = "realloc"
        BY DEF Realloc
      <4>2. CASE Enlarging(t)
        <5>1. Whole(t)' /\ ThreadsTable!ExtendLast
          BY <1>b, <2>3, <3>1, <4>2, ExtendReallocated
        <5> QED
          BY <1>m, <2>3, <5>1 DEF ThreadsTable!Next, Kept
      <4>3. CASE ~Enlarging(t) /\ Realloc(t)
        <5>1. Whole(t)' /\ ThreadsTable!SetLength
          BY <1>b, <2>3, <4>1, <4>3, Reallocated
        <5> QED
          BY <1>m, <2>3, <5>1 DEF ThreadsTable!Next, Kept
      <4>4. CASE ~Enlarging(t) /\ Refuses(t)
        BY <1>b, <2>3, <4>4, Quiet
      <4> QED
        BY <3>1, <4>2, <4>3, <4>4
    <3>7. CASE Accepts(t)
      BY <3>7, <3>j, Granted
    <3>2. CASE AddBegin(t)
      <4>1. pc'[t] \in {"canResize", "idle"}
        BY <3>2, <3>j DEF AddBegin, Finish, Goto
      <4>2. CASE pc'[t] = "canResize"
        <5>1. Whole(t)' /\ ThreadsTable!Reserve
          BY <1>b, <2>3, <3>2, <4>2, AddBegun
        <5> QED
          BY <1>m, <2>3, <5>1 DEF ThreadsTable!Next, Kept
      <4> QED
        BY <1>b, <2>3, <3>2, <4>1, <4>2, Quiet
    <3>3. CASE ExtendBegin(t)
      <4>1. pc'[t] \in {"canResize", "idle"}
        BY <3>3, <3>j DEF ExtendBegin, Finish, Goto
      <4> QED
        BY <1>b, <2>3, <3>3, <4>1, ExtendBegun, Quiet
    <3>4. CASE AddPush(t)
      <4>1. pc'[t] \in {"reload", "idle"}
        BY <3>4, <3>j DEF AddPush, Finish, Goto
      <4>2. CASE pc'[t] = "reload"
        <5>1. Whole(t)' /\ ThreadsTable!Append
          BY <1>b, <2>3, <3>4, <4>2, Pushed
        <5> QED
          BY <1>m, <2>3, <5>1 DEF ThreadsTable!Next, Kept
      <4> QED
        BY <1>b, <2>3, <3>4, <4>1, <4>2, Quiet
    <3>5. CASE WrapCore(t) \/ AddReload(t)
      BY <1>b, <2>3, <3>5, Wrapped
    <3>6. CASE Start(t) \/ LockPE(t) \/ LockSec(t) \/ Read(t) \/ GetHdr(t)
      BY <1>b, <2>3, <3>6, Quiet
    <3> QED
      BY <2>a, <3>1, <3>2, <3>3, <3>4, <3>5, <3>6, <3>7
  <2> QED
    BY <1>b, <2>1, <2>2, <2>3 DEF Kept
<1> QED
  BY <1>u, <1>s

\* The steps between two lock operations of one thread keep the promises of
\* SectionTable too: what is shown of the file changes only in the step of a call
\* that its caller may rely on, and what an unfinished extendLastSection or
\* addNewSection has written before shows nothing.
THEOREM OneThreadImplements ==
    ASSUME NEW t, Threads = {t}, ValidAlignment, NoWrap
    PROVE  AllSpec => StepsImplementSectionTable
<1>1. AllInit => ThreadsInv /\ Whole(t) /\ ThreadsTable!Init
  BY ThreadsInvInit, OneThreadInit
<1>2. ThreadsInv /\ Whole(t) /\ [AllNext]_allVars => ThreadsInv' /\ Whole(t)' /\ [ThreadsTable!Next]_(ThreadsTable!vars)
  BY ThreadsInvStep, OneThreadStep
<1> QED
  BY <1>1, <1>2, PTL DEF AllSpec, StepsImplementSectionTable, ThreadsTable!Spec

=============================================================================
