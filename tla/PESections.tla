------------------------------ MODULE PESections ------------------------------
(***************************************************************************)
(* Editing the section table of one PE file from one thread: PEFile's      *)
(* addNewSection, extendLastSection, resize and wrap, with the wrappers    *)
(* they reload (SectHdrsWrapper::wrap, addEntry, reloadMapping).           *)
(*                                                                         *)
(* The file is its length, the slots of its section header table, the      *)
(* section count of the file header and SizeOfImage. A header slot lies    *)
(* wholly inside the file or wholly outside, and an unused slot is zero or *)
(* holds other data.                                                       *)
(***************************************************************************)
EXTENDS SectionMap, FiniteSets

CONSTANTS
    InitImages,  \* the files that may be opened: [tbl, num, fs, img]
    Slots,       \* header slots the model keeps track of
    SecTblOff,   \* file offset of the section header table
    HdrLen,      \* sizeof(IMAGE_SECTION_HEADER)
    NtEnd,       \* end of the NT headers in the file
    SecMax,      \* SECT_COUNT_MAX
    DW, WW,      \* a DWORD field keeps a value modulo DW, a WORD field modulo WW
    RawSizes, VirtSizes,    \* arguments of addNewSection
    Growths,                \* arguments of extendLastSection
    FileSizes,              \* arguments of resize
    MaxFile, MaxImage       \* bounds on the length of the file and on SizeOfImage

ZeroHdr == [rp |-> 0, rs |-> 0, va |-> 0, vs |-> 0]

DWord == 0 .. DW-1
DWHeader == [rp : DWord, rs : DWord, va : DWord, vs : DWord]
Image == [tbl : [1..Slots -> DWHeader], num : 0..WW-1, fs : 1..MaxFile, img : 0..MaxImage]

ASSUME TableAssumption ==
    /\ Slots \in Nat /\ SecTblOff \in Nat /\ HdrLen \in Nat \ {0}
    /\ NtEnd \in Nat \ {0} /\ SecMax \in Nat \ {0} /\ DW \in Nat
    /\ WW \in Nat /\ Slots < WW /\ SecMax < WW
    /\ MaxFile \in Nat /\ MaxFile < DW /\ MaxImage \in Nat /\ MaxImage < DW
    /\ RawSizes \subseteq DWord /\ VirtSizes \subseteq DWord
    /\ Growths \subseteq Nat /\ FileSizes \subseteq Nat \ {0}
ASSUME InitAssumption == InitImages \subseteq Image

VARIABLES
    tbl,       \* the header slots in the file
    secNum,    \* FileHeader.NumberOfSections
    fileSize,  \* size of the buffer
    imgSize,   \* OptionalHeader.SizeOfImage
    loaded,    \* number of SectionHdrWrapper entries
    mapped,    \* what rSec and vSec were built from, and how: [im, mode]
    ret,       \* the last result: the section asked for and the one returned
    torn       \* history: never in order, or once shorter than its headers claim

vars == <<tbl, secNum, fileSize, imgSize, loaded, mapped, ret, torn>>

-----------------------------------------------------------------------------
(* Loading the table *)

SlotInFile(s, fs) == SecTblOff + s * HdrLen <= fs

\* SectHdrsWrapper::wrap stops at SECT_COUNT_MAX and at the first header that
\* is not in the file.
SlotsInFile(fs) == IF fs < SecTblOff THEN 0 ELSE (fs - SecTblOff) \div HdrLen
LoadCount(num, fs) == Least(Least(num, SecMax), Least(SlotsInFile(fs), Slots))

\* What is cut off is lost: the buffer grows by zeros.
CutTable(t, fs) == [s \in 1..Slots |-> IF SlotInFile(s, fs) THEN t[s] ELSE ZeroHdr]

ImageOf(t, n, fs, img) == [tbl |-> t, n |-> n, fs |-> fs, img |-> img]
Now == ImageOf(tbl, loaded, fileSize, imgSize)
CurrentMaps == Maps(mapped.im, mapped.mode)

\* A header is not in the file, or claims content that is not.
Torn(t, num, n, fs) == num > n \/ \E i \in 1..n : t[i].rp + t[i].rs > fs

\* The headers of a well-formed file are in ascending order, on disk and in
\* memory, and SizeOfImage covers them.
Ordered(t, n, img) ==
    /\ \A i, j \in 1..n : i < j =>
          /\ t[i].rp + t[i].rs <= t[j].rp
          /\ t[i].va + DeclaredVirtual(t[i]) <= t[j].va
    /\ \A i \in 1..n : t[i].va + DeclaredVirtual(t[i]) <= img

\* Mutant: the wrap after a resize does not rebuild the maps.
WrapAfterKeepsMaps(t, num, fs, img) ==
    /\ tbl' = CutTable(t, fs)
    /\ loaded' = LoadCount(num, fs)
    /\ UNCHANGED mapped

\* PEFile::resize when the buffer was reallocated, and its wrap(): the
\* headers and the maps are read again from the file.
WrapAfter(t, num, fs, img) ==
    LET cut == CutTable(t, fs)
        n   == LoadCount(num, fs)
    IN /\ tbl' = cut
       /\ loaded' = n
       /\ mapped' = [im |-> ImageOf(cut, n, fs, img), mode |-> "rewrap"]

\* Mutant: only the DOS header is protected.
CanShrinkToAnything(newSize) == newSize > 0

\* canResize: growing always, shrinking as long as the NT headers stay.
CanResize(newSize) == newSize > fileSize \/ newSize >= NtEnd

\* ByteBuffer::resize to the size it has succeeds; any other may find no memory.
ResizeMayFail(newSize) == newSize # fileSize \/ ~CanResize(newSize)

NoteTorn == torn' = (torn \/ Torn(tbl', secNum', loaded', fileSize'))

-----------------------------------------------------------------------------
(* Operations *)

NoRet == [op |-> "none", sec |-> NoSec, got |-> NoSec]

\* SectHdrsWrapper::canAddEntry and the limit of PEFile::_canAddNewSection:
\* the slot behind the last loaded header is in the file and zero.
CanAddEntry(t, n, fs) ==
    /\ n > 0 /\ n < Slots
    /\ SlotInFile(n + 1, fs)
    /\ t[n + 1] = ZeroHdr
\* Mutant: only the room in the file is asked for.
CanAddAnySection == CanAddEntry(tbl, loaded, fileSize)
CanAddNewSection == CanAddEntry(tbl, loaded, fileSize) /\ secNum # SecMax

\* Mutant: the end of the file is rounded down.
RawEndDown == (fileSize \div Greatest(FileAlign, 1)) * FileAlign

RawEnd == RoundUp(fileSize, FileAlign)
VirtEnd == RoundUp(MappedSize(imgSize), SectAlign)
VirtArg(r, v) == IF v = 0 THEN r ELSE v

NewHeader(r, v) == [rp |-> RawEnd, rs |-> r, va |-> VirtEnd, vs |-> VirtArg(r, v)]

\* The first locked part of addNewSection: SizeOfImage is changed already
\* (setNumValue refuses the value that is there).
AddAccepted(r, v) ==
    /\ r # 0 \/ v # 0
    /\ CanAddNewSection
    /\ VirtEnd + VirtArg(r, v) # imgSize
AddBounded(r, v) == RawEnd + r <= MaxFile /\ VirtEnd + VirtArg(r, v) <= MaxImage
BeginAdd(r, v) ==
    /\ AddAccepted(r, v) /\ AddBounded(r, v)
    /\ imgSize' = VirtEnd + VirtArg(r, v)

\* Mutants: the count in the file header is not raised; the maps are reloaded
\* before the new entry is there.
PasteNotCounted(t, n, hdr) ==
    /\ tbl' = [t EXCEPT ![n + 1] = hdr]
    /\ loaded' = n + 1
    /\ mapped' = [im |-> ImageOf(tbl', n + 1, fileSize', imgSize'), mode |-> "reload"]
    /\ UNCHANGED secNum
PasteNotMapped(t, n, hdr) ==
    /\ tbl' = [t EXCEPT ![n + 1] = hdr]
    /\ loaded' = n + 1
    /\ secNum' = (secNum + 1) % WW
    /\ mapped' = [im |-> ImageOf(tbl', n, fileSize', imgSize'), mode |-> "reload"]

\* The second locked part, SectHdrsWrapper::addEntry: the header is pasted
\* behind the last one, loaded, the maps are rebuilt, the count is raised.
PasteHeader(t, n, hdr) ==
    /\ tbl' = [t EXCEPT ![n + 1] = hdr]
    /\ loaded' = n + 1
    /\ secNum' = (secNum + 1) % WW
    /\ mapped' = [im |-> ImageOf(tbl', n + 1, fileSize', imgSize'), mode |-> "reload"]

AddNewSection(r, v) ==
    LET newSize == RawEnd + r
        cut     == CutTable(tbl, newSize)
        n       == LoadCount(secNum, newSize)
    IN /\ BeginAdd(r, v)
       /\ newSize # 0 /\ CanResize(newSize)
       /\ fileSize' = newSize
       /\ IF CanAddEntry(cut, n, newSize)
          THEN /\ PasteHeader(cut, n, NewHeader(r, v))
               /\ ret' = [op |-> "add", sec |-> n + 1, got |-> n + 1]
          ELSE /\ WrapAfter(tbl, secNum, newSize, imgSize')
               /\ ret' = [op |-> "add", sec |-> n + 1, got |-> NoSec]
               /\ UNCHANGED secNum
       /\ NoteTorn

\* The buffer could not be resized: "Failed to resize", nothing is undone.
AddNewSectionFails(r, v) ==
    /\ BeginAdd(r, v)
    /\ ResizeMayFail(RawEnd + r)
    /\ ret' = [op |-> "add", sec |-> loaded + 1, got |-> NoSec]
    /\ UNCHANGED <<tbl, secNum, fileSize, loaded, mapped, torn>>

\* Mutants: the difference is stored without a cut; the overlay is left out.
ExtendedUncut(h, newSize) ==
    LET rs == newSize - h.rp
    IN [h EXCEPT !.rs = rs, !.vs = IF rs < 0 \/ h.vs < rs THEN rs ELSE @]
ExtendedNoOverlay(h, newSize) ==
    LET rs == h.rs + (newSize - fileSize)
    IN [h EXCEPT !.rs = rs, !.vs = IF h.vs < rs THEN rs ELSE @]

\* The last section takes everything from its raw start to the new end of
\* the file. The difference is taken in 64 bits and stored in 32.
Extended(h, newSize) ==
    LET rs == newSize - h.rp
    IN [h EXCEPT !.rs = rs % DW, !.vs = IF rs < 0 \/ h.vs < rs THEN rs % DW ELSE @]

ImageExtended(h, newSize) ==
    LET rs == newSize - h.rp
    IN IF rs < 0 \/ h.vs < rs THEN (h.va + rs) % DW ELSE imgSize

ExtendBounded(newSize) ==
    newSize <= MaxFile /\ ImageExtended(tbl[loaded], newSize) <= MaxImage
BeginExtend(newSize) ==
    /\ loaded > 0
    /\ ExtendBounded(newSize)
    /\ imgSize' = ImageExtended(tbl[loaded], newSize)

ExtendedTable(newSize) == [tbl EXCEPT ![loaded] = Extended(@, newSize)]

ExtendLastSection(added) ==
    LET newSize == fileSize + added
    IN /\ BeginExtend(newSize)
       /\ CanResize(newSize)
       /\ fileSize' = newSize
       /\ WrapAfter(ExtendedTable(newSize), secNum, newSize, imgSize')
       /\ ret' = [op |-> "extend", sec |-> loaded, got |-> loaded']
       /\ UNCHANGED secNum
       /\ NoteTorn

\* The result of resize is not looked at.
ExtendLastSectionFails(added) ==
    LET newSize == fileSize + added
    IN /\ BeginExtend(newSize)
       /\ ResizeMayFail(newSize)
       /\ tbl' = ExtendedTable(newSize)
       /\ ret' = [op |-> "extend", sec |-> loaded, got |-> loaded]
       /\ UNCHANGED <<secNum, fileSize, loaded, mapped>>
       /\ NoteTorn

Resize(newSize) ==
    /\ newSize <= MaxFile
    /\ CanResize(newSize)
    /\ fileSize' = newSize
    /\ WrapAfter(tbl, secNum, newSize, imgSize)
    /\ ret' = NoRet
    /\ UNCHANGED <<secNum, imgSize>>
    /\ NoteTorn

\* PEFile::wrap called on its own, as the commander does after an edit.
Rewrap ==
    /\ WrapAfter(tbl, secNum, fileSize, imgSize)
    /\ ret' = NoRet
    /\ UNCHANGED <<secNum, fileSize, imgSize, torn>>

-----------------------------------------------------------------------------

\* The PEFile constructor: the maps are built while PEFile::sects is NULL.
Open(im) ==
    LET n == LoadCount(im.num, im.fs)
    IN /\ tbl = im.tbl
       /\ secNum = im.num
       /\ fileSize = im.fs
       /\ imgSize = im.img
       /\ loaded = n
       /\ mapped = [im |-> ImageOf(im.tbl, n, im.fs, im.img), mode |-> "first"]
       /\ ret = NoRet
       /\ torn = (Torn(im.tbl, im.num, n, im.fs) \/ ~Ordered(im.tbl, n, im.img))

Init == \E im \in InitImages : Open(im)

Add == \E r \in RawSizes, v \in VirtSizes : AddNewSection(r, v) \/ AddNewSectionFails(r, v)
Extend == \E a \in Growths : ExtendLastSection(a) \/ ExtendLastSectionFails(a)

Next == Add \/ Extend \/ (\E fs \in FileSizes : Resize(fs)) \/ Rewrap

Spec == Init /\ [][Next]_vars

-----------------------------------------------------------------------------
(* Properties *)

\* Every field keeps a value its width can hold, whatever is resized and
\* extended: the 64-bit sizes of the code are cut to the DWORDs of the header.
TypeOK ==
    /\ tbl \in [1..Slots -> DWHeader]
    /\ secNum \in 0..WW-1
    /\ fileSize \in 1..MaxFile
    /\ imgSize \in 0..MaxImage
    /\ loaded \in 0..Slots
    /\ mapped \in [im : [tbl : [1..Slots -> DWHeader], n : 0..Slots, fs : 1..MaxFile, img : 0..MaxImage],
                   mode : {"first", "rewrap", "reload"}]
    /\ ret \in [op : {"none", "add", "extend"}, sec : Nat, got : Nat]
    /\ torn \in BOOLEAN

\* addNewSection, extendLastSection, resize: as long as the file was never
\* shorter than its headers claim, adding and extending sections, in any order
\* and with any failed resize in between, never makes two sections overlap, on
\* disk or in memory, and never leaves one outside of the image.
SectionsOrdered == ~torn => Ordered(tbl, loaded, imgSize)

\* SectHdrsWrapper::addEntry loads one entry and raises the count by hand: the
\* entries are always those that a fresh SectHdrsWrapper::wrap would load, for
\* any count in the file, also one that does not fit the WORD when it is raised,
\* unless there are more entries than SECT_COUNT_MAX (see SectionLimit).
LoadedIsWrap == loaded <= SecMax => loaded = LoadCount(secNum, fileSize)

\* The maps that look-ups use are those of the headers as they are now, however
\* they were built (constructor, wrap or reloadMapping): the one operation that
\* leaves stale end addresses in vSec is an addNewSection that could not resize
\* the file and keeps the SizeOfImage it has written.
MapsCurrent ==
    ~torn /\ mapped.im.img = imgSize => CurrentMaps = Maps(Now, "reload")

\* rawToRva and rvaToRaw invert each other, between any two edits. Through the
\* stale end addresses that MapsCurrent speaks of, the way back from an address
\* in the padding of a section may find no section, but never another byte.
RoundTrip ==
    ~torn => LET maps == CurrentMaps IN
        /\ \A raw \in 0..fileSize-1 :
              LET rva  == RawToRva(maps, Now, raw)
                  back == RvaToRaw(maps, Now, rva)
              IN rva # NoAddr => back = raw \/ (mapped.im.img # imgSize /\ back = NoAddr)
        /\ \A rva \in 0..MappedSize(imgSize)-1 :
              LET raw == RvaToRaw(maps, Now, rva)
              IN raw # NoAddr => RawToRva(maps, Now, raw) = rva

\* getSecHdrAtOffset: a section that maps file content is found by its own first
\* byte, on disk and in memory, even through maps with stale end addresses.
SectionsReachable ==
    ~torn => LET maps == CurrentMaps IN
        \A i \in 1..loaded : MappedRaw(Now, i) > 0 =>
            /\ FindRaw(maps, Now, RawStart(Now, i)) = i
            /\ MappedVirtual(Now, i, 1..loaded) > 0 => FindVirtual(maps, Now, VirtStart(Now, i)) = i

\* canResize ("the resize will harm headers!"): whatever the alignments in the
\* headers are, no call leaves a file that is shorter than its NT headers.
HeadersKept == fileSize >= NtEnd

\* addEntry and _canAddNewSection ("limit exceeded"): a file whose count is not
\* above SECT_COUNT_MAX never gets more sections than that. (The limit is tested
\* with ==: a count that is above it already passes.)
SectionLimit == loaded <= SecMax

\* The whole of it implements SectionTable: each call either does what is
\* promised there or damages the file.
Table == INSTANCE SectionTable WITH
            count   <- IF torn THEN 0 ELSE loaded,
            place   <- [i \in 1..(IF torn THEN 0 ELSE loaded) |-> tbl[i]],
            fileLen <- IF torn THEN 0 ELSE fileSize,
            imgLen  <- IF torn THEN 0 ELSE imgSize,
            damaged <- torn
ImplementsSectionTable == Table!Spec
=============================================================================
