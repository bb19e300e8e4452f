----------------------------- MODULE Directories -----------------------------
(***************************************************************************)
(* The wrappers that load a series of entries from the file: exports,      *)
(* relocations, exceptions, debug information, TLS callbacks and bound     *)
(* imports; and the Rich header, which is searched for. They are made once *)
(* and wrapped again after each change of size, and in between the file    *)
(* may be edited below what they hold: the number of entries, the map of   *)
(* the names, the positions and sizes of blocks, and the Rich pointers.    *)
(***************************************************************************)
EXTENDS Views, Sequences

CONSTANTS
    Files,    \* [bytes, len]: the files that may be opened; their headers fit
    Edits,    \* <<offset, size, value>>: calls of setNumValue
    Lengths,  \* arguments of resize; the headers fit
    MaxEdits  \* bound on the number of edits

ASSUME DirectoriesAssumption ==
    /\ MaxEdits \in Nat /\ Lengths \subseteq Nat
    /\ \A f \in Files : f.len \in Nat /\ \A o \in DOMAIN f.bytes : f.bytes[o] \in 0..255
    /\ Edits \subseteq Nat \X Nat \X Nat

VARIABLES
    file,        \* bytes, len, and the bits that PECore found at the last wrap
    exports,     \* count: number of entries; names: ordToNameId
    relocs,      \* parsed: parsedSize; blocks: raw (cachedRaw), valid, max (cachedMaxNum),
                 \* count: number of entries
    exceptions,  \* parsed: parsedSize; count
    counts,      \* number of entries of the debug, TLS and bound import directories
    rich,        \* richSign, dansHdr, compIdCounter
    fresh,       \* history: nothing was edited since the last wrap
    edits        \* history: number of edits

vars == <<file, exports, relocs, exceptions, counts, rich, fresh, edits>>

pe == Seen(file)

\* Entries are loaded one by one, to the first that is not there.
CountWhile(max, Ok(_)) == CHOOSE n \in 0..max : (n < max => ~Ok(n)) /\ \A i \in 0..n-1 : Ok(i)

\* A member of a structure that begins at an offset.
In(p, struct, at, name) ==
    LET m == Member(struct, name) IN Num(p, at + SizeOfMembers(struct, m - 1), struct[m][2])

\* getDirEntrySize, as declared and trimmed to the file.
BaseReloc == 5
DirSize(p, dir) == IF dir < DirsCount(p) THEN Num(p, DataDirAt(p) + 8 * dir + 4, 4) ELSE 0
DirEntrySize(p, dir) ==
    LET raw == ToRaw(p, Num(p, DataDirAt(p) + 8 * dir, 4))
    IN IF dir >= DirsCount(p) \/ raw = NoPtr THEN 0
       ELSE IF DirSize(p, dir) < p.len - raw THEN DirSize(p, dir) ELSE p.len - raw

-----------------------------------------------------------------------------
(* Exports *)

Export(p, name) == In(p, IMAGE_EXPORT_DIRECTORY, exportDir(p), name)

\* getFuncRvaPtr
FuncRvaPtr(p, i) ==
    LET at == ToRaw(p, Export(p, "AddressOfFunctions") + 4 * i)
    IN IF exportDir(p) # NoPtr /\ InFile(p, at, 4) THEN at ELSE NoPtr

NameOrdPtr(p, i) ==
    LET at == ToRaw(p, Export(p, "AddressOfNameOrdinals") + 2 * i) IN IF InFile(p, at, 2) THEN at ELSE NoPtr

\* Mutant: the map is kept.
KeepNames(old) == old

\* ExportDirWrapper::clear
ClearNames(old) == <<>>

Mapped(names, ord, id) == [o \in DOMAIN names \cup {ord} |-> IF o = ord THEN id ELSE names[o]]

\* mapNames: a name takes its ordinal from the names before it.
MapNames(p, names) ==
    LET n == IF exportDir(p) = NoPtr THEN 0
             ELSE CountWhile(Export(p, "NumberOfNames"), LAMBDA i : NameOrdPtr(p, i) # NoPtr)
        map[i \in 0..n] == IF i = 0 THEN names ELSE Mapped(map[i - 1], Num(p, NameOrdPtr(p, i - 1), 2), i - 1)
    IN map[n]

WrapExports(p, old) ==
    [names |-> MapNames(p, ClearNames(old.names)),
     count |-> IF exportDir(p) = NoPtr THEN 0
               ELSE CountWhile(Export(p, "NumberOfFunctions"), LAMBDA i : FuncRvaPtr(p, i) # NoPtr)]

\* getFuncNameId, getFuncNameRvaPtr, getFuncName of an entry.
NameId(ex, i) == IF i % 2^16 \in DOMAIN ex.names THEN ex.names[i % 2^16] ELSE NoPtr
FuncNameRvaPtr(p, ex, i) ==
    LET id == NameId(ex, i)
        at == ToRaw(p, Export(p, "AddressOfNames") + 4 * id)
    IN IF id # NoPtr /\ exportDir(p) # NoPtr /\ id < Export(p, "NumberOfNames") /\ InFile(p, at, 4) THEN at ELSE NoPtr
FuncName(p, ex, i) ==
    LET at == FuncNameRvaPtr(p, ex, i) IN IF at = NoPtr THEN NoPtr ELSE ToRaw(p, Num(p, at, 4))

\* _isFuncChar
Dot == 46
FuncChars == (97..122) \cup (65..90) \cup (48..57) \cup {95, Dot, 35, 64, 63, 45, 92, 47, 58}

\* forwarderNameLen: the length of a string of such characters with a dot, 0 for another.
ForwarderNameLen(p, at) ==
    LET n   == CountWhile(p.len - at, LAMBDA i : Byte(p, at + i) \in FuncChars)
        dot == \E i \in 0..n-1 : Byte(p, at + i) = Dot
    IN IF at + n < p.len /\ Byte(p, at + n) = 0 /\ dot THEN n ELSE 0

\* getForwarder
Forwarder(p, i) ==
    LET at == IF FuncRvaPtr(p, i) = NoPtr THEN NoPtr ELSE ToRaw(p, Num(p, FuncRvaPtr(p, i), 4))
    IN IF at # NoPtr /\ ForwarderNameLen(p, at) > 0 THEN at ELSE NoPtr

-----------------------------------------------------------------------------
(* Relocations *)

BlockHeader == SizeOfMembers(IMAGE_BASE_RELOCATION, 2)
SizeOfBlock(p, at) == In(p, IMAGE_BASE_RELOCATION, at, "SizeOfBlock")

\* reloc
Reloc(p) ==
    LET raw == ToRaw(p, p.dirs[BaseReloc]) IN IF InFile(p, raw, BlockHeader) THEN raw ELSE NoPtr

\* getPtr of a block whose position is known.
BlockPtr(p, block) == IF Reloc(p) # NoPtr /\ InFile(p, block.raw, BlockHeader) THEN block.raw ELSE NoPtr

\* getPtr of the next block: the first one, or behind its predecessor.
NextBlockAt(p, blocks) ==
    IF blocks = <<>> THEN Reloc(p)
    ELSE LET prev == blocks[Len(blocks)].raw IN prev + SizeOfBlock(p, prev)

\* Mutant: what the block declares.
DeclaredEntries(p, at) == (SizeOfBlock(p, at) - BlockHeader) \div 2

\* maxEntriesNumInBlock: words, as many as are in the file.
MaxEntriesNum(p, at) ==
    LET size == SizeOfBlock(p, at) - BlockHeader
        rest == p.len - (at + BlockHeader)
    IN (IF size > rest THEN rest ELSE size) \div 2

\* RelocBlockWrapper::wrap
WrapBlock(p, at) ==
    LET valid == In(p, IMAGE_BASE_RELOCATION, at, "VirtualAddress") < MappedSize
        max   == IF valid /\ SizeOfBlock(p, at) > BlockHeader THEN MaxEntriesNum(p, at) ELSE 0
    IN [raw |-> at, valid |-> valid, max |-> max, count |-> max]

\* RelocDirWrapper::wrap ends where the directory ends, behind a block that is
\* not valid, or at one that is not there or has no size.
Complete(p, dir) ==
    LET at == NextBlockAt(p, dir.blocks) IN
    \/ dir.parsed >= DirEntrySize(p, BaseReloc)
    \/ dir.blocks # <<>> /\ ~dir.blocks[Len(dir.blocks)].valid
    \/ ~InFile(p, at, BlockHeader) \/ SizeOfBlock(p, at) = 0
LoadNext(p, dir) ==
    LET at == NextBlockAt(p, dir.blocks) IN
    IF Complete(p, dir) THEN dir
    ELSE [parsed |-> dir.parsed + SizeOfBlock(p, at), blocks |-> Append(dir.blocks, WrapBlock(p, at))]

\* A block takes a byte at least, so this many steps are enough.
LoadBlocks(p, dir) ==
    LET most == DirEntrySize(p, BaseReloc)
        load[k \in 0..most] == IF k = 0 THEN dir ELSE LoadNext(p, load[k - 1])
    IN load[most]

\* ExeNodeWrapper::clear
ClearRelocs(old) == [parsed |-> 0, blocks |-> <<>>]
WrapRelocs(p, old) == LoadBlocks(p, ClearRelocs(old))

\* RelocEntryWrapper::getPtr: below the number of entries the block had when it
\* was loaded, and while the block has a size.
RelocEntryPtr(p, block, i) ==
    IF i < block.max /\ BlockPtr(p, block) # NoPtr /\ SizeOfBlock(p, block.raw) \notin {0, BlockHeader}
    THEN block.raw + BlockHeader + 2 * i ELSE NoPtr

-----------------------------------------------------------------------------
(* Exceptions, debug information, TLS callbacks, bound imports *)

\* _getSize
ExceptionSize(p) == CASE IsIntel(p) -> p.views["Exception"].size [] IsArm64(p) -> p.views["ArmException"].size [] OTHER -> 0
ExceptionPtr(p, i) ==
    LET first == IF IsIntel(p) THEN firstException(p, "Exception") ELSE firstException(p, "ArmException")
        at    == first + i * ExceptionSize(p)
    IN IF first # NoPtr /\ InFile(p, at, ExceptionSize(p)) THEN at ELSE NoPtr

\* ExceptionDirWrapper::wrap
WrapExceptions(p) ==
    LET size == ExceptionSize(p)
        max  == IF size = 0 THEN 0 ELSE (DirEntrySize(p, Directories["Exception"]) + size - 1) \div size
        n    == CountWhile(max, LAMBDA i : ExceptionPtr(p, i) # NoPtr)
    IN [parsed |-> n * size, count |-> n]

\* DebugDirWrapper::loadNextEntry: as many as the size of the directory has room for.
DebugPtr(p, i) ==
    LET rva == p.dirs[Directories["Debug"]]
        at  == ToRaw(p, rva + i * p.views["Debug"].size)
    IN IF rva # NoPtr /\ InFile(p, at, p.views["Debug"].size) THEN at ELSE NoPtr
DebugCount(p) ==
    CountWhile(DirSize(p, Directories["Debug"]) \div p.views["Debug"].size, LAMBDA i : DebugPtr(p, i) # NoPtr)

\* TlsEntryWrapper::getPtr; TlsDirWrapper::wrap ends at the first zero.
CallbackPtr(p, i) ==
    LET first == In(p, p.views["TLS"].struct, getTlsDirPtr(p), "AddressOfCallBacks")
        at    == ToRaw(p, first) + i * (p.bits \div 8)
    IN IF getTlsDirPtr(p) # NoPtr /\ first # 0 /\ ToRaw(p, first) # NoPtr /\ InFile(p, at, p.bits \div 8) THEN at ELSE NoPtr
TlsCount(p) ==
    CountWhile(p.len, LAMBDA i : CallbackPtr(p, i) # NoPtr /\ Num(p, CallbackPtr(p, i), p.bits \div 8) # 0)

\* BoundEntryWrapper::getPtr; loadNextEntry ends at the first without a name.
BoundPtr(p, i) ==
    LET at == boundImp(p) + i * p.views["Bound"].size
    IN IF boundImp(p) # NoPtr /\ InFile(p, at, p.views["Bound"].size) THEN at ELSE NoPtr
BoundModule(p, i) == In(p, IMAGE_BOUND_IMPORT_DESCRIPTOR, BoundPtr(p, i), "OffsetModuleName")
BoundCount(p) == CountWhile(p.len, LAMBDA i : BoundPtr(p, i) # NoPtr /\ BoundModule(p, i) # 0)

-----------------------------------------------------------------------------
(* The Rich header *)

RICH_HDR_MAGIC == <<82, 105, 99, 104>>
DANS_HDR_MAGIC == <<68, 97, 110, 83>>
RichSize == 8
DansBegin == 16   \* what comes before the first compId
CompSize == 8

\* a ^ b of two bytes
BytesXor(a, b) ==
    LET low[i \in 0..8] == IF i = 0 THEN 0 ELSE low[i-1] + 2^(i-1) * ((a \div 2^(i-1) + b \div 2^(i-1)) % 2) IN low[8]

IsRich(p, at) == \A i \in 0..3 : Byte(p, at + i) = RICH_HDR_MAGIC[i + 1]
IsDans(p, at, key) == \A i \in 0..3 : Byte(p, at + i) = BytesXor(DANS_HDR_MAGIC[i + 1], Byte(p, key + i))
LastOf(S) == IF S = {} THEN NoPtr ELSE CHOOSE o \in S : \A q \in S : q <= o

\* getRichHeaderSign goes back from the PE header by four. When that does not
\* lead to the end of the DOS header, the size it has left to search wraps
\* around zero, and the search goes on to the begin of the file.
RichSign(p) ==
    LET from    == In(p, IMAGE_DOS_HEADER, 0, "e_lfarlc")
        to      == NtHeaders(p)
        ends    == from < to /\ (to - from) % 4 = 0
        visited == {o \in 0..to : (to - o) % 4 = 0 /\ (ends => o > from)}
    IN IF from = to \/ from >= p.len \/ ~InFile(p, to, RichSize) THEN NoPtr
       ELSE LastOf({o \in visited : IsRich(p, o)})

\* getRichHeaderBgn: the id is masked by the checksum; not at the begin of the file.
DansHdr(p, sign) ==
    IF sign = NoPtr THEN NoPtr
    ELSE LastOf({o \in 1..sign - (DansBegin + CompSize) : (sign - o) % 4 = 0 /\ IsDans(p, o, sign + 4)})

\* RichHdrWrapper::wrap, compIdCount
WrapRich(p) ==
    LET sign == RichSign(p)
        dans == DansHdr(p, sign)
    IN [sign |-> sign, dans |-> dans, comps |-> IF dans = NoPtr THEN 0 ELSE (sign - dans - DansBegin) \div CompSize]

\* getSize, getFieldsCount, getFieldPtr, getFieldSize
RichHdrSize(r) == IF r.dans = NoPtr THEN 0 ELSE r.sign - r.dans + RichSize
RichFieldsCount(r) == IF RichHdrSize(r) = 0 THEN 0 ELSE r.comps + 6
RichFieldPtr(r, f) ==
    CASE f < 4              -> r.dans + 4 * f
      [] f \in 4..3+r.comps -> r.dans + DansBegin + CompSize * (f - 4)
      [] OTHER              -> r.sign + 4 * (f - 4 - r.comps)
RichFieldSize(r, f) == IF f \in 4..3+r.comps THEN CompSize ELSE 4

-----------------------------------------------------------------------------
(* Operations *)

\* PECore::wrap
Read(bytes, len) == Wrapped([bytes |-> bytes, len |-> len, bits |-> 32])

Counts(p) == [Debug |-> DebugCount(p), TLS |-> TlsCount(p), Bound |-> BoundCount(p)]

\* PEFile::wrap: the core, and every wrapper.
Wrap(f) == \E p \in {Seen(f)} :
    /\ file' = f
    /\ exports' = WrapExports(p, exports)
    /\ relocs' = WrapRelocs(p, relocs)
    /\ exceptions' = WrapExceptions(p)
    /\ counts' = Counts(p)
    /\ rich' = WrapRich(p)
    /\ fresh' = TRUE
    /\ UNCHANGED edits

Rewrap == Wrap(Read(file.bytes, file.len))

\* PEFile::resize
Resize(n) == n # file.len /\ Wrap(Read(Cut(file.bytes, n), n))

\* AbstractByteBuffer::setNumValue: the wrappers are not told.
SetNumValue(at, size, v) ==
    /\ edits < MaxEdits /\ edits' = edits + 1
    /\ InFile(file, at, size) /\ Num(file, at, size) # v
    /\ file' = [file EXCEPT !.bytes = Written(@, at, size, v)]
    /\ fresh' = FALSE
    /\ UNCHANGED <<exports, relocs, exceptions, counts, rich>>

\* RichHdrWrapper::getPtr: a header that was not found is searched for again.
GetRich ==
    /\ rich.dans = NoPtr
    /\ rich' = WrapRich(pe)
    /\ UNCHANGED <<file, exports, relocs, exceptions, counts, fresh, edits>>

\* The PEFile constructor: each wrapper is made, and wraps.
Init ==
    /\ \E f \in Files : file = Read(f.bytes, f.len)
    /\ \E p \in {pe} :
        /\ exports = WrapExports(p, [names |-> <<>>, count |-> 0])
        /\ relocs = WrapRelocs(p, [parsed |-> 0, blocks |-> <<>>])
        /\ exceptions = WrapExceptions(p)
        /\ counts = Counts(p)
        /\ rich = WrapRich(p)
    /\ fresh = TRUE /\ edits = 0

Next ==
    \/ Rewrap
    \/ \E n \in Lengths : Resize(n)
    \/ \E e \in Edits : SetNumValue(e[1], e[2], e[3])
    \/ GetRich

Spec == Init /\ [][Next]_vars

-----------------------------------------------------------------------------
(* Properties *)

\* mapNames, getFuncName: an ordinal stands for the last of the names that have
\* it, and for none when no name has it; an entry shows a name of its ordinal.
NamesAreLast(p) ==
    LET read == IF exportDir(p) = NoPtr THEN {}
                ELSE {i \in 0..p.len : i < Export(p, "NumberOfNames") /\ \A j \in 0..i : NameOrdPtr(p, j) # NoPtr}
        Ord(i) == Num(p, NameOrdPtr(p, i), 2)
    IN /\ DOMAIN exports.names = {Ord(i) : i \in read}
       /\ \A o \in DOMAIN exports.names :
              exports.names[o] \in read /\ Ord(exports.names[o]) = o
              /\ \A i \in read : Ord(i) = o => i <= exports.names[o]
       /\ \A i \in 0..exports.count-1 : FuncName(p, exports, i) # NoPtr => Ord(NameId(exports, i)) = i % 2^16

\* RelocDirWrapper::wrap: the blocks follow one another without a gap from the
\* begin of the directory, parsedSize is their extent, only the last may be
\* invalid, and none is missing in the size of the directory.
BlocksTile(p) ==
    LET blocks == relocs.blocks
        n      == Len(blocks)
        End(k) == blocks[k].raw + SizeOfBlock(p, blocks[k].raw)
        size   == DirEntrySize(p, BaseReloc)
    IN /\ \A k \in 1..n : blocks[k].raw = (IF k = 1 THEN Reloc(p) ELSE End(k - 1)) /\ (k < n => blocks[k].valid)
       /\ relocs.parsed = IF n = 0 THEN 0 ELSE End(n) - Reloc(p)
       /\ Reloc(p) # NoPtr /\ relocs.parsed < size =>
            (n > 0 /\ ~blocks[n].valid) \/ ~InFile(p, Reloc(p) + relocs.parsed, BlockHeader)
            \/ SizeOfBlock(p, Reloc(p) + relocs.parsed) = 0

\* ExceptionDirWrapper::wrap: the entries fill the directory, of which the last one
\* may stick out, or the file ends within the next one.
ExceptionsFill(p) ==
    LET size == ExceptionSize(p)
        max  == DirEntrySize(p, Directories["Exception"])
    IN exceptions.count > 0 =>
         /\ exceptions.parsed - size < max
         /\ exceptions.parsed >= max \/ ExceptionPtr(p, 0) + exceptions.parsed + size > p.len

\* PEFile::wrapDataDirs: what the wrappers hold after a wrap is what the file has
\* now, whatever it had at the wraps before.
DirsCurrent == fresh => \A p \in {pe} : NamesAreLast(p) /\ BlocksTile(p) /\ ExceptionsFill(p)

\* RelocEntryWrapper::getPtr, getForwarder, RichHdrWrapper::getFieldPtr: also when
\* the file was edited since the last wrap, an entry of a block is in the file,
\* a forwarder has its end and a dot in the file, and the fields of the Rich
\* header follow one another between its two ends.
PointersInFile == \A p \in {pe} :
    /\ \A k \in DOMAIN relocs.blocks : \A i \in 0..relocs.blocks[k].count-1 :
          LET at == RelocEntryPtr(p, relocs.blocks[k], i) IN at # NoPtr => InFile(p, at, 2)
    /\ \A i \in 0..exports.count-1 : Forwarder(p, i) # NoPtr =>
          \E end \in Forwarder(p, i)..p.len-1 : Byte(p, end) = 0 /\ \E o \in Forwarder(p, i)..end : Byte(p, o) = Dot
    /\ LET n == RichFieldsCount(rich)
           End(f) == RichFieldPtr(rich, f) + RichFieldSize(rich, f)
       IN /\ \A f \in 0..n-2 : End(f) <= RichFieldPtr(rich, f + 1)
          /\ n > 0 => RichFieldPtr(rich, 0) = rich.dans /\ End(n - 1) = rich.dans + RichHdrSize(rich) /\ End(n - 1) <= p.len
==============================================================================
