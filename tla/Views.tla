-------------------------------- MODULE Views --------------------------------
(***************************************************************************)
(* A PE file as its wrappers read it: p.bytes holds the bytes that are not *)
(* zero, p.len is the length, p.bits the kind of its optional header, and  *)
(* p.views what each wrapper shows of its structure in that mode, p.dirs   *)
(* the addresses of the directories. The file has no sections and an image *)
(* base of zero: an RVA or a VA that is in the file is its own offset.     *)
(***************************************************************************)
EXTENDS FieldIds, Bytes

MappedSize == 4096   \* a page: no file of the model has a larger SizeOfImage

Byte(p, o) == IF o \in DOMAIN p.bytes THEN p.bytes[o] ELSE 0
NumSizes == {1, 2, 4, 8}
NoNum == -1

\* AbstractByteBuffer::getContentAt for sizes that do not overflow.
InFile(p, at, size) == at >= 0 /\ size > 0 /\ at < p.len /\ at + size <= p.len

\* A number; one that is Huge or more is larger than everything it is compared with.
Huge == 2^30
Num(p, at, size) ==
    LET high[i \in 0..size] ==
            IF i = 0 THEN 0
            ELSE IF high[i - 1] < 2^22 THEN Byte(p, at + size - i) + 256 * high[i - 1]
            ELSE Huge
    IN high[size]

Digit(n, i) == IF i > 3 THEN 0 ELSE (n \div 256^i) % 256

\* The content when the number n was written, and when it was cut to len.
Written(bytes, at, size, n) ==
    [o \in DOMAIN bytes \cup Area(at, size) |-> IF o \in Area(at, size) THEN Digit(n, o - at) ELSE bytes[o]]
Cut(bytes, len) == [o \in {b \in DOMAIN bytes : b < len} |-> bytes[o]]

-----------------------------------------------------------------------------
(* The wrappers *)

Directories == [Export |-> 0, Import |-> 1, Exception |-> 3, ArmException |-> 3, Security |-> 4, Debug |-> 6,
                TLS |-> 9, LdConfig |-> 10, Bound |-> 11, Delay |-> 13, CLR |-> 14]
DirEntriesCount == 15
CodeViews == {"RSDS", "NB10"}
Wrappers == {"Dos", "File", "Optional"} \cup DOMAIN Directories \cup CodeViews

\* What a wrapper shows of a structure: its field ids, and what getFieldPtr adds;
\* the size of the structure, and of the member that each field stands for.
Shows(struct, names, delta) ==
    [struct |-> <<>> \o struct, names |-> <<>> \o names, delta |-> delta, size |-> SizeOfMembers(struct, Len(struct)),
     sizes |-> <<>> \o [f \in DOMAIN names |-> IF names[f] = "" THEN 0 ELSE struct[Member(struct, names[f])][2]]]
View(w, b) ==
    CASE w = "Dos"          -> Shows(IMAGE_DOS_HEADER, DosFieldId, DosHdrFieldPtr)
      [] w = "File"         -> Shows(IMAGE_FILE_HEADER, FileHdrFieldID, FileHdrFieldPtr)
      [] w = "Optional"     -> Shows(OptHdr(b), OptHdrFields(b), OptHdrFieldPtr(b))
      [] w = "Export"       -> Shows(IMAGE_EXPORT_DIRECTORY, ExportDirFID, ExportFieldPtr)
      [] w = "Import"       -> Shows(IMAGE_IMPORT_DESCRIPTOR, ImportFieldID, ImportFieldPtr)
      [] w = "Exception"    -> Shows(IMAGE_IA64_RUNTIME_FUNCTION_ENTRY, ExceptionBlockFID_Intel, ExceptionFieldPtr(FALSE))
      [] w = "ArmException" -> Shows(ARM_EXCEPT_RECORD, ExceptionBlockFID_Arm64, ExceptionFieldPtr(TRUE))
      [] w = "Security"     -> Shows(WIN_CERTIFICATE, SecurityDirFID, SecurityFieldPtr)
      [] w = "Debug"        -> Shows(IMAGE_DEBUG_DIRECTORY, DebugDirFID, DebugFieldPtr)
      [] w = "RSDS"         -> Shows(DEBUG_RSDSI, CVFieldID.RSDS, CVFieldPtr.RSDS)
      [] w = "NB10"         -> Shows(DEBUG_NB10, CVFieldID.NB10, CVFieldPtr.NB10)
      [] w = "TLS"          -> Shows(IMAGE_TLS_DIRECTORY(b), TlsDirFID, TlsFieldPtr(b))
      [] w = "LdConfig"     -> Shows(IMAGE_LOAD_CONFIG_DIRECTORY(b), LdConfigFields(b), LdConfigFieldDelta(b))
      [] w = "Bound"        -> Shows(IMAGE_BOUND_IMPORT_DESCRIPTOR, BoundFieldID, BoundFieldPtr)
      [] w = "Delay"        -> Shows(IMAGE_DELAY_LOAD, DelayImpDirFID, DelayFieldPtr)
      [] w = "CLR"          -> Shows(IMAGE_COR20_HEADER, ClrFieldID, ClrFieldPtr)

Views == [b \in Modes |-> [w \in Wrappers |-> View(w, b)]]

\* A file [bytes, len, bits], with the views of its mode.
Laid(file) == [bytes |-> file.bytes, len |-> file.len, bits |-> file.bits, views |-> Views[file.bits]]

AddrType == [Dos |-> DosHdrAddrType, Optional |-> OptHdrAddrType, Export |-> ExportAddrType, Import |-> ImportAddrType,
             Exception |-> ExceptionAddrType(FALSE), ArmException |-> ExceptionAddrType(TRUE), Debug |-> DebugAddrType,
             TLS |-> TlsAddrType, LdConfig |-> LdConfigAddrType, Delay |-> DelayAddrType, CLR |-> ClrAddrType]

Field(p, w, name) == CHOOSE f \in DOMAIN p.views[w].names : p.views[w].names[f] = name

-----------------------------------------------------------------------------
(* Pointers *)

NtHeaders(p) == Num(p, p.views["Dos"].delta[19], 4)
OptionalAt(p) == NtHeaders(p) + 4 + p.views["File"].size

\* PECore::wrap
HeaderMode(p) == IF Num(p, OptionalAt(p), 2) = 523 THEN 64 ELSE 32
Wrapped(file) == [file EXCEPT !.bits = HeaderMode(Laid(file))]

\* DataDirWrapper: the directories that are declared, at most all there are,
\* and all of them in the file.
DirsCount(p) ==
    LET n == Num(p, OptionalAt(p) + p.views["Optional"].delta[Field(p, "Optional", "NumberOfRvaAndSizes")], 4)
    IN IF n > DirEntriesCount THEN DirEntriesCount ELSE n
DataDirAt(p) == OptionalAt(p) + p.views["Optional"].delta[Field(p, "Optional", "DataDirectory")]

\* getDirEntryAddress
DirAddresses(p) ==
    LET n      == DirsCount(p)
        at     == DataDirAt(p)
        rva(d) == IF d < n /\ InFile(p, at, 8 * n) THEN Num(p, at + 8 * d, 4) ELSE 0
    IN [d \in 0..DirEntriesCount-1 |-> IF rva(d) = 0 THEN NoPtr ELSE rva(d)]

\* The file with everything that is computed from its headers.
Seen(file) ==
    LET p == Laid(file) IN
    [bytes |-> p.bytes, len |-> p.len, bits |-> p.bits, views |-> p.views, dirs |-> DirAddresses(p)]

\* rvaToRaw and toRaw for an RVA or a VA.
ToRaw(p, addr) == IF addr \in 0..MappedSize-1 /\ addr < p.len THEN addr ELSE NoPtr

\* getContentAt for the structure of a directory.
AtRva(p, w) ==
    LET raw == ToRaw(p, p.dirs[Directories[w]]) IN IF InFile(p, raw, p.views[w].size) THEN raw ELSE NoPtr
AtRaw(p, w) ==
    LET raw == p.dirs[Directories[w]] IN IF InFile(p, raw, p.views[w].size) THEN raw ELSE NoPtr

\* PECore::getHdrArch
Machine(p) == Num(p, NtHeaders(p) + 4, 2)
IsIntel(p) == Machine(p) \in {332, 34404}
IsArm64(p) == Machine(p) \in {448, 43620} /\ p.bits = 64

exportDir(p) == AtRva(p, "Export")
firstDescriptor(p) == AtRva(p, "Import")
firstException(p, w) ==
    IF (w = "Exception" /\ IsIntel(p)) \/ (w = "ArmException" /\ IsArm64(p)) THEN AtRva(p, w) ELSE NoPtr
getCert(p) == AtRaw(p, "Security")
getDebugDir(p) == AtRva(p, "Debug")
getTlsDirPtr(p) == AtRva(p, "TLS")
boundImp(p) == AtRva(p, "Bound")
firstDelayLoad(p) == AtRva(p, "Delay")
clrDir(p) == AtRva(p, "CLR")
==============================================================================
