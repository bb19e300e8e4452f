------------------------------- MODULE Fields -------------------------------
(***************************************************************************)
(* The fields that element wrappers show of a PE file whose layout depends *)
(* on its own content: the bit mode, the number of data directories, the   *)
(* declared sizes of the load configuration and of the certificate, and    *)
(* the entries of the load configuration's tables. Wrappers hold no copy   *)
(* of a field: they compute a pointer for each call, and the size of a     *)
(* field is the distance to the pointer of the next one.                   *)
(***************************************************************************)
EXTENDS Views, SequencesExt

CONSTANTS
    Files,     \* [bytes, len]: the files that may be opened; their headers fit
    Edits,     \* <<wrapper, member, value>>: calls of setNumValue
    Lengths,   \* arguments of resize; the headers fit
    MaxWraps   \* bound on the number of wraps

ASSUME FieldsAssumption ==
    /\ MaxWraps \in Nat /\ Lengths \subseteq Nat
    /\ \A f \in Files : f.len \in Nat /\ \A o \in DOMAIN f.bytes : f.bytes[o] \in 0..255
    /\ \A e \in Edits : e[1] \in Wrappers /\ e[3] \in Nat

VARIABLES
    file,        \* bytes: the content of the buffer, where it is not zero; len: its length;
                 \* bits: the optional header that PECore found at the last wrap
    sizeOk,      \* SecurityDirWrapper: the certificate fitted at the last wrap
    tables,      \* LdConfigDirWrapper::subEntriesMap
    entries,     \* LdConfigDirWrapper: all its entries
    live,        \* entry wrappers that are not deleted
    wraps        \* history: number of wraps, to tell their entries apart

vars == <<file, sizeOk, tables, entries, live, wraps>>

pe == Seen(file)

-----------------------------------------------------------------------------
(* Pointers and sizes *)

\* LdConfigDirWrapper::getHdrDefinedSize, getSize
HdrDefinedSize(p) ==
    LET raw == ToRaw(p, p.dirs[Directories["LdConfig"]])
    IN IF InFile(p, raw, 4) THEN Num(p, raw, 4) ELSE 0
LdConfigSize(p) ==
    LET rva   == p.dirs[Directories["LdConfig"]]
        total == IF HdrDefinedSize(p) < p.views["LdConfig"].size THEN HdrDefinedSize(p) ELSE p.views["LdConfig"].size
    IN IF rva \in 0..MappedSize-1 /\ rva + total - 1 < MappedSize THEN total ELSE 0
LdConfigPtr(p) ==
    LET raw == ToRaw(p, p.dirs[Directories["LdConfig"]])
    IN IF InFile(p, raw, LdConfigSize(p)) THEN raw ELSE NoPtr

\* The first entry of the debug directory.
CodeViewType == 2
DebugField(p, name) == Num(p, getDebugDir(p) + p.views["Debug"].delta[Field(p, "Debug", name)], 4)
getDebugStruct(p) ==
    IF /\ getDebugDir(p) # NoPtr /\ DebugField(p, "Type") = CodeViewType
       /\ InFile(p, DebugField(p, "PointerToRawData"), DebugField(p, "SizeOfData"))
    THEN DebugField(p, "PointerToRawData") ELSE NoPtr
Signed(p, w, at, signature) ==
    IF /\ at # NoPtr /\ DebugField(p, "SizeOfData") >= p.views[w].size
       /\ Num(p, at, 2) = signature[1] /\ Num(p, at + 2, 2) = signature[2]
    THEN at ELSE NoPtr
\* As two words, the low one first.
CV_SIGNATURE_RSDS == <<21330, 21316>>
CV_SIGNATURE_NB10 == <<16974, 12337>>
getRDSI(p) == Signed(p, "RSDS", getDebugStruct(p), CV_SIGNATURE_RSDS)
getNB10(p) == Signed(p, "NB10", getDebugStruct(p), CV_SIGNATURE_NB10)

\* getPtr
Ptr(p, w) ==
    CASE w = "Dos"        -> 0
      [] w = "File"       -> NtHeaders(p) + 4
      [] w = "Optional"   -> OptionalAt(p)
      [] w = "Export"     -> exportDir(p)
      [] w = "Import"     -> firstDescriptor(p)
      [] w \in {"Exception", "ArmException"} -> firstException(p, w)
      [] w = "Security"   -> getCert(p)
      [] w = "Debug"      -> getDebugDir(p)
      [] w = "TLS"        -> getTlsDirPtr(p)
      [] w = "LdConfig"   -> LdConfigPtr(p)
      [] w = "Bound"      -> boundImp(p)
      [] w = "Delay"      -> firstDelayLoad(p)
      [] w = "CLR"        -> clrDir(p)
      [] w = "RSDS"       -> getRDSI(p)
      [] w = "NB10"       -> getNB10(p)

\* PEFile::getDataDirEntry: a wrapper without a pointer is not given out.
Present(p, w) == Ptr(p, w) # NoPtr

\* Mutant: a field that begins where the directory ends.
BeginsAtEnd(delta, size) == delta <= size

BeginsIn(delta, size) == delta < size

\* LdConfigDirWrapper::getFieldsCount goes back from the last field to the first
\* that begins in the directory. The first field of all is taken unseen, when
\* the second one does not begin behind the end.
LdConfigFieldsCount(p, size) ==
    LET delta == p.views["LdConfig"].delta
        in    == {f \in DOMAIN delta : BeginsIn(delta[f], size)}
        last  == CHOOSE f \in in \cup {0} : \A g \in in : g <= f
    IN IF last > 1 THEN last ELSE IF delta[2] > size THEN 0 ELSE 1

\* getSize, of a wrapper that has this pointer.
Size(p, w, ptr) ==
    CASE w = "LdConfig"   -> LdConfigSize(p)
      [] w = "Security"   -> IF sizeOk THEN Num(p, ptr, 4) ELSE p.views[w].size
      [] w \in CodeViews -> DebugField(p, "SizeOfData")
      [] OTHER            -> p.views[w].size

\* A wrapper for the time of a call; limit: the size that a field has to begin in.
WrapperOf(p, w, ptr, size) ==
    [name  |-> w, ptr |-> ptr, size |-> size,
     count |-> IF w = "LdConfig" THEN LdConfigFieldsCount(p, size) ELSE Len(p.views[w].names),
     limit |-> IF w = "LdConfig" THEN HdrDefinedSize(p) ELSE p.views[w].size]
Wrapper(p, w) == WrapperOf(p, w, Ptr(p, w), Size(p, w, Ptr(p, w)))

\* getFieldPtr. The load configuration adds to the offset of the directory,
\* which is INVALID_ADDR, minus one, when it has no pointer.
FieldPtr(p, wr, f) ==
    LET delta == p.views[wr.name].delta[f]
        at    == wr.ptr + delta
    IN IF delta = NoPtr \/ delta >= wr.limit \/ (wr.name = "LdConfig" /\ ~InFile(p, at, 1)) THEN NoPtr ELSE at

\* ExeElementWrapper::getFieldSize, OptHdrWrapper::getFieldSize
FieldSize(p, wr, f) ==
    LET ptr  == FieldPtr(p, wr, f)
        next == IF f + 1 <= wr.count THEN FieldPtr(p, wr, f + 1) ELSE NoPtr
    IN IF wr.name = "Optional" /\ p.bits = 64 /\ p.views["Optional"].names[f] \in {"BaseOfCode", ""}
       THEN p.views["Optional"].sizes[f]
       ELSE IF f > wr.count THEN wr.size
       ELSE IF ptr = NoPtr THEN 0
       ELSE IF next = NoPtr THEN wr.ptr + wr.size - ptr
       ELSE IF next < ptr THEN 0 ELSE next - ptr

\* getNumValue: the value, or NoNum when it is not ok.
NumValue(p, wr, name) ==
    LET f    == Field(p, wr.name, name)
        size == FieldSize(p, wr, f)
        at   == FieldPtr(p, wr, f)
    IN IF size \in NumSizes /\ InFile(p, at, size) THEN Num(p, at, size) ELSE NoNum

-----------------------------------------------------------------------------
(* The tables of the load configuration *)

\* The fields that hold the address and the count, in the order they are loaded.
Tables == <<
    <<"SEHandlerTable", "SEHandlerCount">>,
    <<"GuardCFFunctionTable", "GuardCFFunctionCount">>,
    <<"GuardLongJumpTargetTable", "GuardLongJumpTargetCount">>,
    <<"GuardAddressTakenIatEntryTable", "GuardAddressTakenIatEntryCount">>,
    <<"GuardEHContinuationTable", "GuardEHContinuationCount">> >>

\* metadataSize: the high four bits, when one of two flags is set.
SuppressionInfo == 2^14
SizeShift == 2^28
HasBit(n, bit) == (n \div bit) % 2 = 1
MetadataSize(p, wr) ==
    LET flags == NumValue(p, wr, "GuardFlags")
    IN IF flags # NoNum /\ (HasBit(flags, SuppressionInfo) \/ HasBit(flags, SizeShift))
       THEN flags \div SizeShift ELSE 0

\* firstSubEntryPtr, firstSubEntrySize: SEH entries have no metadata.
Table(p, wr, t) ==
    [first |-> ToRaw(p, NumValue(p, wr, Tables[t][1])),
     size  |-> IF t = 1 THEN 4 ELSE 4 + MetadataSize(p, wr)]

\* LdConfigEntryWrapper::getPtr
EntryPtr(p, table, nr) ==
    LET at == table.first + nr * table.size
    IN IF InFile(p, table.first, table.size) /\ InFile(p, at, table.size) THEN at ELSE NoPtr

\* wrapSubentriesTable: up to the count, or to the first entry without a pointer.
EntriesLoaded(p, wr, t) ==
    LET count == NumValue(p, wr, Tables[t][2])
        table == Table(p, wr, t)
    IN IF wr.ptr = NoPtr \/ count = NoNum THEN 0
       ELSE CHOOSE n \in 0..count :
              /\ n < count => EntryPtr(p, table, n) = NoPtr
              /\ \A nr \in 0..n-1 : EntryPtr(p, table, nr) # NoPtr

-----------------------------------------------------------------------------
(* Operations *)

EntryWrappers(p, wr) ==
    <<>> \o [t \in DOMAIN Tables |->
             [i \in 1..EntriesLoaded(p, wr, t) |-> [made |-> wraps, table |-> t, nr |-> i - 1]]]

\* Mutant: the lists of the tables are not emptied.
ClearEntriesOnly(old) == old

\* LdConfigDirWrapper::clear
ClearTables(old) == [t \in DOMAIN old |-> <<>>]

\* Mutant: only the structure has to fit.
CertificateBegins(p) == Present(p, "Security")

\* SecurityDirWrapper::wrap: the length of the content is the declared length
\* less ten, and below zero it wraps around the offset that is added to it.
FieldsOfCertificate == 10
CertificateFits(p) ==
    Present(p, "Security") /\ \E cert \in {Ptr(p, "Security")} :
        LET at == cert + p.views["Security"].delta[4]
            n  == Num(p, cert, 4) - FieldsOfCertificate
        IN at < p.len /\ n # 0 /\ at + n \in 0..p.len

\* PEFile::wrap of a buffer: the core, and the wrappers that keep something of it.
Wrap(bytes, len) ==
    \E opened \in {Wrapped([bytes |-> bytes, len |-> len, bits |-> 32])} : \E p \in {Seen(opened)} :
    \E wr \in {Wrapper(p, "LdConfig")} : \E loaded \in {EntryWrappers(p, wr)} :
       /\ file' = opened
       /\ wraps < MaxWraps /\ wraps' = wraps + 1
       /\ sizeOk' = CertificateFits(p)
       /\ \E kept \in {ClearTables(tables)} : tables' = [t \in DOMAIN Tables |-> kept[t] \o loaded[t]]
       /\ entries' = FlattenSeq(loaded)
       /\ live' = (live \ Range(entries)) \cup Range(FlattenSeq(loaded))

\* The PEFile constructor, and wrap.
Rewrap == Wrap(file.bytes, file.len)

\* PEFile::resize
Resize(n) ==
    /\ wraps > 0
    /\ Wrap(Cut(file.bytes, n), n)

\* ExeElementWrapper::setNumValue, on a wrapper that getDataDirEntry gives out.
\* Nothing is wrapped.
SetNumValue(w, name, v) ==
    /\ wraps > 0
    /\ \E p \in {pe} : \E wr \in {Wrapper(p, w)} : \E f \in DOMAIN p.views[w].names :
          /\ p.views[w].names[f] = name /\ wr.ptr # NoPtr
          /\ NumValue(p, wr, name) \notin {NoNum, v}
          /\ file' = [file EXCEPT !.bytes = Written(@, FieldPtr(p, wr, f), FieldSize(p, wr, f), v)]
    /\ UNCHANGED <<sizeOk, tables, entries, live, wraps>>

\* The buffer was read; nothing is wrapped yet.
Init ==
    /\ \E f \in Files : file = [bytes |-> f.bytes, len |-> f.len, bits |-> 32]
    /\ wraps = 0 /\ sizeOk = FALSE
    /\ tables = [t \in DOMAIN Tables |-> <<>>] /\ entries = <<>> /\ live = {}

Next ==
    \/ Rewrap
    \/ \E n \in Lengths : Resize(n)
    \/ \E e \in Edits : SetNumValue(e[1], e[2], e[3])

Spec == Init /\ [][Next]_vars

-----------------------------------------------------------------------------
(* Properties *)

\* ExeElementWrapper::getFieldSize: a field is shown with the bytes of its own
\* member, in both bit modes and for every declared size. Exceptions are the
\* last field of a declared size that cuts it, the last field of all, which
\* takes what follows, and the signature of NB10, which takes the member that
\* is not shown. A field that is followed as an address is as wide as one.
FieldsCoverMembers ==
    wraps > 0 => \A p \in {pe} : \A w \in Wrappers : \A wr \in {Wrapper(p, w)} :
        wr.ptr # NoPtr => \A f \in 1..wr.count :
            LET name == p.views[w].names[f]
                size == p.views[w].sizes[f]
            IN /\ \/ FieldSize(p, wr, f) \in {size} \cup (IF FieldPtr(p, wr, f) = NoPtr THEN {0} ELSE {})
                  \/ w = "NB10" /\ f = 1
                  \/ f = wr.count /\ w \in {"LdConfig", "Security"} \cup CodeViews
               /\ w \in DOMAIN AddrType /\ name \in DOMAIN AddrType[w] =>
                    size = CASE AddrType[w][name] = "VA"         -> Wide(p.bits)
                             [] w = "Dos" /\ name = "e_lfarlc" -> 2
                             [] OTHER                            -> 4

\* LdConfigDirWrapper::getFieldsCount: the fields that are listed are those that
\* begin in the declared size, when the size itself is there.
ListedAreDeclared ==
    wraps > 0 => \A p \in {pe} : \A wr \in {Wrapper(p, "LdConfig")} :
        wr.ptr # NoPtr =>
            LET delta == p.views["LdConfig"].delta
            IN 1..wr.count = IF wr.size < 4 THEN {} ELSE {f \in DOMAIN delta : delta[f] < wr.size}

\* clear, getSubfieldWrapper: after any number of wraps the entries given out for
\* the tables are all the entries there are, and none that was deleted.
TablesOwnEntries ==
    /\ FlattenSeq(tables) = entries
    /\ Range(entries) = live /\ Cardinality(live) = Len(entries)

\* SecurityDirWrapper::wrap: a certificate that is taken for whole ends at most
\* two bytes behind the file, until it is edited.
EndsInFile(p) == \A cert \in {Ptr(p, "Security")} : cert + Num(p, cert, 4) <= p.len + 2
CertificateInFile == [][wraps' # wraps => (sizeOk => \A p \in {pe} : EndsInFile(p))']_vars
=============================================================================
