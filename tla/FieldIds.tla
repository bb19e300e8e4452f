------------------------------ MODULE FieldIds ------------------------------
(***************************************************************************)
(* The field ids of the element wrappers, in the order of their            *)
(* enumerations, each named by the member it stands for; the offsets that  *)
(* getFieldPtr adds for them; and the fields that hold addresses. b is the *)
(* bit mode, 32 or 64.                                                     *)
(***************************************************************************)
EXTENDS Layout, Integers

NoPtr == -1   \* NULL, and INVALID_ADDR
Modes == {32, 64}

\* \o with nothing makes TLC evaluate a sequence once.
Names(struct) == <<>> \o [i \in DOMAIN struct |-> struct[i][1]]
SizeOfMembers(struct, n) ==
    LET sum[i \in 0..n] == IF i = 0 THEN 0 ELSE sum[i - 1] + struct[i][2] IN sum[n]
Member(struct, name) == CHOOSE i \in DOMAIN struct : struct[i][1] = name

\* The offsets of members; NoPtr for "", a field without a member.
OffsetsIn(structure, names) ==
    LET struct == <<>> \o structure
    IN <<>> \o [f \in DOMAIN names |->
           IF names[f] = "" THEN NoPtr ELSE SizeOfMembers(struct, Member(struct, names[f]) - 1)]

All(type, names) == [name \in names |-> type]

-----------------------------------------------------------------------------
(* Headers *)

DosFieldId == Names(IMAGE_DOS_HEADER)
DosHdrFieldPtr == OffsetsIn(IMAGE_DOS_HEADER, DosFieldId)
DosHdrAddrType == All("RAW", {"e_lfarlc", "e_lfanew"})

FileHdrFieldID == Names(IMAGE_FILE_HEADER)
FileHdrFieldPtr == OffsetsIn(IMAGE_FILE_HEADER, FileHdrFieldID)

\* OptHdrFID: the members of the 32 bit header; BaseOfData is not in the other.
OptHdrFID == Names(IMAGE_OPTIONAL_HEADER32)
OptHdrFields(b) ==
    <<>> \o [i \in DOMAIN OptHdrFID |-> IF b = 64 /\ OptHdrFID[i] = "BaseOfData" THEN "" ELSE OptHdrFID[i]]
OptHdr(b) == IF b = 64 THEN IMAGE_OPTIONAL_HEADER64 ELSE IMAGE_OPTIONAL_HEADER32
OptHdrFieldPtr(b) == OffsetsIn(OptHdr(b), OptHdrFields(b))
OptHdrAddrType ==
    [name \in {"AddressOfEntryPoint", "BaseOfCode", "BaseOfData", "ImageBase"} |-> IF name = "ImageBase" THEN "VA" ELSE "RVA"]

-----------------------------------------------------------------------------
(* Directories *)

ExportDirFID == Names(IMAGE_EXPORT_DIRECTORY)
ExportFieldPtr == OffsetsIn(IMAGE_EXPORT_DIRECTORY, ExportDirFID)
ExportAddrType == All("RVA", {"Name", "AddressOfFunctions", "AddressOfNames", "AddressOfNameOrdinals"})

ImportFieldID == Names(IMAGE_IMPORT_DESCRIPTOR)
ImportFieldPtr == OffsetsIn(IMAGE_IMPORT_DESCRIPTOR, ImportFieldID)
ImportAddrType == All("RVA", {"OriginalFirstThunk", "Name", "FirstThunk"})

BoundFieldID == Names(IMAGE_BOUND_IMPORT_DESCRIPTOR)
BoundFieldPtr == OffsetsIn(IMAGE_BOUND_IMPORT_DESCRIPTOR, BoundFieldID)

\* The type of an address is detected for each value; an RVA when in doubt.
DelayImpDirFID == Names(IMAGE_DELAY_LOAD)
DelayFieldPtr == OffsetsIn(IMAGE_DELAY_LOAD, DelayImpDirFID)
DelayAddrType == All("RVA", {"szName", "phmod", "pIAT", "pINT", "pBoundIAT", "pUnloadIAT"})

ExceptionBlockFID_Intel == Names(IMAGE_IA64_RUNTIME_FUNCTION_ENTRY)
ExceptionBlockFID_Arm64 == Names(ARM_EXCEPT_RECORD)
ExceptionFieldPtr(arm) ==
    IF arm THEN OffsetsIn(ARM_EXCEPT_RECORD, ExceptionBlockFID_Arm64)
    ELSE OffsetsIn(IMAGE_IA64_RUNTIME_FUNCTION_ENTRY, ExceptionBlockFID_Intel)
ExceptionAddrType(arm) ==
    All("RVA", IF arm THEN {"Start", "Xdata"} ELSE {"BeginAddress", "EndAddress", "UnwindInfoAddress"})

SecurityDirFID == <<"dwLength", "wRevision", "wCertificateType", "bCertificate">>
SecurityFieldPtr == OffsetsIn(WIN_CERTIFICATE, SecurityDirFID)

DebugDirFID == Names(IMAGE_DEBUG_DIRECTORY)
DebugFieldPtr == OffsetsIn(IMAGE_DEBUG_DIRECTORY, DebugDirFID)
DebugAddrType == [AddressOfRawData |-> "RVA", PointerToRawData |-> "RAW"]

\* F_CVDBG_SIGN, F_CVDBG_GUID, F_CVDBG_AGE, F_CVDBG_PDB: the signature of the
\* older format is a time stamp.
CVFieldID == [RSDS |-> <<"dwSig", "guidSig", "age", "szPdb">>,
              NB10 |-> <<"CvSignature", "Signature", "Age", "PdbFileName">>]
CVFieldPtr == [RSDS |-> OffsetsIn(DEBUG_RSDSI, CVFieldID.RSDS), NB10 |-> OffsetsIn(DEBUG_NB10, CVFieldID.NB10)]

TlsDirFID == Names(IMAGE_TLS_DIRECTORY(32))
TlsFieldPtr(b) == OffsetsIn(IMAGE_TLS_DIRECTORY(b), TlsDirFID)
TlsAddrType == All("VA", {"StartAddressOfRawData", "EndAddressOfRawData", "AddressOfIndex", "AddressOfCallBacks"})

ClrFieldID == Names(IMAGE_COR20_HEADER)
ClrFieldPtr == OffsetsIn(IMAGE_COR20_HEADER, ClrFieldID)
ClrAddrType == All("RVA",
    {"MetaData.VirtualAddress", "Resources.VirtualAddress", "StrongNameSignature.VirtualAddress",
     "CodeManagerTable.VirtualAddress", "VTableFixups.VirtualAddress",
     "ExportAddressTableJumps.VirtualAddress", "ManagedNativeHeader.VirtualAddress"})

-----------------------------------------------------------------------------
(* The load configuration *)

LdConfigDirFID == Names(IMAGE_LOAD_CONFIG_DIRECTORY32)

\* Mutant: the two members stand where they are in the 32 bit structure.
LdConfigUnflipped(b) == LdConfigDirFID

\* getField of each mode: "ProcessAffinityMask, ProcessHeapFlags are flipped in
\* the 64 bit structure".
LdConfigFields(b) ==
    LET Flipped(name) == CASE name = "ProcessHeapFlags" -> "ProcessAffinityMask"
                           [] name = "ProcessAffinityMask" -> "ProcessHeapFlags"
                           [] OTHER -> name
    IN <<>> \o [i \in DOMAIN LdConfigDirFID |-> IF b = 64 THEN Flipped(LdConfigDirFID[i]) ELSE LdConfigDirFID[i]]
LdConfigFieldDelta(b) == OffsetsIn(IMAGE_LOAD_CONFIG_DIRECTORY(b), LdConfigFields(b))
LdConfigAddrType == All("VA",
    {"LockPrefixTable", "EditList", "SecurityCookie", "SEHandlerTable", "GuardCFCheckFunctionPointer",
     "GuardCFDispatchFunctionPointer", "GuardCFFunctionTable", "GuardAddressTakenIatEntryTable",
     "GuardLongJumpTargetTable", "DynamicValueRelocTable", "GuardRFFailureRoutine",
     "GuardRFFailureRoutineFunctionPointer", "GuardRFVerifyStackPointerFunctionPointer",
     "EnclaveConfigurationPointer", "VolatileMetadataPointer", "GuardEHContinuationTable"})
=============================================================================
