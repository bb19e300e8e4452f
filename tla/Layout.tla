------------------------------- MODULE Layout -------------------------------
(***************************************************************************)
(* The C structures of a PE file and the fields that the wrappers show of  *)
(* them. A structure is a sequence of members, <<name, size>>, without     *)
(* gaps; a wrapper is a sequence of names: the member that getFieldPtr     *)
(* points to for each field id, "" for a NULL pointer. bits is 32 or 64.   *)
(***************************************************************************)
EXTENDS Naturals, Sequences

Of(size, names) == [i \in 1..Len(names) |-> <<names[i], size>>]
Wide(bits) == IF bits = 64 THEN 8 ELSE 4

-----------------------------------------------------------------------------
(* Headers *)

IMAGE_DOS_HEADER ==
    Of(2, <<"e_magic", "e_cblp", "e_cp", "e_crlc", "e_cparhdr", "e_minalloc", "e_maxalloc",
            "e_ss", "e_sp", "e_csum", "e_ip", "e_cs", "e_lfarlc", "e_ovno">>)
    \o Of(8, <<"e_res">>) \o Of(2, <<"e_oemid", "e_oeminfo">>) \o Of(20, <<"e_res2">>) \o Of(4, <<"e_lfanew">>)

IMAGE_FILE_HEADER ==
    Of(2, <<"Machine", "NumberOfSections">>)
    \o Of(4, <<"TimeDateStamp", "PointerToSymbolTable", "NumberOfSymbols">>)
    \o Of(2, <<"SizeOfOptionalHeader", "Characteristics">>)

OptionalBegin ==
    Of(2, <<"Magic">>) \o Of(1, <<"MajorLinkerVersion", "MinorLinkerVersion">>)
    \o Of(4, <<"SizeOfCode", "SizeOfInitializedData", "SizeOfUninitializedData", "AddressOfEntryPoint", "BaseOfCode">>)
OptionalMiddle ==
    Of(4, <<"SectionAlignment", "FileAlignment">>)
    \o Of(2, <<"MajorOperatingSystemVersion", "MinorOperatingSystemVersion", "MajorImageVersion",
               "MinorImageVersion", "MajorSubsystemVersion", "MinorSubsystemVersion">>)
    \o Of(4, <<"Win32VersionValue", "SizeOfImage", "SizeOfHeaders", "CheckSum">>)
    \o Of(2, <<"Subsystem", "DllCharacteristics">>)
StackAndHeap == <<"SizeOfStackReserve", "SizeOfStackCommit", "SizeOfHeapReserve", "SizeOfHeapCommit">>
OptionalEnd == Of(4, <<"LoaderFlags", "NumberOfRvaAndSizes">>) \o Of(128, <<"DataDirectory">>)

IMAGE_OPTIONAL_HEADER32 ==
    OptionalBegin \o Of(4, <<"BaseOfData", "ImageBase">>) \o OptionalMiddle \o Of(4, StackAndHeap) \o OptionalEnd
IMAGE_OPTIONAL_HEADER64 ==
    OptionalBegin \o Of(8, <<"ImageBase">>) \o OptionalMiddle \o Of(8, StackAndHeap) \o OptionalEnd

IMAGE_SECTION_HEADER ==
    Of(8, <<"Name">>)
    \o Of(4, <<"Misc", "VirtualAddress", "SizeOfRawData", "PointerToRawData", "PointerToRelocations", "PointerToLinenumbers">>)
    \o Of(2, <<"NumberOfRelocations", "NumberOfLinenumbers">>) \o Of(4, <<"Characteristics">>)

-----------------------------------------------------------------------------
(* Directories *)

IMAGE_EXPORT_DIRECTORY ==
    Of(4, <<"Characteristics", "TimeDateStamp">>) \o Of(2, <<"MajorVersion", "MinorVersion">>)
    \o Of(4, <<"Name", "Base", "NumberOfFunctions", "NumberOfNames",
               "AddressOfFunctions", "AddressOfNames", "AddressOfNameOrdinals">>)

IMAGE_IMPORT_DESCRIPTOR ==
    Of(4, <<"OriginalFirstThunk", "TimeDateStamp", "ForwarderChain", "Name", "FirstThunk">>)

IMAGE_BOUND_IMPORT_DESCRIPTOR ==
    Of(4, <<"TimeDateStamp">>) \o Of(2, <<"OffsetModuleName", "NumberOfModuleForwarderRefs">>)

IMAGE_DELAY_LOAD ==
    Of(4, <<"grAttrs", "szName", "phmod", "pIAT", "pINT", "pBoundIAT", "pUnloadIAT", "dwTimestamp">>)

IMAGE_RESOURCE_DIRECTORY ==
    Of(4, <<"Characteristics", "TimeDateStamp">>)
    \o Of(2, <<"MajorVersion", "MinorVersion", "NumberOfNamedEntries", "NumberOfIdEntries">>)
IMAGE_RESOURCE_DATA_ENTRY == Of(4, <<"OffsetToData", "Size", "CodePage", "Reserved">>)

IMAGE_IA64_RUNTIME_FUNCTION_ENTRY == Of(4, <<"BeginAddress", "EndAddress", "UnwindInfoAddress">>)
ARM_EXCEPT_RECORD == Of(4, <<"Start", "Xdata">>)
IMAGE_BASE_RELOCATION == Of(4, <<"VirtualAddress", "SizeOfBlock">>)

\* 4 byte packing: three bytes follow the first of the certificate.
WIN_CERTIFICATE ==
    Of(4, <<"dwLength">>) \o Of(2, <<"wRevision", "wCertificateType">>) \o Of(1, <<"bCertificate", "", "", "">>)

IMAGE_DEBUG_DIRECTORY ==
    Of(4, <<"Characteristics", "TimeDateStamp">>) \o Of(2, <<"MajorVersion", "MinorVersion">>)
    \o Of(4, <<"Type", "SizeOfData", "AddressOfRawData", "PointerToRawData">>)
DEBUG_RSDSI == Of(4, <<"dwSig">>) \o Of(16, <<"guidSig">>) \o Of(4, <<"age">>) \o Of(1, <<"szPdb">>)
DEBUG_NB10 == Of(4, <<"CvSignature", "Offset", "Signature", "Age">>) \o Of(1, <<"PdbFileName">>)

IMAGE_TLS_DIRECTORY(bits) ==
    Of(Wide(bits), <<"StartAddressOfRawData", "EndAddressOfRawData", "AddressOfIndex", "AddressOfCallBacks">>)
    \o Of(4, <<"SizeOfZeroFill", "Characteristics">>)

IMAGE_COR20_HEADER ==
    Of(4, <<"cb">>) \o Of(2, <<"MajorRuntimeVersion", "MinorRuntimeVersion">>)
    \o Of(4, <<"MetaData.VirtualAddress", "MetaData.Size", "Flags", "EntryPointRVA",
               "Resources.VirtualAddress", "Resources.Size",
               "StrongNameSignature.VirtualAddress", "StrongNameSignature.Size",
               "CodeManagerTable.VirtualAddress", "CodeManagerTable.Size",
               "VTableFixups.VirtualAddress", "VTableFixups.Size",
               "ExportAddressTableJumps.VirtualAddress", "ExportAddressTableJumps.Size",
               "ManagedNativeHeader.VirtualAddress", "ManagedNativeHeader.Size">>)

LoadConfigBegin ==
    Of(4, <<"Size", "TimeDateStamp">>) \o Of(2, <<"MajorVersion", "MinorVersion">>)
    \o Of(4, <<"GlobalFlagsClear", "GlobalFlagsSet", "CriticalSectionDefaultTimeout">>)
LoadConfigLimits ==
    <<"DeCommitFreeBlockThreshold", "DeCommitTotalFreeThreshold", "LockPrefixTable", "MaximumAllocationSize", "VirtualMemoryThreshold">>
LoadConfigEnd(bits) ==
    Of(2, <<"CSDVersion", "DependentLoadFlags">>)
    \o Of(Wide(bits), <<"EditList", "SecurityCookie", "SEHandlerTable", "SEHandlerCount",
          "GuardCFCheckFunctionPointer", "GuardCFDispatchFunctionPointer", "GuardCFFunctionTable", "GuardCFFunctionCount">>)
    \o Of(4, <<"GuardFlags">>)
    \o Of(2, <<"CodeIntegrity.Flags", "CodeIntegrity.Catalog">>) \o Of(4, <<"CodeIntegrity.CatalogOffset", "CodeIntegrity.Reserved">>)
    \o Of(Wide(bits), <<"GuardAddressTakenIatEntryTable", "GuardAddressTakenIatEntryCount", "GuardLongJumpTargetTable",
          "GuardLongJumpTargetCount", "DynamicValueRelocTable", "CHPEMetadataPointer", "GuardRFFailureRoutine",
          "GuardRFFailureRoutineFunctionPointer">>)
    \o Of(4, <<"DynamicValueRelocTableOffset">>) \o Of(2, <<"DynamicValueRelocTableSection", "Reserved2">>)
    \o Of(Wide(bits), <<"GuardRFVerifyStackPointerFunctionPointer">>) \o Of(4, <<"HotPatchTableOffset", "Reserved3">>)
    \o Of(Wide(bits), <<"EnclaveConfigurationPointer", "VolatileMetadataPointer",
          "GuardEHContinuationTable", "GuardEHContinuationCount">>)

IMAGE_LOAD_CONFIG_DIRECTORY32 ==
    LoadConfigBegin \o Of(4, LoadConfigLimits) \o Of(4, <<"ProcessHeapFlags", "ProcessAffinityMask">>) \o LoadConfigEnd(32)
IMAGE_LOAD_CONFIG_DIRECTORY64 ==
    LoadConfigBegin \o Of(8, LoadConfigLimits) \o Of(8, <<"ProcessAffinityMask">>) \o Of(4, <<"ProcessHeapFlags">>)
    \o LoadConfigEnd(64)
IMAGE_LOAD_CONFIG_DIRECTORY(bits) ==
    IF bits = 64 THEN IMAGE_LOAD_CONFIG_DIRECTORY64 ELSE IMAGE_LOAD_CONFIG_DIRECTORY32
=============================================================================
