------------------------------ MODULE Executables ------------------------------
(***************************************************************************)
(* The addresses of an executable, and which executable a file becomes.    *)
(* An executable is a record of what its headers say:                      *)
(*   PE:  base, image, bits, ep; raws, from the RVAs that a section or the *)
(*        headers map to their offsets (module SectionMap computes them);  *)
(*   MZ:  cparhdr, cs, ip, cp, cblp of the DOS header;                     *)
(*   ELF: entry, and the program headers that were found;                  *)
(* and of size, the bytes of its buffer.                                   *)
(***************************************************************************)
EXTENDS Naturals, Sequences, FiniteSetsExt

CONSTANTS
    Width,       \* bits of offset_t
    WordWidth,   \* bits of a WORD
    UnitSize,    \* unit_size of PEFile and ELFFile::getMappedSize
    DosUnit,     \* unit_size of DOSExe::moduleSize
    DOS_PARAGRAPH,
    PhdrSize, ShdrSize, EhdrSize,
    NameRoom     \* the bytes that must follow the begin of a section's name

ASSUME ExecutablesAssumption ==
    /\ Width \in Nat /\ WordWidth \in Nat /\ WordWidth <= Width
    /\ {UnitSize, DosUnit, DOS_PARAGRAPH} \subseteq Nat \ {0}
    /\ {PhdrSize, ShdrSize, EhdrSize, NameRoom} \subseteq Nat \ {0}

Modulus == 2^Width
INVALID_ADDR == Modulus - 1
Word(n) == n % 2^WordWidth
AddrTypes == {"RAW", "RVA", "VA"}

-----------------------------------------------------------------------------
(* ELF *)

Loads(e) == {i \in DOMAIN e.phdrs : e.phdrs[i].load}
Starts(e) == {e.phdrs[i].vaddr : i \in Loads(e)}
\* The end of a segment wraps around.
SegmentEnds(e) == {(e.phdrs[i].vaddr + e.phdrs[i].memsz) % Modulus : i \in Loads(e)}

cacheAlignment(e) == Max({1} \cup {e.phdrs[i].align : i \in Loads(e)})

cacheImageBase(e) ==
    LET bases == {e.phdrs[i].vaddr - e.phdrs[i].offset : i \in {j \in Loads(e) : e.phdrs[j].vaddr >= e.phdrs[j].offset}}
    IN IF bases \ {INVALID_ADDR} = {} THEN 0 ELSE Min(bases)

\* Mutant: the segment that begins last is taken to end last.
SpanOfLast(e) ==
    IF Loads(e) = {} THEN 0
    ELSE LET last == CHOOSE i \in Loads(e) : e.phdrs[i].vaddr = Max(Starts(e))
         IN (e.phdrs[last].vaddr + e.phdrs[last].memsz - Min(Starts(e))) % Modulus

\* From the lowest address of a segment, and not from the image base.
cacheVirtualSize(e) ==
    IF Starts(e) \ {INVALID_ADDR} = {} THEN 0
    ELSE (Max(SegmentEnds(e) \cup {0}) + Modulus - Min(Starts(e))) % Modulus

\* ELFCore::wrap: a header need only begin in the file, one byte is checked.
HeadersBegin(at, n, unit, size) == \A i \in 0..n-1 : (at + i * unit) % Modulus < size
wrapElfHeaders(h, size) ==
    /\ size >= EhdrSize
    /\ HeadersBegin(h.phoff, h.phnum, PhdrSize, size)
    /\ h.shoff # 0 /\ h.shnum # 0 => HeadersBegin(h.shoff, h.shnum, ShdrSize, size)

\* cacheSectionNames, at the end of wrapElfHeaders, takes e_shnum for the number of
\* section headers, but none was loaded when e_shoff is 0: the header of the names
\* is then read outside of shdrs.
ReadsOutsideShdrs(h) == h.shoff = 0 /\ h.shstrndx < h.shnum

\* The names of the sections otherwise: texts says what is read at an offset.
getSectionNameByIndex(h, i, size) ==
    LET nameOffset == (h.strtab + h.names[i]) % Modulus
    IN IF nameOffset < size /\ (nameOffset + NameRoom) % Modulus <= size THEN h.texts[nameOffset] ELSE ""
cacheSectionNames(h, size) ==
    [i \in 1..h.shnum |-> IF h.shstrndx >= h.shnum THEN "Unknown Section" ELSE getSectionNameByIndex(h, i, size)]

-----------------------------------------------------------------------------
(* MZ *)

codeOffset(e) == e.cparhdr * DOS_PARAGRAPH
moduleSize(e) ==
    Word(Word(e.cp * DosUnit) + 2^WordWidth - (IF e.cblp # 0 THEN Word(DosUnit + 2^WordWidth - e.cblp) ELSE 0))

-----------------------------------------------------------------------------
(* The kinds side by side *)

getRawSize(e) == e.size
getMappedSize(e, t) ==
    IF t = "RAW" THEN e.size
    ELSE CASE e.kind = "MZ"  -> (moduleSize(e) + Modulus - codeOffset(e)) % Modulus
           [] e.kind = "PE"  -> Max({UnitSize, e.image})
           [] e.kind = "ELF" -> Max({UnitSize, cacheVirtualSize(e)})

getImageBase(e) == CASE e.kind = "PE" -> e.base [] e.kind = "MZ" -> e.cs [] e.kind = "ELF" -> cacheImageBase(e)

\* ELF: "return 0", for every address.
rvaToRaw(e, rva) ==
    CASE e.kind = "PE"  -> IF rva \in DOMAIN e.raws THEN e.raws[rva] ELSE INVALID_ADDR
      [] e.kind = "MZ"  -> (rva + codeOffset(e)) % Modulus
      [] e.kind = "ELF" -> 0
rawToRva(e, raw) ==
    CASE e.kind = "PE"  -> IF \E v \in DOMAIN e.raws : e.raws[v] = raw
                           THEN CHOOSE v \in DOMAIN e.raws : e.raws[v] = raw ELSE INVALID_ADDR
      [] e.kind = "MZ"  -> IF raw < codeOffset(e) THEN INVALID_ADDR ELSE raw - codeOffset(e)
      [] e.kind = "ELF" -> 0

\* The end of the range wraps around.
isValidAddr(e, addr, t) ==
    LET from == IF t = "VA" THEN getImageBase(e) ELSE 0
    IN addr # INVALID_ADDR /\ addr >= from /\ addr < (from + getMappedSize(e, t)) % Modulus

VaToRva(e, va, autodetect) ==
    IF va = INVALID_ADDR \/ (autodetect /\ ~isValidAddr(e, va, "VA")) \/ va < getImageBase(e) THEN va
    ELSE va - getImageBase(e)

\* A VA that is not in the image is taken for an RVA.
vaToRaw(e, va) == IF va = INVALID_ADDR THEN INVALID_ADDR ELSE rvaToRaw(e, VaToRva(e, va, TRUE))

rvaToVa(e, rva) == IF rva = INVALID_ADDR THEN INVALID_ADDR ELSE (rva + getImageBase(e)) % Modulus

\* Mutant: a virtual address is taken for an RVA.
ConvertUnrebased(e, addr, from, to) ==
    IF ~isValidAddr(e, addr, from) THEN INVALID_ADDR ELSE IF to = "RAW" THEN rvaToRaw(e, addr) ELSE addr

convertAddr(e, addr, from, to) ==
    IF ~isValidAddr(e, addr, from) THEN INVALID_ADDR
    ELSE CASE from = to                  -> addr
           [] from = "VA" /\ to = "RVA"  -> addr - getImageBase(e)
           [] from = "VA" /\ to = "RAW"  -> rvaToRaw(e, addr - getImageBase(e))
           [] from = "RVA" /\ to = "RAW" -> rvaToRaw(e, addr)
           [] from = "RVA" /\ to = "VA"  -> (addr + getImageBase(e)) % Modulus
           [] from = "RAW" /\ to = "RVA" -> rawToRva(e, addr)
           [] from = "RAW" /\ to = "VA"  -> rvaToVa(e, rawToRva(e, addr))

\* Any address to an offset: one below the image base is taken for an RVA.
toRaw(e, addr, t) ==
    IF addr = INVALID_ADDR THEN INVALID_ADDR
    ELSE CASE t = "RAW" -> IF addr >= getRawSize(e) THEN INVALID_ADDR ELSE addr
           [] t = "VA"  -> rvaToRaw(e, VaToRva(e, addr, FALSE))
           [] t = "RVA" -> rvaToRaw(e, addr)

\* The hint, the other kind of virtual address, or "NOT_ADDR".
detectAddrType(e, addr, hint) ==
    LET first == IF hint = "NOT_ADDR" THEN "RVA" ELSE hint
        other == IF first = "RVA" THEN "VA" ELSE "RVA"
    IN IF isValidAddr(e, addr, first) THEN first
       ELSE IF first # "RAW" /\ isValidAddr(e, addr, other) THEN other
       ELSE "NOT_ADDR"

getEntryPoint(e, t) ==
    CASE e.kind = "PE" -> IF t = "RVA" THEN e.ep ELSE convertAddr(e, e.ep, "RVA", t)
      [] e.kind = "MZ" -> (codeOffset(e) + e.ip) % Modulus
      [] e.kind = "ELF" -> e.entry

getAlignment(e) == CASE e.kind = "PE" -> e.align [] e.kind = "MZ" -> 0 [] e.kind = "ELF" -> cacheAlignment(e)

-----------------------------------------------------------------------------
(* ExeFactory: f is the file, n the bytes of the buffer. *)

DosMatches(f, n) == n >= 2 /\ f.magic \in {"MZ", "ZM"}
PEMatches(f, n)  == n >= f.ntEnd /\ f.magic = "MZ" /\ f.nt
ElfMatches(f, n) == n >= 4 /\ f.magic = "ELF"

\* The builders in the order of exe_type: PE, MZ, ELF.
findMatching(f, n) ==
    IF PEMatches(f, n) THEN "PE"
    ELSE IF DosMatches(f, n) THEN "MZ"
    ELSE IF ElfMatches(f, n) THEN "ELF"
    ELSE "NONE"

\* The builder checks the signature again, and gives no executable when the
\* headers are not all there; another builder is not tried.
Builds(f, kind, n) ==
    CASE kind = "PE"  -> PEMatches(f, n) /\ n >= f.headersEnd
      [] kind = "MZ"  -> DosMatches(f, n)
      [] kind = "ELF" -> ElfMatches(f, n) /\ wrapElfHeaders(f.elf, n)

-----------------------------------------------------------------------------
(* Properties, of an executable e *)

\* Executable: what convertAddr gives is what toRaw and vaToRaw give; an RVA that has a VA is
\* got back from it; detectAddrType names a type of which the address is.
AddressesAgreeOf(e) ==
    \A a \in 0..INVALID_ADDR :
        /\ \A t \in AddrTypes :
              /\ LET raw == convertAddr(e, a, t, "RAW") IN raw # INVALID_ADDR => toRaw(e, a, t) = raw
              /\ LET raw == convertAddr(e, a, "VA", "RAW") IN raw # INVALID_ADDR => vaToRaw(e, a) = raw
              /\ LET d == detectAddrType(e, a, t) IN d # "NOT_ADDR" => isValidAddr(e, a, d)
        /\ LET va == convertAddr(e, a, "RVA", "VA") IN
              isValidAddr(e, va, "VA") => convertAddr(e, va, "VA", "RVA") = a

\* ELFCore: when the lowest segment is at the begin of the file and neither a segment
\* nor the page that is mapped at least wraps around, the addresses of every segment
\* are valid.
SegmentsValidOf(e) ==
    LET whole == /\ \A i \in Loads(e) : e.phdrs[i].vaddr + e.phdrs[i].memsz < Modulus
                 /\ Loads(e) # {} /\ cacheImageBase(e) = Min(Starts(e))
                 /\ Min(Starts(e)) + UnitSize < Modulus
    IN whole => \A i \in Loads(e) : \A a \in e.phdrs[i].vaddr .. (e.phdrs[i].vaddr + e.phdrs[i].memsz - 1) :
                    isValidAddr(e, a, "VA")
================================================================================
