------------------------------ MODULE SectionMap ------------------------------
(***************************************************************************)
(* The address arithmetic of the section headers of a PE file: where the   *)
(* content of a section starts, how much of it is mapped on disk and in    *)
(* memory (SectionHdrWrapper), the two ordered maps that find a section by *)
(* an address (SectHdrsWrapper: rSec and vSec, both keyed by the END of a  *)
(* section), and the conversions between file offsets and RVAs built on    *)
(* them (PEFile::rawToRva, PEFile::rvaToRaw).                              *)
(*                                                                         *)
(* Everything here is a function of an "image": the record                 *)
(*   tbl   header slots, a function from slot numbers to headers           *)
(*   n     how many of them are loaded (SectHdrsWrapper::entries)          *)
(*   fs    size of the file buffer                                         *)
(*   img   SizeOfImage of the optional header                              *)
(* A header is [rp, rs, va, vs]: PointerToRawData, SizeOfRawData,          *)
(* VirtualAddress, VirtualSize. Sections are numbered from 1 and 0 stands  *)
(* for a NULL SectionHdrWrapper.                                           *)
(***************************************************************************)
EXTENDS Integers
LOCAL INSTANCE FiniteSetsExt

CONSTANTS
    FileAlign,   \* OptionalHeader.FileAlignment, zero in a malformed file
    SectAlign,   \* OptionalHeader.SectionAlignment
    MinImage,    \* the smallest mapped size, 0x1000 in PEFile::getMappedSize
    HdrsSize     \* OptionalHeader.SizeOfHeaders

ASSUME LayoutAssumption ==
    /\ FileAlign \in Nat /\ SectAlign \in Nat
    /\ MinImage \in Nat \ {0} /\ HdrsSize \in Nat

NoAddr == -1     \* INVALID_ADDR
NoSec == 0       \* NULL

Header == [rp : Nat, rs : Nat, va : Nat, vs : Nat]

Least(a, b) == IF a < b THEN a ELSE b
Greatest(a, b) == IF a > b THEN a ELSE b

\* Rounds size up to a multiple of unit; an invalid unit gives 0.
RoundUp(size, unit) ==
    IF unit = 0 THEN 0
    ELSE LET units == size \div unit IN
         IF units * unit < size THEN (units + 1) * unit ELSE units * unit

\* The same as the wrappers use it: no rounding when the unit is 0.
Align(size, unit) == IF unit = 0 THEN size ELSE RoundUp(size, unit)

\* RAW is the size of the buffer; VA and RVA are SizeOfImage, one page at least.
MappedSize(img) == Greatest(img, MinImage)

-----------------------------------------------------------------------------
(* One section header *)

\* Start of the raw content: rounded down to FileAlignment unless that gives
\* offset 0, and invalid when it lies behind the end of the file.
RawStart(im, i) ==
    LET rp      == im.tbl[i].rp
        down    == IF FileAlign = 0 THEN 0 ELSE (rp \div FileAlign) * FileAlign
        start   == IF down # 0 THEN down ELSE rp
    IN IF start > im.fs THEN NoAddr ELSE start

VirtStart(im, i) == im.tbl[i].va

\* A zero VirtualSize means "as large as the raw data".
DeclaredVirtual(h) == IF h.vs = 0 THEN h.rs ELSE h.vs

\* Bytes of the file that the section really maps.
MappedRaw(im, i) ==
    LET h     == im.tbl[i]
        start == RawStart(im, i)
        dv    == DeclaredVirtual(h)
        want  == Align(Least(h.rs, dv), FileAlign)
    IN IF start = NoAddr \/ h.rs = 0 THEN 0
       ELSE IF start + want <= im.fs THEN want
       ELSE Least(im.fs - start, Align(dv, SectAlign))

\* Bytes of memory that the section really maps, given the set of sections
\* that are loaded already: the size is trimmed to the next of them, and to
\* the image.
MappedVirtual(im, i, known) ==
    LET h     == im.tbl[i]
        full  == h.va + Align(Greatest(DeclaredVirtual(h), MappedRaw(im, i)), SectAlign)
        nexts == {im.tbl[j].va : j \in {k \in known : im.tbl[k].va > h.va /\ im.tbl[k].va < full}}
        end   == IF nexts = {} THEN full ELSE Min(nexts)
    IN IF MappedSize(im.img) < h.va THEN 0
       ELSE Least(end, MappedSize(im.img)) - h.va

-----------------------------------------------------------------------------
(* The ordered maps *)

EmptyMaps == [r |-> <<>>, v |-> <<>>]

Put(f, key, sec) == [k \in DOMAIN f \cup {key} |-> IF k = key THEN sec ELSE f[k]]

\* SectHdrsWrapper::addMapping. When two sections end at the same address the
\* one with the lower start is to be kept. The look-up of the previous section
\* in vSec uses the raw end as its key, and operator[] inserts a NULL there.
AddMapping(maps, im, i, known) ==
    LET rEnd   == RawStart(im, i) + MappedRaw(im, i)
        vEnd   == VirtStart(im, i) + MappedVirtual(im, i, known)
        probed == IF rEnd \in DOMAIN maps.v THEN maps.v ELSE Put(maps.v, rEnd, NoSec)
        prevV  == probed[rEnd]
    IN IF MappedRaw(im, i) = 0 THEN maps
       ELSE IF rEnd \in DOMAIN maps.r /\ RawStart(im, maps.r[rEnd]) < RawStart(im, i) THEN maps
       ELSE IF vEnd \notin DOMAIN maps.v
            THEN [r |-> Put(maps.r, rEnd, i), v |-> Put(maps.v, vEnd, i)]
       ELSE IF prevV = NoSec \/ VirtStart(im, prevV) < VirtStart(im, i)
            THEN [maps EXCEPT !.v = probed]
       ELSE [r |-> Put(maps.r, rEnd, i), v |-> Put(probed, vEnd, i)]

\* Which sections trim the k-th one while the maps are built:
\*   "first"   the PEFile constructor: PEFile::sects is still NULL, so none
\*   "rewrap"  SectHdrsWrapper::wrap: the sections loaded up to then
\*   "reload"  SectHdrsWrapper::reloadMapping: all of them
Known(mode, k, n) ==
    CASE mode = "first"  -> {}
      [] mode = "rewrap" -> 1..k
      [] mode = "reload" -> 1..n

Maps(im, mode) ==
    LET build[k \in 0..im.n] ==
          IF k = 0 THEN EmptyMaps
          ELSE AddMapping(build[k-1], im, k, Known(mode, k, im.n))
    IN build[im.n]

-----------------------------------------------------------------------------
(* Look-up and conversion *)

\* SectHdrsWrapper::getSecHdrAtOffset: from lower_bound(addr) upwards; the walk
\* ends at the first section that holds addr, or that starts behind it.
Find(map, addr, Start(_), Size(_)) ==
    LET Holds(s) == Start(s) <= addr /\ addr < Start(s) + Size(s)
        ends  == {k \in DOMAIN map : /\ k >= addr /\ map[k] # NoSec
                                     /\ Start(map[k]) # NoAddr
                                     /\ Holds(map[k]) \/ addr < Start(map[k])}
    IN IF ends = {} \/ ~Holds(map[Min(ends)]) THEN NoSec ELSE map[Min(ends)]

FindRaw(maps, im, raw) ==
    LET Start(s) == RawStart(im, s)
        Size(s)  == MappedRaw(im, s)
    IN Find(maps.r, raw, Start, Size)

FindVirtual(maps, im, rva) ==
    LET Start(s) == VirtStart(im, s)
        Size(s)  == MappedVirtual(im, s, 1..im.n)
    IN Find(maps.v, rva, Start, Size)

RawToRva(maps, im, raw) ==
    LET s == FindRaw(maps, im, raw)
        curr == raw - RawStart(im, s)
    IN IF raw >= im.fs THEN NoAddr
       ELSE IF s # NoSec
            THEN IF curr >= MappedVirtual(im, s, 1..im.n) THEN NoAddr ELSE VirtStart(im, s) + curr
       ELSE IF im.n = 0 \/ raw < HdrsSize THEN raw
       ELSE NoAddr

\* Mutant: the virtual tail of a section is not told from its raw content.
RvaToRawNoCave(maps, im, rva) ==
    LET s == FindVirtual(maps, im, rva)
    IN IF rva >= MappedSize(im.img) THEN NoAddr
       ELSE IF s # NoSec
            THEN IF RawStart(im, s) = NoAddr THEN NoAddr ELSE RawStart(im, s) + (rva - VirtStart(im, s))
       ELSE IF rva >= im.fs \/ (im.n > 0 /\ rva >= HdrsSize) THEN NoAddr
       ELSE rva

RvaToRaw(maps, im, rva) ==
    LET s == FindVirtual(maps, im, rva)
        curr == rva - VirtStart(im, s)
    IN IF rva >= MappedSize(im.img) THEN NoAddr
       ELSE IF s # NoSec
            THEN IF RawStart(im, s) = NoAddr \/ curr >= MappedRaw(im, s) THEN NoAddr
                 ELSE RawStart(im, s) + curr
       ELSE IF rva >= im.fs \/ (im.n > 0 /\ rva >= HdrsSize) THEN NoAddr
       ELSE rva
=============================================================================
