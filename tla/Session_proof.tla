----------------------------- MODULE Session_proof -----------------------------
(***************************************************************************)
(* Proofs about Session, for any files, any input and offsets of any       *)
(* width: the conversions of addresses agree for every kind of executable, *)
(* and after a failed read no command is executed again.                   *)
(***************************************************************************)
EXTENDS Session, FiniteSetTheorems, WellFoundedInduction, TLAPS

Kinds == {"PE", "MZ", "ELF"}
Addr == 0..INVALID_ADDR

\* What the headers of an executable say fits their fields.
HeadersTyped(e) ==
    /\ {"kind", "size"} \subseteq DOMAIN e /\ e.kind \in Kinds /\ e.size \in Nat
    /\ e.kind = "PE" => {"base", "image"} \subseteq DOMAIN e /\ e.base \in Addr /\ e.image \in Nat
    /\ e.kind = "MZ" => {"cparhdr", "cs", "cp", "cblp"} \subseteq DOMAIN e
                        /\ e.cs \in Addr /\ {e.cparhdr, e.cp, e.cblp} \subseteq Nat
    /\ e.kind = "ELF" => /\ "phdrs" \in DOMAIN e
                         /\ \A i \in DOMAIN e.phdrs : /\ e.phdrs[i].vaddr \in Addr /\ e.phdrs[i].offset \in Addr
                                                      /\ e.phdrs[i].memsz \in Nat

-----------------------------------------------------------------------------
(* Numbers *)

LEMMA PowerOfTwo ==
    ASSUME NEW n \in Nat
    PROVE  2^n \in Nat \ {0}
<1>1. IsFiniteSet(1..n) /\ Cardinality(1..n) = n
  BY FS_Interval
<1>2. IsFiniteSet(SUBSET (1..n)) /\ Cardinality(SUBSET (1..n)) = 2^n
  BY <1>1, FS_SUBSET
<1>3. {} \in SUBSET (1..n)
  OBVIOUS
<1>4. Cardinality(SUBSET (1..n)) \in Nat /\ Cardinality(SUBSET (1..n)) # 0
  BY <1>2, <1>3, FS_CardinalityType, FS_EmptySet
<1> QED
  BY <1>2, <1>4

LEMMA ModulusPositive == Modulus \in Nat \ {0} /\ 2^WordWidth \in Nat \ {0} /\ INVALID_ADDR \in Nat
  BY PowerOfTwo, ExecutablesAssumption DEF Modulus, INVALID_ADDR

LEMMA LeastMember ==
    ASSUME NEW T, T \subseteq Nat, T # {}
    PROVE  \E m \in T : \A k \in T : m <= k
<1> DEFINE R == {ss \in Nat \X Nat : ss[1] < ss[2]}
<1>1. R = OpToRel(<, Nat)
  BY DEF OpToRel
<1>2. IsWellFoundedOn(R, Nat)
  BY <1>1, NatLessThanWellFounded
<1> HIDE DEF R
<1>3. PICK m \in T : \A k \in T : ~(<<k, m>> \in R)
  BY <1>2, WFMin
<1>4. ASSUME NEW k \in T
      PROVE  m <= k
  <2>1. k \in Nat /\ m \in Nat
    OBVIOUS
  <2>2. ~(k < m)
    BY <1>3, <2>1 DEF R
  <2> QED
    BY <2>1, <2>2
<1> QED
  BY <1>4

LEMMA MinIs ==
    ASSUME NEW T, T \subseteq Nat, T # {}
    PROVE  Min(T) \in T /\ \A k \in T : Min(T) <= k
<1>1. \E m \in T : \A k \in T : m <= k
  BY LeastMember
<1> QED
  BY <1>1 DEF Min

\* A set of numbers that has an upper bound has a largest member.
LEMMA MaxIs ==
    ASSUME NEW T, T \subseteq Nat, T # {}, NEW b \in Nat, \A k \in T : k <= b
    PROVE  Max(T) \in T /\ \A k \in T : k <= Max(T)
<1> DEFINE below == {b - k : k \in T}
<1>1. below \subseteq Nat /\ below # {}
  <2>1. ASSUME NEW k \in T
        PROVE  b - k \in Nat
    <3>1. k \in Nat /\ k <= b
      OBVIOUS
    <3> QED
      BY <3>1
  <2>2. PICK k \in T : TRUE
    OBVIOUS
  <2>3. b - k \in below
    BY <2>2
  <2> QED
    BY <2>1, <2>3
<1> HIDE DEF below
<1>2. PICK d \in below : \A c \in below : d <= c
  BY <1>1, LeastMember
<1>3. PICK m \in T : d = b - m
  BY DEF below
<1>4. \A k \in T : k <= m
  <2> SUFFICES ASSUME NEW k \in T
               PROVE  k <= m
    OBVIOUS
  <2>1. d <= b - k
    BY <1>2 DEF below
  <2>2. k \in Nat /\ m \in Nat
    OBVIOUS
  <2> QED
    BY <1>3, <2>1, <2>2
<1>5. \E x \in T : \A k \in T : x >= k
  <2>1. \A k \in T : m >= k
    BY <1>4
  <2> QED
    BY <2>1
<1>6. Max(T) \in T /\ \A k \in T : Max(T) >= k
  BY <1>5 DEF Max
<1> QED
  BY <1>6

-----------------------------------------------------------------------------
(* Images *)

LEMMA SpanTyped ==
    ASSUME NEW e, HeadersTyped(e), e.kind = "ELF"
    PROVE  /\ Starts(e) \subseteq Addr /\ SegmentEnds(e) \subseteq Addr
           /\ cacheVirtualSize(e) \in Nat /\ cacheImageBase(e) \in Addr
<1> USE ModulusPositive
<1>1. Starts(e) \subseteq Addr /\ \A i \in Loads(e) : e.phdrs[i].vaddr \in Nat /\ e.phdrs[i].offset \in Nat /\ e.phdrs[i].memsz \in Nat
  BY DEF HeadersTyped, Starts, Loads, Addr
<1>2. SegmentEnds(e) \subseteq Addr
  <2> SUFFICES ASSUME NEW i \in Loads(e)
               PROVE  (e.phdrs[i].vaddr + e.phdrs[i].memsz) % Modulus \in Addr
    BY DEF SegmentEnds
  <2>1. e.phdrs[i].vaddr + e.phdrs[i].memsz \in Nat
    BY <1>1
  <2> HIDE DEF Modulus
  <2> QED
    BY <2>1 DEF Addr, INVALID_ADDR
<1>3. cacheVirtualSize(e) \in Nat
  <2>1. CASE Starts(e) \ {INVALID_ADDR} = {}
    BY <2>1 DEF cacheVirtualSize
  <2>2. CASE Starts(e) \ {INVALID_ADDR} # {}
    <3>1. Min(Starts(e)) \in Nat
      BY <1>1, <2>2, MinIs DEF Addr
    <3>2. Max(SegmentEnds(e) \cup {0}) \in Nat
      <4>1. SegmentEnds(e) \cup {0} \subseteq Nat /\ \A k \in SegmentEnds(e) \cup {0} : k <= INVALID_ADDR
        BY <1>2 DEF Addr
      <4> QED
        BY <4>1, MaxIs
    <3> HIDE DEF Modulus
    <3> QED
      BY <2>2, <3>1, <3>2 DEF cacheVirtualSize
  <2> QED
    BY <2>1, <2>2
<1>4. cacheImageBase(e) \in Addr
  <2> DEFINE bases == {e.phdrs[i].vaddr - e.phdrs[i].offset : i \in {j \in Loads(e) : e.phdrs[j].vaddr >= e.phdrs[j].offset}}
  <2>1. bases \subseteq Addr
    <3> SUFFICES ASSUME NEW i \in Loads(e), e.phdrs[i].vaddr >= e.phdrs[i].offset
                 PROVE  e.phdrs[i].vaddr - e.phdrs[i].offset \in Addr
      OBVIOUS
    <3>1. e.phdrs[i].vaddr \in Addr
      BY <1>1 DEF Starts
    <3> QED
      BY <1>1, <3>1 DEF Addr
  <2>2. cacheImageBase(e) = IF bases \ {INVALID_ADDR} = {} THEN 0 ELSE Min(bases)
    BY DEF cacheImageBase
  <2> HIDE DEF bases
  <2>3. bases \subseteq Nat
    BY <2>1 DEF Addr
  <2>4. CASE bases \ {INVALID_ADDR} = {}
    BY <2>2, <2>4 DEF Addr
  <2>5. CASE bases \ {INVALID_ADDR} # {}
    BY <2>1, <2>2, <2>3, <2>5, MinIs
  <2> QED
    BY <2>4, <2>5
<1> QED
  BY <1>1, <1>2, <1>3, <1>4

LEMMA ImageTyped ==
    ASSUME NEW e, HeadersTyped(e)
    PROVE  getImageBase(e) \in Addr
  BY SpanTyped DEF HeadersTyped, getImageBase, Kinds

-----------------------------------------------------------------------------
(* Addresses *)

\* Whatever the headers say, the conversions of an executable agree.
LEMMA Agree ==
    ASSUME NEW e, HeadersTyped(e)
    PROVE  AddressesAgreeOf(e)
<1> DEFINE base == getImageBase(e)
<1>1. base \in Nat /\ base <= INVALID_ADDR /\ INVALID_ADDR \in Nat /\ Modulus = INVALID_ADDR + 1
  BY ImageTyped, ModulusPositive DEF Addr, INVALID_ADDR
<1> SUFFICES ASSUME NEW a \in Addr
             PROVE  /\ \A t \in AddrTypes :
                          /\ LET raw == convertAddr(e, a, t, "RAW") IN raw # INVALID_ADDR => toRaw(e, a, t) = raw
                          /\ LET raw == convertAddr(e, a, "VA", "RAW") IN raw # INVALID_ADDR => vaToRaw(e, a) = raw
                          /\ LET d == detectAddrType(e, a, t) IN d # "NOT_ADDR" => isValidAddr(e, a, d)
                    /\ LET va == convertAddr(e, a, "RVA", "VA") IN
                          isValidAddr(e, va, "VA") => convertAddr(e, va, "VA", "RVA") = a
  BY DEF AddressesAgreeOf, Addr
<1>a. a \in Nat /\ a <= INVALID_ADDR
  BY <1>1 DEF Addr
<1>2. \A b : isValidAddr(e, b, "VA") => b # INVALID_ADDR /\ b >= base
  BY DEF isValidAddr
<1>3. convertAddr(e, a, "VA", "RAW") # INVALID_ADDR
        => isValidAddr(e, a, "VA") /\ convertAddr(e, a, "VA", "RAW") = rvaToRaw(e, a - base)
  <2>1. CASE ~isValidAddr(e, a, "VA")
    BY <2>1 DEF convertAddr
  <2>2. CASE isValidAddr(e, a, "VA")
    <3> HIDE DEF base
    <3>1. convertAddr(e, a, "VA", "RAW") = rvaToRaw(e, a - getImageBase(e))
      BY <2>2, ZenonT(30) DEF convertAddr
    <3> QED
      BY <2>2, <3>1 DEF base
  <2> QED
    BY <2>1, <2>2
<1> HIDE DEF base
<1>4. ASSUME NEW t \in AddrTypes, convertAddr(e, a, t, "RAW") # INVALID_ADDR
      PROVE  toRaw(e, a, t) = convertAddr(e, a, t, "RAW")
  <2>0. isValidAddr(e, a, t)
    BY <1>4 DEF convertAddr
  <2>1. isValidAddr(e, a, t) /\ a # INVALID_ADDR
    BY <2>0 DEF isValidAddr
  <2>2. CASE t = "RAW"
    <3>1. convertAddr(e, a, t, "RAW") = a
      BY <2>1, <2>2 DEF convertAddr
    <3>2. a < e.size % Modulus
      <4>1. getMappedSize(e, "RAW") = e.size /\ e.size \in Nat
        BY DEF getMappedSize, HeadersTyped
      <4>2. a < (0 + getMappedSize(e, "RAW")) % Modulus
        BY <2>1, <2>2 DEF isValidAddr
      <4>3. 0 + getMappedSize(e, "RAW") = e.size
        BY <4>1
      <4> QED
        BY <4>2, <4>3
    <3>3. a < e.size
      <4>1. e.size \in Nat /\ Modulus \in Nat \ {0}
        BY ModulusPositive DEF HeadersTyped
      <4> HIDE DEF Modulus
      <4>2. e.size % Modulus <= e.size
        BY <4>1
      <4>3. e.size % Modulus \in Nat
        BY <4>1
      <4> QED
        BY <1>a, <3>2, <4>1, <4>2, <4>3
    <3> QED
      BY <1>a, <2>1, <2>2, <3>1, <3>3 DEF toRaw, getRawSize, HeadersTyped
  <2>3. CASE t = "VA"
    <3>1. VaToRva(e, a, FALSE) = a - base
      BY <1>1, <1>2, <1>a, <2>1, <2>3 DEF VaToRva, base
    <3> QED
      BY <1>3, <1>4, <2>1, <2>3, <3>1 DEF toRaw
  <2>4. CASE t = "RVA"
    BY <2>1, <2>4 DEF toRaw, convertAddr
  <2> QED
    BY <2>2, <2>3, <2>4 DEF AddrTypes
<1>5. ASSUME convertAddr(e, a, "VA", "RAW") # INVALID_ADDR
      PROVE  vaToRaw(e, a) = convertAddr(e, a, "VA", "RAW")
  <2>1. isValidAddr(e, a, "VA") /\ a # INVALID_ADDR /\ a >= base
    BY <1>2, <1>3, <1>5
  <2>2. VaToRva(e, a, TRUE) = a - base
    BY <1>1, <1>a, <2>1 DEF VaToRva, base
  <2> QED
    BY <1>3, <1>5, <2>1, <2>2 DEF vaToRaw
<1>6. ASSUME NEW t \in AddrTypes, detectAddrType(e, a, t) # "NOT_ADDR"
      PROVE  isValidAddr(e, a, detectAddrType(e, a, t))
  BY <1>6 DEF detectAddrType
<1>7. ASSUME isValidAddr(e, convertAddr(e, a, "RVA", "VA"), "VA")
      PROVE  convertAddr(e, convertAddr(e, a, "RVA", "VA"), "VA", "RVA") = a
  <2> DEFINE va == convertAddr(e, a, "RVA", "VA")
  <2>1. va # INVALID_ADDR /\ va >= base
    BY <1>2, <1>7
  <2>2. va = (a + base) % Modulus
    BY <2>1 DEF convertAddr, base
  <2>3. convertAddr(e, va, "VA", "RVA") = va - base
    BY <1>7 DEF convertAddr, base
  <2> HIDE DEF va, Modulus
  <2>4. a + base < 2 * Modulus /\ Modulus \in Nat \ {0}
    BY <1>1, <1>a
  <2>5. CASE a + base < Modulus
    <3>1. va = a + base
      BY <1>1, <1>a, <2>2, <2>4, <2>5
    <3> QED
      BY <1>1, <1>a, <2>3, <3>1 DEF va
  <2>6. CASE a + base >= Modulus
    <3>1. va = a + base - Modulus
      BY <1>1, <1>a, <2>2, <2>4, <2>6
    <3> QED
      BY <1>1, <1>a, <2>1, <3>1
  <2> QED
    BY <1>1, <1>a, <2>5, <2>6
<1> QED
  BY <1>4, <1>5, <1>6, <1>7

-----------------------------------------------------------------------------
(* The segments of an ELF *)

LEMMA SegmentsAreValid ==
    ASSUME NEW e, HeadersTyped(e), e.kind = "ELF"
    PROVE  SegmentsValidOf(e)
<1> DEFINE lo == Min(Starts(e))
           hi == Max(SegmentEnds(e) \cup {0})
<1> SUFFICES ASSUME \A i \in Loads(e) : e.phdrs[i].vaddr + e.phdrs[i].memsz < Modulus,
                    cacheImageBase(e) = lo, lo + UnitSize < Modulus,
                    NEW i \in Loads(e),
                    NEW a \in e.phdrs[i].vaddr .. (e.phdrs[i].vaddr + e.phdrs[i].memsz - 1)
             PROVE  isValidAddr(e, a, "VA")
  BY DEF SegmentsValidOf
<1>1. \A j \in Loads(e) : e.phdrs[j].vaddr \in Nat /\ e.phdrs[j].memsz \in Nat
  BY ModulusPositive DEF HeadersTyped, Loads, Addr
<1>2. Modulus \in Nat \ {0} /\ INVALID_ADDR = Modulus - 1 /\ UnitSize \in Nat \ {0}
  BY ModulusPositive, ExecutablesAssumption DEF INVALID_ADDR
<1>3. e.phdrs[i].vaddr \in Starts(e) /\ Starts(e) \subseteq Nat
  BY <1>1 DEF Starts
<1>4. lo \in Nat /\ lo <= e.phdrs[i].vaddr
  BY <1>3, MinIs
<1> HIDE DEF lo, Modulus, INVALID_ADDR
<1>5. (e.phdrs[i].vaddr + e.phdrs[i].memsz) % Modulus = e.phdrs[i].vaddr + e.phdrs[i].memsz
  <2>1. e.phdrs[i].vaddr + e.phdrs[i].memsz \in Nat /\ e.phdrs[i].vaddr + e.phdrs[i].memsz < Modulus
    BY <1>1
  <2> QED
    BY <1>2, <2>1
<1>6. hi \in Nat /\ hi < Modulus /\ e.phdrs[i].vaddr + e.phdrs[i].memsz <= hi
  <2>1. SegmentEnds(e) \subseteq Nat /\ \A k \in SegmentEnds(e) : k < Modulus
    <3> SUFFICES ASSUME NEW j \in Loads(e)
                 PROVE  /\ (e.phdrs[j].vaddr + e.phdrs[j].memsz) % Modulus \in Nat
                        /\ (e.phdrs[j].vaddr + e.phdrs[j].memsz) % Modulus < Modulus
      BY DEF SegmentEnds
    <3>1. e.phdrs[j].vaddr + e.phdrs[j].memsz \in Nat
      BY <1>1
    <3> QED
      BY <1>2, <3>1
  <2>2. SegmentEnds(e) \cup {0} \subseteq Nat /\ \A k \in SegmentEnds(e) \cup {0} : k <= INVALID_ADDR
    BY <1>2, <2>1
  <2>3. hi \in SegmentEnds(e) \cup {0} /\ \A k \in SegmentEnds(e) \cup {0} : k <= hi
    BY <1>2, <2>2, MaxIs
  <2>4. e.phdrs[i].vaddr + e.phdrs[i].memsz \in SegmentEnds(e)
    BY <1>5 DEF SegmentEnds
  <2> HIDE DEF hi
  <2> QED
    BY <1>2, <2>2, <2>3, <2>4
<1> HIDE DEF hi
<1>7. a \in Nat /\ lo <= a /\ a < hi /\ e.phdrs[i].vaddr < INVALID_ADDR
  BY <1>1, <1>2, <1>4, <1>6
<1>8. cacheVirtualSize(e) = hi - lo
  <2>1. cacheVirtualSize(e) = (hi + Modulus - lo) % Modulus
    BY <1>3, <1>7, <1>1 DEF cacheVirtualSize, hi, lo
  <2> QED
    BY <1>2, <1>4, <1>6, <1>7, <2>1
<1>9. \E size \in Nat : getMappedSize(e, "VA") = size /\ hi - lo <= size /\ lo + size < Modulus
  <2> DEFINE sizes == {UnitSize, cacheVirtualSize(e)}
  <2>1. getMappedSize(e, "VA") = Max(sizes)
    BY DEF getMappedSize
  <2>2. sizes \subseteq Nat /\ \A k \in sizes : k <= UnitSize + (hi - lo)
    BY <1>2, <1>4, <1>6, <1>7, <1>8
  <2>3. UnitSize + (hi - lo) \in Nat
    BY <1>2, <1>4, <1>6, <1>7
  <2>4. Max(sizes) \in sizes /\ \A k \in sizes : k <= Max(sizes)
    BY <2>2, <2>3, MaxIs
  <2> QED
    BY <1>2, <1>4, <1>6, <1>7, <1>8, <2>1, <2>2, <2>4
<1>10. PICK size \in Nat : getMappedSize(e, "VA") = size /\ hi - lo <= size /\ lo + size < Modulus
  BY <1>9
<1>11. getImageBase(e) = lo
  BY DEF getImageBase
<1>12. (lo + size) % Modulus = lo + size
  BY <1>2, <1>4, <1>10
<1>13. a # INVALID_ADDR /\ a >= lo /\ a < (lo + getMappedSize(e, "VA")) % Modulus
  BY <1>2, <1>4, <1>6, <1>7, <1>10, <1>12
<1> QED
  BY <1>11, <1>13 DEF isValidAddr

-----------------------------------------------------------------------------
(* The loop of the commands *)

\* What a file can become is an executable of the kind that was found.
FilesTyped ==
    \A f \in Files : f.exists =>
        f.size \in Nat /\ \A k \in Kinds : \A e \in f.as[k] : HeadersTyped(e) /\ e.kind = k

SessionInv ==
    /\ file \in Files /\ maxMap \in Nat
    /\ exe = NoExe \/ HeadersTyped(exe)
    /\ phase = "commands" => file.exists /\ HeadersTyped(exe)

LEMMA Resized ==
    ASSUME NEW e, HeadersTyped(e), NEW n \in Nat
    PROVE  HeadersTyped([e EXCEPT !.size = n])
<1> DEFINE f == [e EXCEPT !.size = n]
<1>1. "size" \in DOMAIN e /\ DOMAIN f = DOMAIN e /\ \A x \in DOMAIN e \ {"size"} : f[x] = e[x]
  BY DEF HeadersTyped
<1>2. f.size = n /\ f.kind = e.kind
  BY <1>1 DEF HeadersTyped
<1> HIDE DEF f
<1>3. f.kind = "PE" => f.base = e.base /\ f.image = e.image
  BY <1>1, <1>2 DEF HeadersTyped
<1>4. f.kind = "MZ" => f.cparhdr = e.cparhdr /\ f.cs = e.cs /\ f.cp = e.cp /\ f.cblp = e.cblp
  BY <1>1, <1>2 DEF HeadersTyped
<1>5. f.kind = "ELF" => f.phdrs = e.phdrs
  BY <1>1, <1>2 DEF HeadersTyped
<1>6. HeadersTyped(f)
  <2>1. {"kind", "size"} \subseteq DOMAIN f /\ f.kind \in Kinds /\ f.size \in Nat
    BY <1>1, <1>2 DEF HeadersTyped
  <2>2. f.kind = "PE" => {"base", "image"} \subseteq DOMAIN f /\ f.base \in Addr /\ f.image \in Nat
    BY <1>1, <1>2, <1>3 DEF HeadersTyped
  <2>3. f.kind = "MZ" => {"cparhdr", "cs", "cp", "cblp"} \subseteq DOMAIN f
                         /\ f.cs \in Addr /\ {f.cparhdr, f.cp, f.cblp} \subseteq Nat
    BY <1>1, <1>2, <1>4 DEF HeadersTyped
  <2>4. f.kind = "ELF" => /\ "phdrs" \in DOMAIN f
                          /\ \A i \in DOMAIN f.phdrs : /\ f.phdrs[i].vaddr \in Addr /\ f.phdrs[i].offset \in Addr
                                                       /\ f.phdrs[i].memsz \in Nat
    BY <1>1, <1>2, <1>5 DEF HeadersTyped
  <2> QED
    BY <2>1, <2>2, <2>3, <2>4 DEF HeadersTyped
<1> QED
  BY <1>6 DEF f

\* A command leaves the executable as it is, or finds another one in the changed content.
ExeStep == exe' = exe \/ \E e \in file.as[exe.kind] : exe' = [e EXCEPT !.size = exe.size]

LEMMA CommandSteps == Command => ExeStep
<1> SUFFICES ASSUME Command
             PROVE  ExeStep
  OBVIOUS
<1>1. \A r, text, n : Answer(r, text, n) => ExeStep
  BY DEF Answer, Keeps, ExeStep
<1>2. \A r, text : Changes(r, text) => ExeStep
  BY DEF Changes, ExeStep
<1>3. \A r, names : Dumps(r, names) => ExeStep
  BY DEF Dumps, exeVars, ExeStep
<1> HIDE DEF ExeStep
<1>4. CASE Help
  BY <1>1, <1>4 DEF Help
<1>5. CASE QuitCommand
  BY <1>5 DEF QuitCommand, Keeps, ExeStep
<1>6. CASE SaveExe
  BY <1>3, <1>6 DEF SaveExe
<1>7. CASE ExeInfo
  BY <1>1, <1>7 DEF ExeInfo
<1>8. CASE ConvertAddr
  BY <1>1, <1>8 DEF ConvertAddr
<1>9. CASE Fetch
  BY <1>1, <1>9 DEF Fetch, fetch
<1>10. CASE WrapperCommand
  <2>1. \A r, w : AddEntry(r, w) => ExeStep
    BY <1>1, <1>2 DEF AddEntry
  <2>2. \A r, w : DumpWrapper(r, w) => ExeStep
    BY <1>1 DEF DumpWrapper
  <2>3. \A r, w : DumpWrapperEntries(r, w) => ExeStep
    BY <1>1 DEF DumpWrapperEntries
  <2>4. \A r, w : ClearWrapper(r, w) => ExeStep
    BY <1>1, <1>2 DEF ClearWrapper
  <2>5. \A r, w : DumpWrapperToFile(r, w) => ExeStep
    BY <1>1, <1>3 DEF DumpWrapperToFile
  <2> QED
    BY <1>1, <1>10, <2>1, <2>2, <2>3, <2>4, <2>5 DEF WrapperCommand
<1>11. CASE NotPE
  BY <1>1, <1>11 DEF NotPE
<1>12. CASE SectionByAddr
  BY <1>1, <1>12 DEF SectionByAddr
<1>13. CASE PrintStrings
  BY <1>1, <1>13 DEF PrintStrings
<1>14. CASE PrintWrapperTypes
  BY <1>1, <1>14 DEF PrintWrapperTypes
<1>15. CASE WrapperInfo
  BY <1>1, <1>15 DEF WrapperInfo, dumpResourcesInfo
<1>16. CASE MoveDataDirEntry
  BY <1>1, <1>2, <1>16 DEF MoveDataDirEntry
<1>17. CASE SectionDump
  BY <1>1, <1>3, <1>17 DEF SectionDump
<1>18. CASE ExportsList
  BY <1>1, <1>18 DEF ExportsList
<1>19. CASE ImportsList
  BY <1>1, <1>19 DEF ImportsList
<1> QED
  BY <1>4, <1>5, <1>6, <1>7, <1>8, <1>9, <1>10, <1>11, <1>12, <1>13, <1>14, <1>15, <1>16, <1>17, <1>18, <1>19 DEF Command

\* An empty word is no command: the help is printed.
LEMMA NoWordNoCommand == Command /\ ~good => UNCHANGED <<exe, content, saved>>
<1> SUFFICES ASSUME Command, ~good
             PROVE  UNCHANGED <<exe, content, saved>>
  OBVIOUS
<1>1. Line.w = ""
  BY DEF Line, ReadWord
<1>2. ~QuitCommand /\ ~SaveExe /\ ~ExeInfo
  BY <1>1 DEF QuitCommand, SaveExe, ExeInfo
<1>3. ~ConvertAddr /\ ~Fetch /\ ~WrapperCommand /\ ~NotPE
  <2>1. ~ConvertAddr
    <3>1. \A cmd \in {<<"r-v", "RAW", "RVA">>, <<"v-r", "RVA", "RAW">>} : cmd[1] # ""
      <4>1. <<"r-v", "RAW", "RVA">>[1] # "" /\ <<"v-r", "RVA", "RAW">>[1] # ""
        OBVIOUS
      <4> QED
        BY <4>1, Zenon
    <3> QED
      BY <1>1, <3>1, Zenon DEF ConvertAddr
  <2>2. ~Fetch
    BY <1>1 DEF Fetch
  <2>3. ~WrapperCommand
    BY <1>1 DEF WrapperCommand
  <2>4. ~NotPE
    BY <1>1 DEF NotPE
  <2> QED
    BY <2>1, <2>2, <2>3, <2>4
<1>4. ~OnPE("secV") /\ ~OnPE("secR") /\ ~OnPE("rstrings") /\ ~OnPE("rsl") /\ ~OnPE("rs") /\ ~OnPE("dir_mv")
      /\ ~OnPE("secinfo") /\ ~OnPE("secfdump") /\ ~OnPE("explist") /\ ~OnPE("implist")
  BY <1>1 DEF OnPE
<1>5. ~SectionByAddr /\ ~PrintStrings /\ ~PrintWrapperTypes /\ ~WrapperInfo /\ ~MoveDataDirEntry
      /\ ~SectionDump /\ ~ExportsList /\ ~ImportsList
  BY <1>4 DEF SectionByAddr, PrintStrings, PrintWrapperTypes, WrapperInfo, MoveDataDirEntry, SectionDump,
              ExportsList, ImportsList
<1> QED
  BY <1>2, <1>3, <1>5 DEF Command, Help, Answer, Keeps

-----------------------------------------------------------------------------
(* The invariants *)

LEMMA SessionInit == Init => SessionInv
  BY SessionAssumption DEF Init, SessionInv

LEMMA SessionStep ==
    ASSUME FilesTyped, SessionInv, [Next]_vars
    PROVE  SessionInv'
<1>1. CASE NoFile /\ UNCHANGED file
  BY <1>1 DEF NoFile, Stop, exeVars, SessionInv
<1>2. CASE AskSize /\ UNCHANGED file
  <2>1. maxMap' \in Nat
    BY <1>2, SessionAssumption DEF AskSize, readOffset, ReadNumber
  <2>2. UNCHANGED exe /\ (phase' = "commands" => phase = "commands")
    BY <1>2 DEF AskSize, Stop, exeVars
  <2> QED
    BY <1>2, <2>1, <2>2 DEF SessionInv
<1>3. CASE Build /\ UNCHANGED file
  <2> DEFINE readable == Shorter(file.size, maxMap)
             kind == findMatching(file, readable)
             n == Longer(readable, MinBuf)
  <2>1. file \in Files /\ file.exists /\ maxMap \in Nat /\ maxMap' = maxMap
    BY <1>3 DEF Build, SessionInv
  <2>2. n \in Nat
    BY <2>1, SessionAssumption DEF FilesTyped, Shorter, Longer
  <2>3. kind \in Kinds \cup {"NONE"}
    BY DEF findMatching, Kinds
  <2> HIDE DEF n, kind
  <2>4. CASE \E code : Stop(code)
    BY <1>3, <2>1, <2>4 DEF Stop, exeVars, SessionInv
  <2>5. CASE kind # "NONE" /\ \E e \in file.as[kind] : exe' = [e EXCEPT !.size = n]
    <3>1. PICK e \in file.as[kind] : exe' = [e EXCEPT !.size = n]
      BY <2>5
    <3>2. HeadersTyped(e)
      BY <2>1, <2>3, <2>5 DEF FilesTyped
    <3>3. HeadersTyped(exe')
      BY <2>2, <3>1, <3>2, Resized
    <3> QED
      BY <1>3, <2>1, <3>3 DEF SessionInv
  <2> QED
    BY <1>3, <2>4, <2>5 DEF Build, kind, n
<1>4. CASE phase = "commands" /\ ~quit /\ Command /\ UNCHANGED <<phase, status>> /\ UNCHANGED <<file, maxMap>>
  <2>1. file \in Files /\ file.exists /\ HeadersTyped(exe) /\ exe.kind \in Kinds /\ exe.size \in Nat
    BY <1>4 DEF SessionInv, HeadersTyped
  <2>2. ExeStep
    BY <1>4, CommandSteps
  <2>3. CASE \E e \in file.as[exe.kind] : exe' = [e EXCEPT !.size = exe.size]
    <3>1. PICK e \in file.as[exe.kind] : exe' = [e EXCEPT !.size = exe.size]
      BY <2>3
    <3>2. HeadersTyped(e)
      BY <2>1 DEF FilesTyped
    <3>3. HeadersTyped(exe')
      BY <2>1, <3>1, <3>2, Resized
    <3> QED
      BY <1>4, <2>1, <3>3 DEF SessionInv
  <2>4. CASE exe' = exe
    BY <1>4, <2>1, <2>4 DEF SessionInv
  <2> QED
    BY <2>2, <2>3, <2>4 DEF ExeStep
<1>5. CASE Stop(0) /\ UNCHANGED <<file, maxMap>>
  BY <1>5 DEF Stop, exeVars, SessionInv
<1>6. CASE UNCHANGED vars
  BY <1>6 DEF vars, SessionInv
<1> QED
  BY <1>1, <1>2, <1>3, <1>4, <1>5, <1>6 DEF Next, Load, parseCommands

\* Whatever the step of the loop is: to stop changes nothing either.
LEMMA InputStep == [Next]_vars => (phase = "commands" /\ ~good => UNCHANGED <<exe, content, saved>>)
<1> SUFFICES ASSUME [Next]_vars, phase = "commands", ~good
             PROVE  UNCHANGED <<exe, content, saved>>
  OBVIOUS
<1>1. CASE Load
  BY <1>1 DEF Load, NoFile, AskSize, Build
<1>2. CASE Command
  BY <1>2, NoWordNoCommand
<1>3. CASE Stop(0) /\ UNCHANGED saved
  BY <1>3 DEF Stop, exeVars
<1>4. CASE UNCHANGED vars
  BY <1>4 DEF vars
<1> QED
  BY <1>1, <1>2, <1>3, <1>4 DEF Next, parseCommands

\* main, parseCommands: whatever is typed, the executable is none or has the headers of
\* its kind, within the width of their fields.
THEOREM SessionTyped ==
    ASSUME FilesTyped
    PROVE  Spec => []SessionInv
<1>1. Init => SessionInv
  BY SessionInit
<1>2. SessionInv /\ [Next]_vars => SessionInv'
  BY SessionStep
<1> QED
  BY <1>1, <1>2, PTL DEF Spec

\* Executable: the conversions of the addresses agree, for whatever the headers of
\* the executable say, at the begin and after each command.
THEOREM ConversionsAgree ==
    ASSUME FilesTyped
    PROVE  Spec => []AddressesAgree
<1>1. SessionInv => AddressesAgree
  BY Agree DEF SessionInv, AddressesAgree, NoExe
<1> QED
  BY <1>1, SessionTyped, PTL

\* ELFCore: the addresses of the segments are valid, when nothing wraps around.
THEOREM SegmentsMapped ==
    ASSUME FilesTyped
    PROVE  Spec => []SegmentsValid
<1>1. SessionInv => SegmentsValid
  BY SegmentsAreValid DEF SessionInv, SegmentsValid, NoExe
<1> QED
  BY <1>1, SessionTyped, PTL

\* parseCommands: when a read has failed, nothing is changed or written any more.
THEOREM NothingRunsAfterFailure == Spec => FailedInputRunsNothing
<1>1. [Next]_vars => [phase = "commands" /\ ~good => UNCHANGED <<exe, content, saved>>]_vars
  BY InputStep
<1> QED
  BY <1>1, PTL DEF Spec, FailedInputRunsNothing
================================================================================
