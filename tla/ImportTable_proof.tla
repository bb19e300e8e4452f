--------------------------- MODULE ImportTable_proof ---------------------------
(***************************************************************************)
(* The maps of the import directories lead to functions that are loaded,   *)
(* and what is added in place keeps the terminator, for every file.        *)
(***************************************************************************)
EXTENDS ImportTable, FiniteSetTheorems, WellFoundedInduction, TLAPS

\* The file stays within its bounds, and is made of units.
FileTyped ==
    /\ kind \in {"import", "delay", "bound"}
    /\ units \in [0..FileMax-1 -> Unit] /\ fileLen \in 1..FileMax /\ dirAddr \in Nat

Entries == {libs[k] : k \in DOMAIN libs}

\* The thunks of a library are those of its functions.
MappedBy(l, d) ==
    /\ l = [n |-> l.n, at |-> l.at] /\ l.n \in 0..FileMax
    /\ DOMAIN l.at = Vias(d, l.n) /\ l.at = [v \in Vias(d, l.n) |-> l.at[v]]
    /\ \A v \in Vias(d, l.n) : l.at[v] \in 1..l.n /\ CallVia(d, l.at[v]) = v

\* What is loaded has a descriptor, and functions that its descriptor leads to.
LibsMapped ==
    /\ libs \in Seq(Entries)
    /\ \A k \in DOMAIN libs : HasDesc(k) /\ MappedBy(libs[k], Desc(k))

ImportInv ==
    /\ FileTyped /\ importsCount \in Nat
    /\ LibsMapped /\ ThunksAnswered /\ TerminatorKept

-----------------------------------------------------------------------------
(* Least and greatest numbers *)

\* A set of numbers that is not empty has a least one.
LEMMA LeastNumber ==
    ASSUME NEW T, T \subseteq Nat, T # {}
    PROVE  \E m \in T : \A k \in T : m <= k
<1> DEFINE R == {ss \in Nat \X Nat : ss[1] < ss[2]}
<1>1. R = OpToRel(<, Nat)
  BY DEF OpToRel
<1>2. IsWellFoundedOn(R, Nat)
  BY <1>1, NatLessThanWellFounded
<1> HIDE DEF R
<1>3. PICK m \in T : \A k \in T : ~(<<k, m>> \in R)
  BY <1>2, WFMin
<1>4. ASSUME NEW k \in T
      PROVE  m <= k
  <2>1. k \in Nat /\ m \in Nat
    OBVIOUS
  <2>2. ~(k < m)
    BY <1>3, <2>1 DEF R
  <2> QED
    BY <2>1, <2>2
<1> QED
  BY <1>4

\* A set of numbers up to a bound that is not empty has a greatest one.
LEMMA GreatestNumber ==
    ASSUME NEW n \in Nat, NEW T, T \subseteq 0..n, T # {}
    PROVE  Max(T) \in T /\ \A x \in T : x <= Max(T)
<1> DEFINE U == {n - x : x \in T}
<1>1. \A x \in T : x \in 0..n /\ n - x \in Nat
  OBVIOUS
<1>2. PICK m \in U : \A k \in U : m <= k
  <2>1. U \subseteq Nat
    BY <1>1
  <2>2. U # {}
    OBVIOUS
  <2> HIDE DEF U
  <2> QED
    BY <2>1, <2>2, LeastNumber
<1>3. PICK y \in T : m = n - y
  OBVIOUS
<1>4. \A x \in T : n - y <= n - x
  BY <1>2, <1>3
<1>5. \A x \in T : y >= x
  BY <1>1, <1>4
<1>6. Max(T) \in T /\ \A x \in T : Max(T) >= x
  BY <1>5 DEF Max
<1> QED
  BY <1>6

-----------------------------------------------------------------------------
(* The loops that load *)

StopsFunc(d, n) ==
    FuncEnds(d, n + 1) \/ (n >= InvalidLimit /\ \A i \in n-InvalidLimit+1 .. n : FuncInvalid(d, i))

StopsLib(n) ==
    ~HasDesc(n + 1) \/ (n >= InvalidLimit /\ \A i \in n-InvalidLimit+1 .. n : LibInvalid(i))

LEMMA ThunksEnd ==
    ASSUME FileTyped, NEW d \in Unit
    PROVE  FuncEnds(d, fileLen + 1)
<1>1. d.fst \in Nat /\ d.iat \in Nat /\ fileLen \in Nat
  BY ImportAssumption DEF FileTyped, Unit
<1>2. ~SlotIn(d.fst, fileLen + 1) /\ ~SlotIn(d.iat, fileLen + 1)
  BY <1>1 DEF SlotIn
<1>3. Thunk(d, fileLen + 1) = 0
  BY <1>2 DEF Thunk
<1>4. 0 % OrdinalFlag = 0
  BY ImportAssumption
<1> QED
  BY <1>3, <1>4 DEF FuncEnds, ThunkValue

\* The functions of a library end at the first that ends them.
LEMMA FuncsLoaded ==
    FileTyped => \A d \in Unit :
        /\ FuncsOf(d) \in 0..fileLen
        /\ FuncsOf(d) = 0 \/ StopsFunc(d, FuncsOf(d))
        /\ \A m \in Nat : m < FuncsOf(d) => ~StopsFunc(d, m)
        /\ kind # "bound" /\ IsNameValid(d.name) => StopsFunc(d, FuncsOf(d))
        /\ kind = "bound" \/ ~IsNameValid(d.name) => FuncsOf(d) = 0
<1> SUFFICES ASSUME FileTyped, NEW d \in Unit
             PROVE  /\ FuncsOf(d) \in 0..fileLen
                    /\ FuncsOf(d) = 0 \/ StopsFunc(d, FuncsOf(d))
                    /\ \A m \in Nat : m < FuncsOf(d) => ~StopsFunc(d, m)
                    /\ kind # "bound" /\ IsNameValid(d.name) => StopsFunc(d, FuncsOf(d))
                    /\ kind = "bound" \/ ~IsNameValid(d.name) => FuncsOf(d) = 0
  OBVIOUS
<1>l. fileLen \in Nat
  BY ImportAssumption DEF FileTyped
<1>1. CASE kind = "bound" \/ ~IsNameValid(d.name)
  <2>1. FuncsOf(d) = 0
    BY <1>1 DEF FuncsOf
  <2> QED
    BY <1>1, <1>l, <2>1
<1>2. CASE ~(kind = "bound" \/ ~IsNameValid(d.name))
  <2> DEFINE Here == {n \in 0..fileLen : StopsFunc(d, n)}
  <2>1. FuncsOf(d) = CHOOSE n \in 0..fileLen : StopsFunc(d, n) /\ \A m \in 0..n-1 : ~StopsFunc(d, m)
    BY <1>2 DEF FuncsOf, Loaded, Series, StopsFunc
  <2>2. fileLen \in Here
    BY <1>l, ThunksEnd DEF StopsFunc
  <2>3. PICK n \in Here : \A k \in Here : n <= k
    <3>1. Here \subseteq Nat /\ Here # {}
      BY <2>2
    <3> HIDE DEF Here
    <3> QED
      BY <3>1, LeastNumber
  <2>4. \A m \in 0..n-1 : ~StopsFunc(d, m)
    BY <2>3, <1>l
  <2>5. n \in 0..fileLen /\ StopsFunc(d, n)
    OBVIOUS
  <2>6. /\ FuncsOf(d) \in 0..fileLen /\ StopsFunc(d, FuncsOf(d))
        /\ \A m \in 0..FuncsOf(d)-1 : ~StopsFunc(d, m)
    BY <2>1, <2>4, <2>5, Zenon
  <2>7. \A m \in Nat : m < FuncsOf(d) => ~StopsFunc(d, m)
    BY <2>6, <1>l
  <2> QED
    BY <1>2, <2>6, <2>7
<1> QED
  BY <1>1, <1>2

\* The libraries end at the first that ends them.
LEMMA LibsLoaded ==
    FileTyped => /\ LibCount \in 0..fileLen /\ StopsLib(LibCount)
                 /\ \A m \in Nat : m < LibCount => ~StopsLib(m)
<1> SUFFICES ASSUME FileTyped
             PROVE  /\ LibCount \in 0..fileLen /\ StopsLib(LibCount)
                    /\ \A m \in Nat : m < LibCount => ~StopsLib(m)
  OBVIOUS
<1>l. fileLen \in Nat /\ dirAddr \in Nat
  BY ImportAssumption DEF FileTyped
<1> DEFINE Here == {n \in 0..fileLen : StopsLib(n)}
<1>1. LibCount = CHOOSE n \in 0..fileLen : StopsLib(n) /\ \A m \in 0..n-1 : ~StopsLib(m)
  BY DEF LibCount, Loaded, Series, StopsLib
<1>2. fileLen \in Here
  <2>1. ~HasDesc(fileLen + 1)
    BY <1>l DEF HasDesc
  <2> QED
    BY <1>l, <2>1 DEF StopsLib
<1>3. PICK n \in Here : \A k \in Here : n <= k
  <2>1. Here \subseteq Nat /\ Here # {}
    BY <1>2
  <2> HIDE DEF Here
  <2> QED
    BY <2>1, LeastNumber
<1>4. \A m \in 0..n-1 : ~StopsLib(m)
  BY <1>3, <1>l
<1>5. n \in 0..fileLen /\ StopsLib(n)
  OBVIOUS
<1>6. /\ LibCount \in 0..fileLen /\ StopsLib(LibCount)
      /\ \A m \in 0..LibCount-1 : ~StopsLib(m)
  BY <1>1, <1>4, <1>5, Zenon
<1> QED
  BY <1>6, <1>l

-----------------------------------------------------------------------------
(* Descriptors and the maps *)

LEMMA DescInFile ==
    FileTyped => \A k \in Nat \ {0} : dirAddr + k - 1 < fileLen => Desc(k) \in Unit
<1> SUFFICES ASSUME FileTyped, NEW k \in Nat \ {0}, dirAddr + k - 1 < fileLen
             PROVE  Desc(k) \in Unit
  OBVIOUS
<1>1. dirAddr + k - 1 \in 0..FileMax-1
  BY ImportAssumption DEF FileTyped
<1> QED
  BY <1>1 DEF FileTyped, Desc

LEMMA HasDescInFile ==
    FileTyped => \A k \in Nat \ {0} : HasDesc(k) => Desc(k) \in Unit /\ Desc(k) # ZeroUnit
<1> SUFFICES ASSUME FileTyped, NEW k \in Nat \ {0}, HasDesc(k)
             PROVE  Desc(k) \in Unit /\ Desc(k) # ZeroUnit
  OBVIOUS
<1>1. Desc(k) \in Unit
  BY DescInFile DEF HasDesc
<1>2. Desc(k) # ZeroUnit
  BY DEF HasDesc, ZeroUnit
<1> QED
  BY <1>1, <1>2

\* A library that is loaded maps the thunks of its functions.
LEMMA NewLibMapped ==
    FileTyped => \A k \in Nat \ {0} : dirAddr + k - 1 < fileLen => MappedBy(NewLib(k), Desc(k))
<1> SUFFICES ASSUME FileTyped, NEW k \in Nat \ {0}, dirAddr + k - 1 < fileLen
             PROVE  MappedBy(NewLib(k), Desc(k))
  OBVIOUS
<1>1. PICK d \in Unit : d = Desc(k)
  BY DescInFile
<1>2. PICK n : n = FuncsOf(d)
  OBVIOUS
<1>3. n \in 0..FileMax
  BY <1>2, FuncsLoaded, ImportAssumption DEF FileTyped
<1> DEFINE At == [v \in Vias(d, n) |-> Max({i \in 1..n : CallVia(d, i) = v})]
<1>4. NewLib(k) = [n |-> n, at |-> At]
  BY <1>1, <1>2 DEF NewLib
<1>5. ASSUME NEW v \in Vias(d, n)
      PROVE  At[v] \in 1..n /\ CallVia(d, At[v]) = v
  <2> DEFINE T == {i \in 1..n : CallVia(d, i) = v}
  <2>1. T \subseteq 0..n /\ T # {} /\ n \in Nat
    BY <1>3 DEF Vias
  <2>2. Max(T) \in T
    <3> HIDE DEF T
    <3> QED
      BY <2>1, GreatestNumber
  <2>3. At[v] = Max(T)
    OBVIOUS
  <2> QED
    BY <2>2, <2>3
<1>6. PICK l : l = NewLib(k)
  OBVIOUS
<1>7. l.n = n /\ l.at = At /\ l = [n |-> l.n, at |-> l.at]
  BY <1>4, <1>6
<1>8. DOMAIN At = Vias(d, n) /\ At = [v \in Vias(d, n) |-> At[v]]
  OBVIOUS
<1> HIDE DEF At
<1> QED
  BY <1>1, <1>3, <1>5, <1>6, <1>7, <1>8 DEF MappedBy

\* The maps that are loaded again lead to functions of the libraries.
LEMMA ReloadedAnswers ==
    FileTyped /\ LibsMapped =>
        /\ \A v \in DOMAIN ReloadedLibs : Answers(ReloadedLibs[v], v)
        /\ \A f \in Functions : CallVia(Desc(f[1]), f[2]) \in DOMAIN ReloadedLibs \cup {NoVia}
<1> SUFFICES ASSUME FileTyped, LibsMapped
             PROVE  /\ \A v \in DOMAIN ReloadedLibs : Answers(ReloadedLibs[v], v)
                    /\ \A f \in Functions :
                          CallVia(Desc(f[1]), f[2]) \in DOMAIN ReloadedLibs \cup {NoVia}
  OBVIOUS
<1>0. PICK n \in Nat : DOMAIN libs = 1..n
  BY DEF LibsMapped
<1>1. ASSUME NEW v \in DOMAIN ReloadedLibs
      PROVE  /\ ReloadedLibs[v] \in DOMAIN libs
             /\ v \in Vias(Desc(ReloadedLibs[v]), libs[ReloadedLibs[v]].n)
  <2> DEFINE T == {k \in DOMAIN libs : v \in Vias(Desc(k), libs[k].n)}
  <2>1. T \subseteq 0..n /\ T # {}
    BY <1>0 DEF ReloadedLibs
  <2>2. ReloadedLibs[v] = Max(T)
    BY DEF ReloadedLibs
  <2>3. Max(T) \in T
    <3> HIDE DEF T
    <3> QED
      BY <2>1, GreatestNumber
  <2> QED
    BY <2>2, <2>3
<1>2. ASSUME NEW v \in DOMAIN ReloadedLibs, NEW k, k = ReloadedLibs[v]
      PROVE  /\ k \in DOMAIN libs /\ v \in DOMAIN libs[k].at
             /\ <<k, libs[k].at[v]>> \in Functions
             /\ CallVia(Desc(k), libs[k].at[v]) = v
  <2>1. k \in DOMAIN libs /\ v \in Vias(Desc(k), libs[k].n)
    BY <1>1, <1>2
  <2>2. MappedBy(libs[k], Desc(k))
    BY <2>1 DEF LibsMapped
  <2>3. libs[k].n \in 0..FileMax /\ v \in DOMAIN libs[k].at /\ libs[k].at[v] \in 1..libs[k].n /\ CallVia(Desc(k), libs[k].at[v]) = v
    BY <2>1, <2>2 DEF MappedBy
  <2>4. libs[k].at[v] \in 1..FileMax /\ libs[k].at[v] <= libs[k].n
    BY <2>3, ImportAssumption
  <2>5. <<k, libs[k].at[v]>> \in Functions
    BY <2>1, <2>4 DEF Functions
  <2> QED
    BY <2>1, <2>3, <2>5
<1>3. ASSUME NEW f \in Functions
      PROVE  CallVia(Desc(f[1]), f[2]) \in DOMAIN ReloadedLibs \cup {NoVia}
  <2>1. f[1] \in DOMAIN libs /\ f[2] \in 1..FileMax /\ f[2] <= libs[f[1]].n
    BY DEF Functions
  <2>2. libs[f[1]].n \in 0..FileMax
    BY <2>1 DEF LibsMapped, MappedBy
  <2>3. f[2] \in 1..libs[f[1]].n
    BY <2>1, <2>2, ImportAssumption
  <2>4. CallVia(Desc(f[1]), f[2]) \in Vias(Desc(f[1]), libs[f[1]].n) \cup {NoVia}
    BY <2>3 DEF Vias
  <2>5. DOMAIN ReloadedLibs = UNION {Vias(Desc(k), libs[k].n) : k \in DOMAIN libs}
    BY DEF ReloadedLibs
  <2> QED
    BY <2>1, <2>4, <2>5
<1> QED
  BY <1>2, <1>3 DEF Answers

LEMMA ReloadedFound ==
    FileTyped /\ LibsMapped /\ thunkToLib = ReloadedLibs => ThunksAnswered
  BY ReloadedAnswers DEF ThunksAnswered

\* What a descriptor has mapped that was thrown out leads nowhere.
LEMMA WrappedFound ==
    FileTyped /\ LibsMapped /\ thunkToLib = WrappedLibs /\ thrown = ThrownThunks => ThunksAnswered
<1> SUFFICES ASSUME FileTyped, LibsMapped, thunkToLib = WrappedLibs, thrown = ThrownThunks
             PROVE  ThunksAnswered
  OBVIOUS
<1>1. ASSUME NEW v \in DOMAIN thunkToLib
      PROVE  Answers(thunkToLib[v], v) \/ Stray(v)
  <2>1. CASE v \in Range(ThrownThunks)
    BY <2>1 DEF WrappedLibs, Stray
  <2>2. CASE v \notin Range(ThrownThunks)
    <3>1. v \in DOMAIN ReloadedLibs /\ thunkToLib[v] = ReloadedLibs[v]
      BY <2>2 DEF WrappedLibs
    <3> QED
      BY <3>1, ReloadedAnswers
  <2> QED
    BY <2>1, <2>2
<1>2. DOMAIN ReloadedLibs \subseteq DOMAIN thunkToLib
  BY DEF WrappedLibs
<1> QED
  BY <1>1, <1>2, ReloadedAnswers DEF ThunksAnswered


\* The directory after it was wrapped.
Wrapped ==
    /\ libs = LoadedLibs /\ importsCount = CountedImports
    /\ thunkToLib = WrappedLibs /\ thrown = ThrownThunks

LEMMA WrappedInv == FileTyped /\ Wrapped => ImportInv
<1> SUFFICES ASSUME FileTyped, Wrapped
             PROVE  ImportInv
  OBVIOUS
<1>l. fileLen \in Nat /\ dirAddr \in Nat
  BY ImportAssumption DEF FileTyped
<1>1. PICK n \in 0..fileLen : n = LibCount
  BY LibsLoaded
<1>2. StopsLib(n) /\ \A m \in Nat : m < n => ~StopsLib(m)
  BY <1>1, LibsLoaded
<1>3. libs = [k \in 1..n |-> NewLib(k)]
  BY <1>1 DEF Wrapped, LoadedLibs
<1>4. DOMAIN libs = 1..n /\ n \in Nat
  BY <1>3, <1>l
<1>5. libs \in Seq(Entries) /\ Len(libs) = n
  <2>1. \A k \in 1..n : libs[k] \in Entries
    BY <1>4 DEF Entries
  <2>2. libs \in [1..n -> Entries]
    BY <1>3, <2>1
  <2> QED
    BY <1>4, <2>2
<1>6. ASSUME NEW k \in 1..n
      PROVE  HasDesc(k) /\ MappedBy(libs[k], Desc(k))
  <2>1. k - 1 \in Nat /\ k - 1 < n /\ (k - 1) + 1 = k /\ k \in Nat \ {0}
    BY <1>4
  <2>2. ~StopsLib(k - 1)
    BY <1>2, <2>1
  <2>3. HasDesc(k)
    BY <2>1, <2>2 DEF StopsLib
  <2>4. MappedBy(NewLib(k), Desc(k))
    BY <2>1, <2>3, NewLibMapped DEF HasDesc
  <2> QED
    BY <1>3, <2>3, <2>4
<1>7. LibsMapped
  BY <1>4, <1>5, <1>6 DEF LibsMapped
<1>8. importsCount \in Nat
  <2>1. InvalidLimit \in Nat /\ InvalidLimit > 0
    BY ImportAssumption
  <2>2. importsCount = IF Series(LibInvalid, n) THEN n - 1 ELSE n
    BY <1>1 DEF Wrapped, CountedImports
  <2>3. Series(LibInvalid, n) => n >= InvalidLimit
    BY DEF Series
  <2> QED
    BY <1>4, <2>1, <2>2, <2>3
<1>9. TerminatorKept
  BY <1>2, <1>5 DEF TerminatorKept, StopsLib, EndsInSeries, Series
<1>10. ThunksAnswered
  BY <1>7, WrappedFound DEF Wrapped
<1> QED
  BY <1>7, <1>8, <1>9, <1>10 DEF ImportInv

-----------------------------------------------------------------------------
(* Calls that wrap the directory *)

LEMMA ZeroTyped == ZeroUnit \in Unit
  BY DEF ZeroUnit, Unit

\* An area that is moved inside of the file, or filled, leaves units.
LEMMA MovedTyped ==
    ASSUME FileTyped, NEW to \in Nat, NEW size \in Nat,
           dirAddr + size <= fileLen, to + size <= fileLen,
           NEW u \in Moved(units, dirAddr, to, size, ZeroUnit)
    PROVE  u \in [0..FileMax-1 -> Unit]
<1>l. fileLen \in Nat /\ dirAddr \in Nat /\ FileMax \in Nat /\ fileLen <= FileMax
  BY ImportAssumption DEF FileTyped
<1>1. PICK c \in Copies(units, dirAddr, to, size) : u = FillContent(c, dirAddr, size, ZeroUnit)
  BY DEF Moved
<1>2. ASSUME NEW o \in Area(to, size)
      PROVE  /\ dirAddr + (o - to) \in 0..FileMax-1
             /\ dirAddr < to /\ to < dirAddr + size => dirAddr + ((o - to) % (to - dirAddr)) \in 0..FileMax-1
  <2>1. o \in Nat /\ to <= o /\ o - to < size /\ o - to \in Nat
    BY DEF Area
  <2>2. dirAddr + (o - to) \in 0..FileMax-1
    BY <2>1, <1>l
  <2>3. ASSUME dirAddr < to, to < dirAddr + size
        PROVE  dirAddr + ((o - to) % (to - dirAddr)) \in 0..FileMax-1
    <3>1. PICK x \in Nat, y \in Nat : x = o - to /\ y = to - dirAddr /\ y > 0
      BY <1>l, <2>1, <2>3
    <3>2. x % y \in 0..y-1
      BY <3>1
    <3>3. dirAddr + (x % y) \in Nat /\ dirAddr + (x % y) < to
      BY <3>1, <3>2, <1>l
    <3>4. to < fileLen
      BY <1>l, <2>3
    <3> QED
      BY <3>1, <3>3, <3>4, <1>l
  <2> QED
    BY <2>2, <2>3
<1>3. c \in [0..FileMax-1 -> Unit]
  <2>1. DOMAIN units = 0..FileMax-1 /\ \A o \in 0..FileMax-1 : units[o] \in Unit
    BY DEF FileTyped
  <2>2. \/ c = [o \in DOMAIN units |-> IF o \in Area(to, size) THEN units[dirAddr + (o - to)] ELSE units[o]]
        \/ /\ dirAddr < to /\ to < dirAddr + size
           /\ c = [o \in DOMAIN units |-> IF o \in Area(to, size) THEN units[dirAddr + ((o - to) % (to - dirAddr))] ELSE units[o]]
    BY DEF Copies
  <2>3. CASE c = [o \in DOMAIN units |-> IF o \in Area(to, size) THEN units[dirAddr + (o - to)] ELSE units[o]]
    <3>1. \A o \in 0..FileMax-1 : o \in Area(to, size) => units[dirAddr + (o - to)] \in Unit
      BY <1>2, <2>1
    <3> QED
      BY <2>1, <2>3, <3>1
  <2>4. CASE /\ dirAddr < to /\ to < dirAddr + size
             /\ c = [o \in DOMAIN units |-> IF o \in Area(to, size) THEN units[dirAddr + ((o - to) % (to - dirAddr))] ELSE units[o]]
    <3>1. \A o \in 0..FileMax-1 : o \in Area(to, size) => units[dirAddr + ((o - to) % (to - dirAddr))] \in Unit
      BY <1>2, <2>1, <2>4
    <3> QED
      BY <2>1, <2>4, <3>1
  <2> QED
    BY <2>2, <2>3, <2>4
<1> QED
  BY <1>1, <1>3, ZeroTyped DEF FillContent

LEMMA DirSizeNat == ImportInv => DirSize \in Nat
<1> SUFFICES ASSUME ImportInv
             PROVE  DirSize \in Nat
  OBVIOUS
<1>1. Len(libs) \in Nat /\ importsCount \in Nat
  BY DEF ImportInv, LibsMapped
<1>2. kind \in {"import", "delay", "bound"}
  BY DEF ImportInv, FileTyped
<1> QED
  BY <1>1, <1>2 DEF DirSize

LEMMA MoveTyped ==
    ASSUME ImportInv, NEW to \in Targets, MoveDir(to)
    PROVE  FileTyped'
<1>1. to \in Nat
  BY ImportAssumption
<1>2. PICK size \in Nat : size = DirSize
  BY DirSizeNat
<1>3. dirAddr + size <= fileLen /\ to + size <= fileLen
  BY <1>2 DEF MoveDir, DirInFile, IsAreaEmpty
<1>4. units' \in Moved(units, dirAddr, to, size, ZeroUnit)
  BY <1>2 DEF MoveDir
<1>5. units' \in [0..FileMax-1 -> Unit]
  BY <1>1, <1>3, <1>4, MovedTyped DEF ImportInv
<1> QED
  BY <1>1, <1>5 DEF MoveDir, FileTyped, ImportInv

LEMMA ClearTyped == ImportInv /\ ClearDir => FileTyped'
  BY ZeroTyped DEF ImportInv, ClearDir, FileTyped, FillContent

LEMMA ResizeTyped ==
    ASSUME ImportInv, NEW len \in Lengths \cup {fileLen}, Resize(len)
    PROVE  FileTyped'
  BY ZeroTyped, ImportAssumption DEF ImportInv, Resize, FileTyped, CutTo

LEMMA WrapKeepsInv == FileTyped' /\ Wrap => ImportInv'
<1>1. (FileTyped /\ Wrapped => ImportInv)'
  BY WrappedInv, PTL
<1>2. Wrap => Wrapped'
  BY DEF Wrap, Wrapped
<1> QED
  BY <1>1, <1>2

-----------------------------------------------------------------------------
(* Adding in place *)

\* What a descriptor maps depends on the kind of the directory only.
LEMMA SameMapping ==
    ASSUME kind' = kind, NEW l, NEW d, MappedBy(l, d),
           NEW CONSTANT k, libs'[k] = l, Desc(k)' = d
    PROVE  MappedBy(libs[k], Desc(k))'
<1>1. \A i : (IF d.iat # 0 THEN d.iat + i - 1 ELSE IF kind = "import" THEN 0 ELSE NoVia)
             = (IF d.iat # 0 THEN d.iat + i - 1 ELSE IF kind' = "import" THEN 0 ELSE NoVia)
  BY Zenon
<1>2. \A i : CallVia(d, i) = CallVia(Desc(k), i)'
  BY <1>1 DEF CallVia
<1>3. \A n : Vias(d, n) = Vias(Desc(k), n)'
  BY <1>2 DEF Vias
<1> QED
  BY <1>2, <1>3 DEF MappedBy

NewLibsMapped == \A j \in Nat \ {0} : dirAddr + j - 1 < fileLen => MappedBy(NewLib(j), Desc(j))

LEMMA NewLibMappedAfter ==
    (FileTyped => \A j \in Nat \ {0} : dirAddr + j - 1 < fileLen => MappedBy(NewLib(j), Desc(j)))'
<1>1. FileTyped => NewLibsMapped
  BY NewLibMapped DEF NewLibsMapped
<1>2. (FileTyped => NewLibsMapped)'
  BY <1>1, PTL
<1> QED
  BY <1>2 DEF NewLibsMapped

LEMMA AddLibraryInv == ImportInv /\ AddLibrary => ImportInv'
<1> SUFFICES ASSUME ImportInv, AddLibrary
             PROVE  ImportInv'
  OBVIOUS
<1>0. PICK k : /\ k = Len(libs) + 1 /\ k > 1 /\ HasRoom(dirAddr + k - 1)
               /\ units' = [units EXCEPT ![dirAddr + k - 1] = Desc(k - 1)]
               /\ UNCHANGED <<kind, fileLen, dirAddr, importsCount>>
               /\ libs' = Append(libs, NewLib(k)')
               /\ ReloadMapping
  BY DEF AddLibrary
<1>l. fileLen \in Nat /\ dirAddr \in Nat /\ fileLen <= FileMax /\ FileMax \in Nat
  BY ImportAssumption DEF ImportInv, FileTyped
<1>s. libs \in Seq(Entries) /\ DOMAIN libs = 1..k-1 /\ Len(libs) = k - 1 /\ k \in Nat
  BY <1>0 DEF ImportInv, LibsMapped
<1>1. /\ dirAddr + k < fileLen /\ dirAddr + k - 1 \in 0..FileMax-1 /\ dirAddr + k \in 0..FileMax-1
      /\ units[dirAddr + k] = ZeroUnit
  BY <1>0, <1>l, <1>s DEF HasRoom, IsAreaEmpty, Area
<1>2. HasDesc(k - 1) /\ Desc(k - 1) \in Unit
  <2>1. k - 1 \in DOMAIN libs /\ k - 1 \in Nat \ {0}
    BY <1>0, <1>s
  <2> QED
    BY <2>1, HasDescInFile DEF ImportInv, LibsMapped
<1>3. FileTyped'
  BY <1>0, <1>2 DEF ImportInv, FileTyped
<1>4. ASSUME NEW j \in 1..k-1
      PROVE  Desc(j)' = Desc(j) /\ HasDesc(j)'
  <2>1. HasDesc(j)
    BY <1>s DEF ImportInv, LibsMapped
  <2>2. dirAddr + j - 1 # dirAddr + k - 1 /\ dirAddr + j - 1 \in 0..FileMax-1
    BY <1>l, <1>s, <2>1 DEF HasDesc
  <2>3. DOMAIN units = 0..FileMax-1
    BY DEF ImportInv, FileTyped
  <2>4. units'[dirAddr + j - 1] = units[dirAddr + j - 1]
    BY <1>0, <2>2, <2>3
  <2>5. Desc(j)' = Desc(j)
    BY <1>0, <2>4 DEF Desc
  <2> QED
    BY <1>0, <2>1, <2>5 DEF HasDesc
<1>5. Desc(k)' = Desc(k - 1)
  BY <1>0, <1>1 DEF Desc, ImportInv, FileTyped
<1>6. HasDesc(k)'
  BY <1>0, <1>1, <1>2, <1>5, <1>l, <1>s DEF HasDesc
<1>7. MappedBy(NewLib(k), Desc(k))'
  <2>1. (FileTyped => \A j \in Nat \ {0} : dirAddr + j - 1 < fileLen => MappedBy(NewLib(j), Desc(j)))'
    BY NewLibMappedAfter
  <2>2. k \in Nat \ {0} /\ dirAddr' + k - 1 < fileLen'
    BY <1>0, <1>1, <1>l, <1>s
  <2> QED
    BY <1>3, <2>1, <2>2
<1>8. PICK x : x = NewLib(k)'
  OBVIOUS
<1>9. /\ libs' \in Seq(Entries \cup {x}) /\ Len(libs') = k /\ DOMAIN libs' = 1..k
      /\ libs'[k] = x /\ \A j \in 1..k-1 : libs'[j] = libs[j]
  <2>1. libs \in Seq(Entries \cup {x}) /\ x \in Entries \cup {x}
    BY <1>s
  <2> HIDE DEF Entries
  <2> QED
    BY <1>0, <1>8, <1>s, <2>1
<1>10. libs' \in Seq(Entries')
  <2>1. \A j \in 1..k : libs'[j] \in Entries'
    BY <1>9 DEF Entries
  <2>2. libs' = [j \in 1..k |-> libs'[j]]
    BY <1>9
  <2>3. libs' \in [1..k -> Entries']
    BY <2>1, <2>2
  <2> QED
    BY <1>s, <2>3
<1>11. \A j \in DOMAIN libs' : HasDesc(j)' /\ MappedBy(libs[j], Desc(j))'
  <2>1. ASSUME NEW j \in 1..k-1
        PROVE  MappedBy(libs[j], Desc(j))'
    <3>1. MappedBy(libs[j], Desc(j))
      BY <1>s DEF ImportInv, LibsMapped
    <3>2. libs'[j] = libs[j] /\ Desc(j)' = Desc(j) /\ kind' = kind
      BY <1>0, <1>4, <1>9
    <3> QED
      BY <3>1, <3>2, SameMapping
  <2>2. MappedBy(libs[k], Desc(k))'
    BY <1>7, <1>8, <1>9
  <2>3. \A j \in 1..k : j \in 1..k-1 \/ j = k
    BY <1>s
  <2> QED
    BY <1>4, <1>6, <1>9, <2>1, <2>2, <2>3
<1>12. LibsMapped'
  BY <1>10, <1>11 DEF LibsMapped
<1>13. ThunksAnswered'
  <2>1. (FileTyped /\ LibsMapped /\ thunkToLib = ReloadedLibs => ThunksAnswered)'
    BY ReloadedFound, PTL
  <2> QED
    BY <1>0, <1>3, <1>12, <2>1 DEF ReloadMapping
<1>14. TerminatorKept'
  <2>1. units'[dirAddr + k] = ZeroUnit
    <3>1. dirAddr + k # dirAddr + k - 1
      BY <1>l, <1>s
    <3> QED
      BY <1>0, <1>1, <3>1 DEF ImportInv, FileTyped
  <2>2. dirAddr + (k + 1) - 1 = dirAddr + k
    BY <1>l, <1>s
  <2>3. Desc(k + 1)' = ZeroUnit
    BY <1>0, <2>1, <2>2 DEF Desc
  <2>4. ~HasDesc(k + 1)'
    BY <2>3 DEF HasDesc, ZeroUnit
  <2> QED
    BY <1>9, <2>4 DEF TerminatorKept
<1>15. importsCount' \in Nat
  BY <1>0 DEF ImportInv
<1> QED
  BY <1>3, <1>12, <1>13, <1>14, <1>15 DEF ImportInv

\* A function that is loaded has a slot in the file.
FuncsHaveSlots == \A d \in Unit : \A i \in Nat \ {0} : ~FuncEnds(d, i) => i <= fileLen

LEMMA FuncsInFile == FileTyped => FuncsHaveSlots
<1> SUFFICES ASSUME FileTyped, NEW d \in Unit, NEW i \in Nat \ {0}, ~FuncEnds(d, i)
             PROVE  i <= fileLen
  BY DEF FuncsHaveSlots
<1>1. d.fst \in Nat /\ d.iat \in Nat /\ fileLen \in Nat
  BY ImportAssumption DEF FileTyped, Unit
<1>2. 0 % OrdinalFlag = 0
  BY ImportAssumption
<1>3. Thunk(d, i) # 0
  BY <1>2 DEF FuncEnds, ThunkValue
<1>4. SlotIn(d.fst, i) \/ SlotIn(d.iat, i)
  BY <1>3 DEF Thunk
<1> QED
  BY <1>1, <1>4 DEF SlotIn

LEMMA FuncsInFileAfter == (FileTyped => FuncsHaveSlots)'
  BY FuncsInFile, PTL

\* The thunk that is written lies in the file, behind a thunk and outside of the
\* descriptors that are loaded.
WrittenAt(k, i, next) ==
    /\ i = libs[k].n + 1 /\ i > 1 /\ i \in Nat
    /\ next = SlotOf(Desc(k), i - 1) + 1 /\ next \in 1..FileMax-1 /\ next < fileLen
    /\ units[next] = ZeroUnit
    /\ units' = [units EXCEPT ![next].fst = units[next - 1].fst]
    /\ UNCHANGED <<kind, fileLen, dirAddr, importsCount>>
    /\ FuncEnds(Desc(k), i)' => UNCHANGED <<libs, maps>>
    /\ ~FuncEnds(Desc(k), i)' =>
          /\ libs' = [libs EXCEPT
                        ![k].n = i,
                        ![k].at = IF CallVia(Desc(k), i) = NoVia THEN @ ELSE Put(@, CallVia(Desc(k), i), i)]
          /\ AddMapping(k, CallVia(Desc(k), i))

LEMMA Written ==
    ASSUME ImportInv, NEW k \in DOMAIN libs, AddFunction(k)
    PROVE  \E i, next : WrittenAt(k, i, next)
<1>1. PICK i \in {libs[k].n + 1} : AddFunction(k)!(i)
  BY DEF AddFunction
<1>2. k \in Nat \ {0} /\ HasDesc(k) /\ Desc(k) \in Unit /\ libs[k].n \in 0..FileMax
  <2>1. k \in Nat \ {0} /\ HasDesc(k) /\ MappedBy(libs[k], Desc(k))
    BY DEF ImportInv, LibsMapped
  <2>2. Desc(k) \in Unit
    BY <2>1, HasDescInFile DEF ImportInv
  <2> QED
    BY <2>1, <2>2 DEF MappedBy
<1>3. PICK d \in Unit : d = Desc(k)
  BY <1>2
<1>4. PICK next : next = SlotOf(d, i - 1) + 1
  OBVIOUS
<1>5. i > 1 /\ HasRoom(next) /\ i \in Nat
  BY <1>1, <1>2, <1>3, <1>4, ImportAssumption
<1>6. d.fst \in Nat /\ d.iat \in Nat
  BY <1>3 DEF Unit
<1>7. SlotOf(d, i - 1) \in Nat /\ next \in Nat /\ next >= 1
  BY <1>4, <1>5, <1>6 DEF SlotOf
<1>8. /\ next + 2 <= fileLen /\ next \in Area(next, 2) /\ units[next] = ZeroUnit
      /\ fileLen \in Nat /\ fileLen <= FileMax /\ FileMax \in Nat
  BY <1>5, <1>7, ImportAssumption DEF HasRoom, IsAreaEmpty, Area, ImportInv, FileTyped
<1>9. next \in 1..FileMax-1 /\ next < fileLen
  BY <1>7, <1>8
<1>10. WrittenAt(k, i, next)
  BY <1>1, <1>3, <1>4, <1>5, <1>8, <1>9 DEF WrittenAt
<1> QED
  BY <1>10

\* What was loaded is described as before.
LEMMA WrittenFrame ==
    ASSUME ImportInv, NEW k \in DOMAIN libs, NEW i, NEW next, WrittenAt(k, i, next)
    PROVE  /\ FileTyped' /\ importsCount' \in Nat
           /\ \A o \in 0..FileMax-1 : o # next => units'[o] = units[o]
           /\ \A o \in 0..FileMax-1 : units'[o].txt = units[o].txt
           /\ \A j \in DOMAIN libs : Desc(j)' = Desc(j) /\ HasDesc(j)' /\ dirAddr + j - 1 # next
<1>1. DOMAIN units = 0..FileMax-1 /\ \A o \in 0..FileMax-1 : units[o] \in Unit
  BY DEF ImportInv, FileTyped
<1>2. next - 1 \in 0..FileMax-1 /\ next \in 0..FileMax-1
  BY ImportAssumption DEF WrittenAt
<1>3. PICK v \in Nat : v = units[next - 1].fst
  BY <1>1, <1>2 DEF Unit
<1>4. /\ units' = [units EXCEPT ![next].fst = v] /\ units[next] = ZeroUnit
      /\ kind' = kind /\ fileLen' = fileLen /\ dirAddr' = dirAddr /\ importsCount' = importsCount
  BY <1>3 DEF WrittenAt
<1>5. units'[next] = [units[next] EXCEPT !.fst = v] /\ \A o \in 0..FileMax-1 : o # next => units'[o] = units[o]
  BY <1>1, <1>2, <1>4
<1>6. units'[next] \in Unit /\ units'[next].txt = units[next].txt
  BY <1>1, <1>2, <1>5 DEF Unit
<1>7. FileTyped'
  <2>1. units' \in [0..FileMax-1 -> Unit]
    <3>1. \A o \in 0..FileMax-1 : units'[o] \in Unit
      BY <1>1, <1>5, <1>6
    <3>2. units' = [o \in 0..FileMax-1 |-> units'[o]]
      BY <1>1, <1>4
    <3> QED
      BY <3>1, <3>2
  <2> QED
    BY <1>4, <2>1 DEF ImportInv, FileTyped
<1>8. ASSUME NEW j \in DOMAIN libs
      PROVE  Desc(j)' = Desc(j) /\ HasDesc(j)' /\ dirAddr + j - 1 # next
  <2>1. j \in Nat \ {0} /\ HasDesc(j) /\ Desc(j) # ZeroUnit /\ dirAddr \in Nat
    BY HasDescInFile DEF ImportInv, LibsMapped, FileTyped
  <2>2. dirAddr + j - 1 # next
    BY <1>4, <2>1 DEF Desc
  <2>3. dirAddr + j - 1 \in 0..FileMax-1
    BY <2>1, ImportAssumption DEF HasDesc, ImportInv, FileTyped
  <2>4. Desc(j)' = Desc(j)
    BY <1>4, <1>5, <2>2, <2>3 DEF Desc
  <2> QED
    BY <1>4, <2>1, <2>2, <2>4 DEF HasDesc
<1> QED
  BY <1>4, <1>5, <1>6, <1>7, <1>8 DEF ImportInv

\* A function that is loaded behind the last one is mapped.
Grown(l, via, i) == [l EXCEPT !.n = i, !.at = IF via = NoVia THEN @ ELSE Put(@, via, i)]

LEMMA GrownMapped ==
    ASSUME NEW d, NEW l, MappedBy(l, d), NEW i, i = l.n + 1, i \in 0..FileMax,
           NEW via, via = CallVia(d, i), NEW g,
           g = Grown(l, via, i)
    PROVE  MappedBy(g, d) /\ g.n = i /\ (\A v \in DOMAIN l.at : v # via => v \in DOMAIN g.at /\ g.at[v] = l.at[v])
           /\ (via # NoVia => via \in DOMAIN g.at /\ g.at[via] = i)
<1>1. /\ l = [n |-> l.n, at |-> l.at] /\ l.n \in Nat /\ FileMax \in Nat
      /\ DOMAIN l.at = Vias(d, l.n) /\ l.at = [v \in Vias(d, l.n) |-> l.at[v]]
  BY ImportAssumption DEF MappedBy
<1>o. \A v \in Vias(d, l.n) : l.at[v] \in 1..l.n /\ CallVia(d, l.at[v]) = v
  BY DEF MappedBy
<1>2. PICK at : at = IF via = NoVia THEN l.at ELSE Put(l.at, via, i)
  OBVIOUS
<1>3. g = [n |-> i, at |-> at] /\ g.n = i /\ g.at = at
  BY <1>1, <1>2 DEF Grown
<1>4. Vias(d, i) = Vias(d, l.n) \cup ({via} \ {NoVia})
  <2>1. 1..i = (1..l.n) \cup {i}
    BY <1>1
  <2> QED
    BY <2>1 DEF Vias
<1>5. CASE via = NoVia
  <2>1. at = l.at /\ Vias(d, i) = Vias(d, l.n)
    BY <1>2, <1>4, <1>5
  <2>2. 1..l.n \subseteq 1..i
    BY <1>1
  <2> QED
    BY <1>1, <1>3, <1>5, <1>o, <2>1, <2>2 DEF MappedBy
<1>6. CASE via # NoVia
  <2>1. at = [z \in Vias(d, l.n) \cup {via} |-> IF z = via THEN i ELSE l.at[z]]
    BY <1>1, <1>2, <1>6 DEF Put
  <2>2. Vias(d, i) = Vias(d, l.n) \cup {via}
    BY <1>4, <1>6
  <2>3. ASSUME NEW v \in Vias(d, i)
        PROVE  at[v] \in 1..i /\ CallVia(d, at[v]) = v
    <3>1. CASE v = via
      BY <1>1, <2>1, <3>1
    <3>2. CASE v # via
      <4>1. v \in Vias(d, l.n) /\ at[v] = l.at[v]
        BY <2>1, <2>2, <3>2
      <4>2. at[v] \in 1..l.n /\ CallVia(d, at[v]) = v
        BY <1>o, <4>1
      <4> QED
        BY <1>1, <4>2
    <3> QED
      BY <3>1, <3>2
  <2>4. DOMAIN at = Vias(d, i) /\ at = [v \in Vias(d, i) |-> at[v]]
    BY <2>1, <2>2
  <2>5. \A v \in DOMAIN l.at : v # via => v \in DOMAIN at /\ at[v] = l.at[v]
    BY <1>1, <2>1
  <2>6. via \in DOMAIN at /\ at[via] = i
    BY <2>1
  <2> QED
    BY <1>3, <2>3, <2>4, <2>5, <2>6 DEF MappedBy
<1> QED
  BY <1>5, <1>6

LEMMA SameVia ==
    ASSUME kind' = kind, NEW CONSTANT j, Desc(j)' = Desc(j), NEW CONSTANT i
    PROVE  CallVia(Desc(j), i)' = CallVia(Desc(j), i)
  BY DEF CallVia

\* When the new thunk ends no table, its function is loaded, and no other.
LEMMA WrittenFunctions ==
    ASSUME ImportInv, NEW k \in DOMAIN libs, NEW i, NEW next, WrittenAt(k, i, next),
           ~FuncEnds(Desc(k), i)'
    PROVE  /\ i \in 1..FileMax /\ Functions' = Functions \cup {<<k, i>>} /\ <<k, i>> \notin Functions
           /\ DOMAIN libs' = DOMAIN libs
<1>f. FileTyped' /\ fileLen' = fileLen /\ Desc(k)' = Desc(k)
  <2>1. fileLen' = fileLen
    BY DEF WrittenAt
  <2> QED
    BY <2>1, WrittenFrame
<1>k. k \in Nat \ {0} /\ HasDesc(k) /\ MappedBy(libs[k], Desc(k))
  BY DEF ImportInv, LibsMapped
<1>1. PICK d \in Unit : d = Desc(k) /\ d = Desc(k)'
  BY <1>f, <1>k, HasDescInFile DEF ImportInv
<1>2. PICK l : l = libs[k] /\ l = [n |-> l.n, at |-> l.at] /\ l.n \in 0..FileMax
  BY <1>k DEF MappedBy
<1>3. i = l.n + 1 /\ i > 1 /\ i \in Nat
  BY <1>2 DEF WrittenAt
<1>4. i \in 1..FileMax
  <2>1. i <= fileLen'
    <3>1. FuncsHaveSlots'
      BY <1>f, FuncsInFileAfter
    <3>2. ~FuncEnds(d, i)'
      BY <1>1 DEF FuncEnds, Thunk
    <3> QED
      BY <1>3, <3>1, <3>2 DEF FuncsHaveSlots
  <2> QED
    BY <1>f, <1>3, <2>1, ImportAssumption DEF FileTyped
<1>5. PICK a : libs' = [libs EXCEPT ![k].n = i, ![k].at = a]
  BY DEF WrittenAt
<1>6. /\ DOMAIN libs' = DOMAIN libs /\ libs'[k].n = i
      /\ \A j \in DOMAIN libs : j # k => libs'[j] = libs[j]
  BY <1>2, <1>5
<1>7. ASSUME NEW f \in (DOMAIN libs) \X (1..FileMax)
      PROVE  f[2] <= libs'[f[1]].n <=> f[2] <= libs[f[1]].n \/ f = <<k, i>>
  <2>1. f = <<f[1], f[2]>> /\ f[1] \in DOMAIN libs /\ f[2] \in 1..FileMax
    OBVIOUS
  <2>2. CASE f[1] = k
    <3>1. libs'[f[1]].n = i /\ libs[f[1]].n = l.n /\ (f = <<k, i>> <=> f[2] = i)
      BY <1>2, <1>6, <2>1, <2>2
    <3> QED
      BY <1>2, <1>3, <2>1, <3>1
  <2>3. CASE f[1] # k
    <3>1. libs'[f[1]].n = libs[f[1]].n /\ f # <<k, i>>
      BY <1>6, <2>1, <2>3
    <3> QED
      BY <3>1
  <2> QED
    BY <2>2, <2>3
<1>8. <<k, i>> \in (DOMAIN libs) \X (1..FileMax)
  BY <1>4
<1>9. Functions' = Functions \cup {<<k, i>>}
  BY <1>6, <1>7, <1>8 DEF Functions
<1>10. <<k, i>> \notin Functions
  BY <1>2, <1>3 DEF Functions
<1> QED
  BY <1>4, <1>6, <1>9, <1>10

LEMMA WrittenMaps ==
    ASSUME ImportInv, NEW k \in DOMAIN libs, NEW i, NEW next, WrittenAt(k, i, next)
    PROVE  LibsMapped' /\ ThunksAnswered'
<1>f. /\ FileTyped' /\ kind' = kind /\ fileLen' = fileLen /\ dirAddr' = dirAddr
      /\ \A j \in DOMAIN libs : Desc(j)' = Desc(j) /\ HasDesc(j)'
  BY WrittenFrame DEF WrittenAt
<1>m. libs \in Seq(Entries) /\ \A j \in DOMAIN libs : HasDesc(j) /\ MappedBy(libs[j], Desc(j))
  BY DEF ImportInv, LibsMapped
<1>k. k \in Nat \ {0} /\ HasDesc(k) /\ Desc(k) \in Unit
  <2>1. k \in Nat \ {0} /\ HasDesc(k)
    BY <1>m
  <2> QED
    BY <2>1, HasDescInFile DEF ImportInv
<1>v. \A j \in DOMAIN libs : \A x : CallVia(Desc(j), x)' = CallVia(Desc(j), x)
  BY <1>f, SameVia
<1>a. /\ \A v \in DOMAIN thunkToLib : ~Stray(v) =>
            /\ thunkToLib[v] \in DOMAIN libs /\ v \in DOMAIN libs[thunkToLib[v]].at
            /\ <<thunkToLib[v], libs[thunkToLib[v]].at[v]>> \in Functions
            /\ CallVia(Desc(thunkToLib[v]), libs[thunkToLib[v]].at[v]) = v
      /\ \A f \in Functions : CallVia(Desc(f[1]), f[2]) \in DOMAIN thunkToLib \cup {NoVia}
  BY DEF ImportInv, ThunksAnswered, Answers
<1>1. CASE FuncEnds(Desc(k), i)'
  <2>1. libs' = libs /\ thunkToLib' = thunkToLib /\ thrown' = thrown
    BY <1>1 DEF WrittenAt, maps
  <2>2. ASSUME NEW j \in DOMAIN libs
        PROVE  MappedBy(libs[j], Desc(j))'
    BY <1>f, <1>m, <2>1, SameMapping
  <2>3. LibsMapped'
    BY <1>f, <1>m, <2>1, <2>2 DEF LibsMapped, Entries
  <2>4. Functions' = Functions
    BY <2>1 DEF Functions
  <2>5. ASSUME NEW v \in DOMAIN thunkToLib', NEW j, j = thunkToLib'[v], ~Stray(v)
        PROVE  /\ j \in DOMAIN libs' /\ v \in DOMAIN libs'[j].at
               /\ <<j, libs'[j].at[v]>> \in Functions'
               /\ CallVia(Desc(j), libs[j].at[v])' = v
    <3>1. /\ j \in DOMAIN libs /\ v \in DOMAIN libs[j].at
          /\ <<j, libs[j].at[v]>> \in Functions
          /\ CallVia(Desc(j), libs[j].at[v]) = v
      BY <1>a, <2>1, <2>5
    <3>2. PICK x : x = libs[j].at[v]
      OBVIOUS
    <3>3. CallVia(Desc(j), x)' = v
      BY <1>v, <3>1, <3>2
    <3> QED
      BY <2>1, <2>4, <3>1, <3>2, <3>3
  <2>6. ASSUME NEW f \in Functions'
        PROVE  CallVia(Desc(f[1]), f[2])' \in DOMAIN thunkToLib' \cup {NoVia}
    <3>1. f[1] \in DOMAIN libs /\ f \in Functions
      BY <2>4 DEF Functions
    <3> QED
      BY <1>a, <1>v, <2>1, <3>1
  <2> QED
    BY <2>1, <2>3, <2>5, <2>6 DEF ThunksAnswered, Answers, Stray
<1>2. CASE ~FuncEnds(Desc(k), i)'
  <2>1. PICK d \in Unit : d = Desc(k) /\ d = Desc(k)'
    BY <1>f, <1>k
  <2>2. PICK via : via = CallVia(d, i)
    OBVIOUS
  <2>3. PICK l, g : l = libs[k] /\ g = Grown(l, via, i)
    OBVIOUS
  <2>4. MappedBy(l, d) /\ i = l.n + 1 /\ i \in Nat /\ i > 1
    BY <1>m, <2>1, <2>3 DEF WrittenAt
  <2>5. i \in 0..FileMax
    <3>1. i \in 1..FileMax
      BY <1>2, WrittenFunctions
    <3> QED
      BY <3>1, ImportAssumption
  <2>6. /\ MappedBy(g, d) /\ g.n = i
        /\ \A v \in DOMAIN l.at : v # via => v \in DOMAIN g.at /\ g.at[v] = l.at[v]
        /\ via # NoVia => via \in DOMAIN g.at /\ g.at[via] = i
    <3>1. MappedBy(l, d) /\ i = l.n + 1 /\ via = CallVia(d, i) /\ g = Grown(l, via, i)
      BY <2>2, <2>3, <2>4
    <3> QED
      BY <2>5, <3>1, GrownMapped
  <2>7. libs' = [libs EXCEPT ![k] = g]
    <3>1. libs' = [libs EXCEPT ![k].n = i, ![k].at = IF via = NoVia THEN @ ELSE Put(@, via, i)]
      BY <1>2, <2>1, <2>2 DEF WrittenAt
    <3>2. l = [n |-> l.n, at |-> l.at]
      BY <2>4 DEF MappedBy
    <3> QED
      BY <2>3, <3>1, <3>2 DEF Grown
  <2>8. /\ DOMAIN libs' = DOMAIN libs /\ libs'[k] = g
        /\ \A j \in DOMAIN libs : j # k => libs'[j] = libs[j]
    BY <2>7
  <2>9. libs' \in Seq(Entries')
    <3>1. PICK m \in Nat : DOMAIN libs = 1..m
      BY <1>m
    <3>2. \A j \in 1..m : libs'[j] \in Entries'
      BY <2>8, <3>1 DEF Entries
    <3>3. libs' = [j \in 1..m |-> libs'[j]]
      BY <2>7, <3>1
    <3>4. libs' \in [1..m -> Entries']
      BY <3>2, <3>3
    <3> QED
      BY <3>1, <3>4
  <2>10. ASSUME NEW j \in DOMAIN libs
         PROVE  MappedBy(libs[j], Desc(j))'
    <3>1. CASE j = k
      BY <1>f, <2>1, <2>6, <2>8, <3>1, SameMapping
    <3>2. CASE j # k
      BY <1>f, <1>m, <2>8, <3>2, SameMapping
    <3> QED
      BY <3>1, <3>2
  <2>11. LibsMapped'
    BY <1>f, <2>8, <2>9, <2>10 DEF LibsMapped
  <2>12. Functions' = Functions \cup {<<k, i>>}
    BY <1>2, WrittenFunctions
  <2>13. AddMapping(k, via)
    BY <1>2, <2>1, <2>2 DEF WrittenAt
  <2>14. /\ via = NoVia => thunkToLib' = thunkToLib
         /\ via # NoVia => thunkToLib' = [z \in DOMAIN thunkToLib \cup {via} |-> IF z = via THEN k ELSE thunkToLib[z]]
         /\ thrown' = thrown
    BY <2>13 DEF AddMapping, maps, Put
  <2>15. ASSUME NEW v \in DOMAIN thunkToLib', NEW j, j = thunkToLib'[v],
                (v = via /\ via # NoVia) \/ ~Stray(v)
         PROVE  /\ j \in DOMAIN libs' /\ v \in DOMAIN libs'[j].at
                /\ <<j, libs'[j].at[v]>> \in Functions'
                /\ CallVia(Desc(j), libs[j].at[v])' = v
    <3>1. CASE v = via /\ via # NoVia
      <4>1. j = k
        BY <2>14, <2>15, <3>1
      <4>2. v \in DOMAIN libs'[j].at /\ libs'[j].at[v] = i
        BY <2>6, <2>8, <3>1, <4>1
      <4>3. CallVia(Desc(j), i)' = v
        BY <1>v, <2>1, <2>2, <3>1, <4>1
      <4> QED
        BY <2>8, <2>12, <4>1, <4>2, <4>3
    <3>2. CASE ~(v = via /\ via # NoVia)
      <4>1. v \in DOMAIN thunkToLib /\ j = thunkToLib[v]
        BY <2>14, <2>15, <3>2
      <4>2. /\ j \in DOMAIN libs /\ v \in DOMAIN libs[j].at
            /\ <<j, libs[j].at[v]>> \in Functions
            /\ CallVia(Desc(j), libs[j].at[v]) = v
        BY <1>a, <2>15, <3>2, <4>1
      <4>3. v # via
        <5>1. v # NoVia
          BY <1>m, <4>2 DEF MappedBy, Vias
        <5> QED
          BY <3>2, <5>1
      <4>4. v \in DOMAIN libs'[j].at /\ libs'[j].at[v] = libs[j].at[v]
        <5>1. CASE j = k
          <6>1. v \in DOMAIN l.at
            BY <2>3, <4>2, <5>1
          <6>2. v \in DOMAIN g.at /\ g.at[v] = l.at[v]
            BY <2>6, <4>3, <6>1
          <6> QED
            BY <2>3, <2>8, <5>1, <6>2
        <5>2. CASE j # k
          BY <2>8, <4>2, <5>2
        <5> QED
          BY <5>1, <5>2
      <4>5. PICK x : x = libs[j].at[v]
        OBVIOUS
      <4>6. CallVia(Desc(j), x)' = v
        BY <1>v, <4>2, <4>5
      <4> QED
        BY <2>8, <2>12, <4>2, <4>4, <4>5, <4>6
    <3> QED
      BY <3>1, <3>2
  <2>16. ASSUME NEW f \in Functions'
         PROVE  CallVia(Desc(f[1]), f[2])' \in DOMAIN thunkToLib' \cup {NoVia}
    <3>1. CASE f \in Functions
      <4>1. f[1] \in DOMAIN libs
        BY <3>1 DEF Functions
      <4>2. CallVia(Desc(f[1]), f[2])' \in DOMAIN thunkToLib \cup {NoVia}
        BY <1>a, <1>v, <3>1, <4>1
      <4> QED
        BY <2>14, <4>2
    <3>2. CASE f = <<k, i>>
      <4>1. CallVia(Desc(f[1]), f[2])' = via
        BY <1>v, <2>1, <2>2, <3>2
      <4> QED
        BY <2>14, <4>1
    <3> QED
      BY <2>12, <3>1, <3>2
  <2>17. ASSUME NEW v \in DOMAIN thunkToLib', Stray(v), ~(v = via /\ via # NoVia)
         PROVE  Stray(v)'
    <3>1. v \in DOMAIN thunkToLib /\ thunkToLib'[v] = thunkToLib[v]
      BY <2>14, <2>17
    <3>2. Len(libs') = Len(libs)
      BY <1>m, <2>7, <2>8
    <3> QED
      BY <2>14, <2>17, <3>1, <3>2 DEF Stray
  <2> QED
    BY <2>11, <2>15, <2>16, <2>17 DEF ThunksAnswered, Answers
<1> QED
  BY <1>1, <1>2

-----------------------------------------------------------------------------
(* The terminator *)

FuncsLoad ==
    \A d \in Unit : /\ FuncsOf(d) \in 0..fileLen
                    /\ kind # "bound" /\ IsNameValid(d.name) => StopsFunc(d, FuncsOf(d))

LEMMA FuncsLoadAfter == (FileTyped => FuncsLoad)'
<1>1. FileTyped => FuncsLoad
  BY FuncsLoaded DEF FuncsLoad
<1> QED
  BY <1>1, PTL

\* A library that was invalid remains invalid when a thunk is written behind a
\* table: the thunks of its functions are not 0, so none of them is written to.
LEMMA InvalidStays ==
    ASSUME ImportInv, NEW k \in DOMAIN libs, NEW i, NEW next, WrittenAt(k, i, next),
           NEW j \in DOMAIN libs, LibInvalid(j)
    PROVE  LibInvalid(j)'
<1>f. /\ FileTyped' /\ kind' = kind /\ fileLen' = fileLen /\ dirAddr' = dirAddr
      /\ \A o \in 0..FileMax-1 : o # next => units'[o] = units[o]
      /\ \A o \in 0..FileMax-1 : units'[o].txt = units[o].txt
      /\ Desc(j)' = Desc(j)
  <2>1. kind' = kind /\ fileLen' = fileLen /\ dirAddr' = dirAddr
    BY DEF WrittenAt
  <2> QED
    BY <2>1, WrittenFrame
<1>t. /\ FileTyped /\ fileLen \in Nat /\ FileMax \in Nat /\ fileLen <= FileMax
      /\ \A o \in 0..FileMax-1 : units[o] \in Unit
  BY ImportAssumption DEF ImportInv, FileTyped
<1>1. Desc(j) \in Unit
  <2>1. j \in Nat \ {0} /\ HasDesc(j)
    BY DEF ImportInv, LibsMapped
  <2> QED
    BY <2>1, HasDescInFile DEF ImportInv
<1>2. PICK d \in Unit : d = Desc(j) /\ d = Desc(j)'
  BY <1>1, <1>f
<1>n. \A at \in Nat : IsNameValid(at)' <=> IsNameValid(at)
  <2>1. \A at \in Nat : at < fileLen => at \in 0..FileMax-1
    BY <1>t
  <2> QED
    BY <1>f, <2>1 DEF IsNameValid
<1>3. kind # "bound" /\ (~IsNameValid(d.name) \/ \E x \in 1..FuncsOf(d) : FuncInvalid(d, x))
  BY <1>2 DEF LibInvalid
<1>d. d.name \in Nat /\ d.fst \in Nat /\ d.iat \in Nat
  BY DEF Unit
<1>4. CASE ~IsNameValid(d.name)
  <2>1. ~IsNameValid(d.name)'
    BY <1>4, <1>d, <1>n
  <2> QED
    BY <1>2, <1>3, <1>f, <2>1 DEF LibInvalid, IsNameValid
<1>5. CASE IsNameValid(d.name)
  <2>1. PICK m \in Nat : m = FuncsOf(d)
    BY <1>t, FuncsLoaded
  <2>2. \A y \in Nat : y < m => ~StopsFunc(d, y)
    BY <1>t, <2>1, FuncsLoaded
  <2>3. ASSUME NEW x \in 1..m
        PROVE  Thunk(d, x)' = Thunk(d, x) /\ Thunk(d, x) \in Nat
    <3>1. ~FuncEnds(d, x)
      <4>1. x - 1 \in Nat /\ x - 1 < m /\ (x - 1) + 1 = x
        OBVIOUS
      <4> QED
        BY <2>2, <4>1 DEF StopsFunc
    <3>2. Thunk(d, x) # 0
      <4>1. 0 % OrdinalFlag = 0
        BY ImportAssumption
      <4> QED
        BY <3>1, <4>1 DEF FuncEnds, ThunkValue
    <3>3. SlotIn(d.fst, x)' = SlotIn(d.fst, x) /\ SlotIn(d.iat, x)' = SlotIn(d.iat, x)
      BY <1>f DEF SlotIn
    <3>4. ASSUME NEW t \in Nat, SlotIn(t, x), units[t + x - 1].fst # 0
          PROVE  units'[t + x - 1] = units[t + x - 1] /\ units[t + x - 1].fst \in Nat
      <4>1. t + x - 1 \in 0..FileMax-1
        BY <1>t, <3>4 DEF SlotIn
      <4>2. t + x - 1 # next
        BY <3>4 DEF WrittenAt, ZeroUnit
      <4>3. units[t + x - 1] \in Unit
        BY <1>t, <4>1
      <4> QED
        BY <1>f, <4>1, <4>2, <4>3 DEF Unit
    <3>5. CASE kind = "import" /\ SlotIn(d.fst, x)
      <4>1. Thunk(d, x) = units[d.fst + x - 1].fst /\ Thunk(d, x)' = units'[d.fst + x - 1].fst
        BY <1>f, <3>3, <3>5 DEF Thunk
      <4> QED
        BY <1>d, <3>2, <3>4, <3>5, <4>1
    <3>6. CASE kind = "import" /\ ~SlotIn(d.fst, x)
      <4>1. SlotIn(d.iat, x)
        BY <3>2, <3>6 DEF Thunk
      <4>2. Thunk(d, x) = units[d.iat + x - 1].fst /\ Thunk(d, x)' = units'[d.iat + x - 1].fst
        BY <1>f, <3>3, <3>6, <4>1 DEF Thunk
      <4> QED
        BY <1>d, <3>2, <3>4, <4>1, <4>2
    <3>7. CASE kind # "import"
      <4>1. kind = "delay" /\ SlotIn(d.fst, x) /\ SlotIn(d.iat, x)
        BY <3>2, <3>7 DEF Thunk
      <4>2. Thunk(d, x) = units[d.fst + x - 1].fst /\ Thunk(d, x)' = units'[d.fst + x - 1].fst
        BY <1>f, <3>3, <4>1 DEF Thunk
      <4> QED
        BY <1>d, <3>2, <3>4, <4>1, <4>2
    <3> QED
      BY <3>5, <3>6, <3>7
  <2>4. ASSUME NEW x \in 1..m
        PROVE  (FuncEnds(d, x)' <=> FuncEnds(d, x)) /\ (FuncInvalid(d, x)' <=> FuncInvalid(d, x))
    <3>1. PICK v \in Nat : v = Thunk(d, x) /\ v = Thunk(d, x)'
      BY <2>3
    <3>2. ThunkValue(v)' = ThunkValue(v)
      BY <1>f DEF ThunkValue
    <3>3. FuncEnds(d, x)' <=> FuncEnds(d, x)
      BY <1>f, <3>1 DEF FuncEnds, ThunkValue
    <3>4. FuncInvalid(d, x)' <=> FuncInvalid(d, x)
      <4>1. IsNameValid(v)' <=> IsNameValid(v)
        BY <1>n
      <4>2. FuncInvalid(d, x) <=> ~IsByOrdinal(v) /\ ~IsNameValid(v)
        BY <3>1 DEF FuncInvalid
      <4>3. FuncInvalid(d, x)' <=> ~IsByOrdinal(v) /\ ~IsNameValid(v)'
        BY <3>1 DEF FuncInvalid, IsNameValid
      <4> QED
        BY <4>1, <4>2, <4>3
    <3> QED
      BY <3>3, <3>4
  <2>5. ASSUME NEW y \in Nat, y < m
        PROVE  ~StopsFunc(d, y)'
    <3>1. y + 1 \in 1..m
      BY <2>5
    <3>2. ~FuncEnds(d, y + 1)'
      BY <2>2, <2>4, <2>5, <3>1 DEF StopsFunc
    <3>3. ASSUME y >= InvalidLimit
          PROVE  \E x \in y-InvalidLimit+1 .. y : ~FuncInvalid(d, x)'
      <4>1. PICK x \in y-InvalidLimit+1 .. y : ~FuncInvalid(d, x)
        BY <2>2, <2>5, <3>3 DEF StopsFunc
      <4>2. x \in 1..m
        BY <2>5, <3>3, ImportAssumption
      <4> QED
        BY <2>4, <4>1, <4>2
    <3> QED
      BY <3>2, <3>3 DEF StopsFunc
  <2>6. PICK m2 : m2 = FuncsOf(d)'
    OBVIOUS
  <2>7. m2 \in Nat /\ StopsFunc(d, m2)'
    <3>1. FuncsLoad'
      BY <1>f, FuncsLoadAfter
    <3>2. IsNameValid(d.name)' /\ kind' # "bound"
      BY <1>3, <1>5, <1>d, <1>f, <1>n
    <3>3. FuncsOf(d)' \in 0..fileLen' /\ StopsFunc(d, FuncsOf(d))'
      BY <3>1, <3>2 DEF FuncsLoad
    <3>4. m2 \in 0..fileLen
      BY <1>f, <2>6, <3>3
    <3>5. StopsFunc(d, m2)'
      BY <2>6, <3>3 DEF StopsFunc
    <3> QED
      BY <1>t, <3>4, <3>5
  <2>8. m <= m2
    BY <2>5, <2>7
  <2>9. PICK x \in 1..m : FuncInvalid(d, x)
    BY <1>3, <1>5, <2>1
  <2>10. x \in 1..m2 /\ FuncInvalid(d, x)'
    BY <2>4, <2>7, <2>8, <2>9
  <2>11. kind' # "bound" /\ \E z \in 1..FuncsOf(d)' : FuncInvalid(d, z)'
    BY <1>3, <1>f, <2>6, <2>10
  <2> QED
    BY <1>2, <2>11 DEF LibInvalid
<1> QED
  BY <1>4, <1>5

LEMMA WrittenTerminator ==
    ASSUME ImportInv, NEW k \in DOMAIN libs, NEW i, NEW next, WrittenAt(k, i, next)
    PROVE  TerminatorKept'
<1>f. /\ FileTyped' /\ kind' = kind /\ fileLen' = fileLen /\ dirAddr' = dirAddr
      /\ \A o \in 0..FileMax-1 : o # next => units'[o] = units[o]
      /\ \A j \in DOMAIN libs : Desc(j)' = Desc(j)
  <2>1. kind' = kind /\ fileLen' = fileLen /\ dirAddr' = dirAddr
    BY DEF WrittenAt
  <2> QED
    BY <2>1, WrittenFrame
<1>t. /\ fileLen \in Nat /\ FileMax \in Nat /\ fileLen <= FileMax /\ dirAddr \in Nat
  BY ImportAssumption DEF ImportInv, FileTyped
<1>n. PICK n \in Nat : n = Len(libs) /\ DOMAIN libs = 1..n /\ libs \in Seq(Entries)
  BY DEF ImportInv, LibsMapped
<1>l. /\ Len(libs') = n /\ DOMAIN libs' = 1..n
      /\ \A j \in 1..n : libs[j].n \in 0..FileMax /\ libs[j].n <= libs'[j].n /\ libs'[j].n \in 0..FileMax
  <2>1. LibsMapped' /\ LibsMapped
    BY WrittenMaps DEF ImportInv
  <2>2. DOMAIN libs' = DOMAIN libs
    BY DEF WrittenAt
  <2>3. libs' \in Seq(Entries')
    BY <2>1 DEF LibsMapped
  <2>4. Len(libs') = n /\ DOMAIN libs' = 1..n
    BY <1>n, <2>2, <2>3
  <2>5. \A j \in 1..n : libs[j].n \in 0..FileMax /\ libs'[j].n \in 0..FileMax
    BY <1>n, <2>1, <2>4 DEF LibsMapped, MappedBy
  <2>6. ASSUME NEW j \in 1..n
        PROVE  libs[j].n <= libs'[j].n
    <3>1. CASE libs' = libs
      BY <1>t, <2>5, <3>1
    <3>2. CASE libs' # libs
      <4>1. i = libs[k].n + 1
        BY DEF WrittenAt
      <4>2. PICK a : libs' = [libs EXCEPT ![k].n = i, ![k].at = a]
        BY <3>2 DEF WrittenAt
      <4>3. j # k => libs'[j] = libs[j]
        BY <1>n, <4>2
      <4>4. libs[k] = [n |-> libs[k].n, at |-> libs[k].at]
        BY <2>1 DEF LibsMapped, MappedBy
      <4>5. libs'[k].n = i
        BY <1>n, <4>2, <4>4
      <4> QED
        BY <2>5, <1>n, <4>1, <4>3, <4>5
    <3> QED
      BY <3>1, <3>2
  <2> QED
    BY <2>4, <2>5, <2>6
<1>g. \A f \in Functions : /\ f \in Functions' /\ f[1] \in 1..n
                           /\ SlotOf(Desc(f[1]), f[2])' = SlotOf(Desc(f[1]), f[2])
  <2>1. ASSUME NEW f \in Functions
        PROVE  f \in Functions' /\ f[1] \in 1..n
    <3>1. f \in (1..n) \X (1..FileMax) /\ f[2] <= libs[f[1]].n
      BY <1>n DEF Functions
    <3>2. f[2] <= libs'[f[1]].n
      BY <1>l, <1>t, <3>1
    <3> QED
      BY <1>l, <3>1, <3>2 DEF Functions
  <2> QED
    BY <1>f, <1>n, <2>1 DEF SlotOf, SlotIn
<1> SUFFICES ASSUME HasDesc(n + 1)'
             PROVE  EndsInSeries' \/ ThunksAreLibs'
  BY <1>l DEF TerminatorKept
<1>p. dirAddr + (n + 1) - 1 = dirAddr + n /\ dirAddr + n < fileLen
  BY <1>f, <1>t DEF HasDesc
<1>1. CASE next = dirAddr + n
  <2>1. /\ k \in 1..n /\ libs[k].n \in 0..FileMax /\ i = libs[k].n + 1 /\ i > 1
        /\ next = SlotOf(Desc(k), i - 1) + 1 /\ next \in Nat /\ n >= 1
    BY <1>l, <1>n DEF WrittenAt
  <2>2. PICK f : f = <<k, i - 1>>
    OBVIOUS
  <2>3. f \in Functions /\ f[1] = k /\ f[2] = i - 1
    <3>1. i - 1 \in 1..FileMax /\ i - 1 <= libs[k].n
      BY <2>1, <1>t
    <3> QED
      BY <2>2, <3>1 DEF Functions
  <2>4. SlotOf(Desc(f[1]), f[2]) \in Area(dirAddr, n)
    <3>1. PICK x : x = SlotOf(Desc(k), i - 1)
      OBVIOUS
    <3>2. x \in Nat
      <4>1. Desc(k) \in Unit
        <5>1. k \in Nat \ {0} /\ HasDesc(k) /\ FileTyped
          BY <2>1, <1>n DEF ImportInv, LibsMapped
        <5> QED
          BY <5>1, HasDescInFile
      <4>2. PICK a \in Nat, b \in Nat : a = Desc(k).fst /\ b = Desc(k).iat
        BY <4>1 DEF Unit
      <4>3. x = a + (i - 1) - 1 \/ x = b + (i - 1) - 1
        BY <3>1, <4>2 DEF SlotOf
      <4> QED
        BY <2>1, <4>2, <4>3
    <3>3. x = dirAddr + n - 1
      BY <1>1, <1>t, <2>1, <3>1, <3>2
    <3> QED
      BY <1>t, <2>1, <2>3, <3>1, <3>2, <3>3 DEF Area
  <2>5. f \in Functions' /\ SlotOf(Desc(f[1]), f[2])' \in Area(dirAddr', Len(libs'))
    BY <1>f, <1>g, <1>l, <2>3, <2>4
  <2> QED
    BY <2>5 DEF ThunksAreLibs
<1>2. CASE next # dirAddr + n
  <2>1. dirAddr + n \in 0..FileMax-1
    BY <1>p, <1>t
  <2>2. Desc(n + 1)' = Desc(n + 1)
    BY <1>2, <1>f, <1>p, <2>1 DEF Desc
  <2>3. HasDesc(n + 1)
    BY <1>f, <2>2 DEF HasDesc
  <2>4. EndsInSeries \/ ThunksAreLibs
    BY <1>n, <2>3 DEF ImportInv, TerminatorKept
  <2>5. CASE ThunksAreLibs
    <3>1. PICK f \in Functions : SlotOf(Desc(f[1]), f[2]) \in Area(dirAddr, n)
      BY <1>n, <2>5 DEF ThunksAreLibs
    <3>2. f \in Functions' /\ SlotOf(Desc(f[1]), f[2])' \in Area(dirAddr', Len(libs'))
      BY <1>f, <1>g, <1>l, <3>1
    <3> QED
      BY <3>2 DEF ThunksAreLibs
  <2>6. CASE EndsInSeries
    <3>1. n >= InvalidLimit /\ \A j \in n-InvalidLimit+1 .. n : LibInvalid(j)
      BY <1>n, <2>6 DEF EndsInSeries, Series
    <3>2. \A j \in n-InvalidLimit+1 .. n : j \in 1..n
      BY <3>1, ImportAssumption
    <3>3. \A j \in n-InvalidLimit+1 .. n : LibInvalid(j)'
      BY <1>n, <3>1, <3>2, InvalidStays
    <3> QED
      BY <1>l, <3>1, <3>3 DEF EndsInSeries, Series
  <2> QED
    BY <2>4, <2>5, <2>6
<1> QED
  BY <1>1, <1>2

LEMMA AddFunctionInv ==
    ASSUME ImportInv, NEW k \in DOMAIN libs, AddFunction(k)
    PROVE  ImportInv'
<1>1. PICK i, next : WrittenAt(k, i, next)
  BY Written
<1>2. FileTyped' /\ importsCount' \in Nat
  BY <1>1, WrittenFrame
<1>3. LibsMapped' /\ ThunksAnswered' /\ TerminatorKept'
  BY <1>1, WrittenMaps, WrittenTerminator
<1> QED
  BY <1>2, <1>3 DEF ImportInv

-----------------------------------------------------------------------------
(* The invariant *)

LEMMA InvalidUnchanged ==
    ASSUME ImportInv, UNCHANGED vars, NEW j \in DOMAIN libs, LibInvalid(j)
    PROVE  LibInvalid(j)'
<1>f. kind' = kind /\ units' = units /\ fileLen' = fileLen /\ dirAddr' = dirAddr
  BY DEF vars, file
<1>t. FileTyped /\ FileTyped' /\ fileLen \in Nat
  BY <1>f, ImportAssumption DEF ImportInv, FileTyped
<1>1. PICK d \in Unit : d = Desc(j) /\ d = Desc(j)'
  <2>1. j \in Nat \ {0} /\ HasDesc(j)
    BY DEF ImportInv, LibsMapped
  <2>2. Desc(j) \in Unit
    BY <1>t, <2>1, HasDescInFile
  <2> QED
    BY <1>f, <2>2 DEF Desc
<1>2. \A i : Thunk(d, i)' = Thunk(d, i)
  BY <1>f DEF Thunk, SlotIn
<1>3. \A i : (FuncEnds(d, i)' <=> FuncEnds(d, i)) /\ (FuncInvalid(d, i)' <=> FuncInvalid(d, i))
  BY <1>2, <1>f DEF FuncEnds, FuncInvalid, ThunkValue, IsNameValid
<1>4. \A n : StopsFunc(d, n)' <=> StopsFunc(d, n)
  BY <1>3 DEF StopsFunc
<1>5. IsNameValid(d.name)' <=> IsNameValid(d.name)
  BY <1>f DEF IsNameValid
<1>6. PICK m, m2 : m = FuncsOf(d) /\ m2 = FuncsOf(d)'
  OBVIOUS
<1>7. CASE ~IsNameValid(d.name)
  BY <1>1, <1>5, <1>7, <1>f DEF LibInvalid
<1>8. CASE IsNameValid(d.name)
  <2>1. kind # "bound" /\ \E i \in 1..m : FuncInvalid(d, i)
    BY <1>1, <1>6, <1>8 DEF LibInvalid
  <2>2. m \in Nat /\ \A y \in Nat : y < m => ~StopsFunc(d, y)
    BY <1>t, <1>6, FuncsLoaded
  <2>3. m2 \in Nat /\ StopsFunc(d, m2)'
    <3>1. FuncsLoad'
      BY <1>t, FuncsLoadAfter
    <3>2. FuncsOf(d)' \in 0..fileLen' /\ StopsFunc(d, FuncsOf(d))'
      BY <1>5, <1>8, <1>f, <2>1, <3>1 DEF FuncsLoad
    <3>3. StopsFunc(d, m2)'
      BY <1>6, <3>2 DEF StopsFunc
    <3> QED
      BY <1>6, <1>f, <1>t, <3>2, <3>3
  <2>4. m <= m2
    BY <1>4, <2>2, <2>3
  <2>5. \E i \in 1..m2 : FuncInvalid(d, i)'
    BY <1>3, <2>1, <2>2, <2>3, <2>4
  <2> QED
    BY <1>1, <1>6, <1>f, <2>1, <2>5 DEF LibInvalid
<1> QED
  BY <1>7, <1>8

LEMMA InitInv == Init => ImportInv
<1> SUFFICES ASSUME Init
             PROVE  ImportInv
  OBVIOUS
<1>1. FileTyped
  BY ImportAssumption DEF Init, FileTyped
<1>2. Wrapped
  BY DEF Init, Wrapped
<1> QED
  BY <1>1, <1>2, WrappedInv

\* A step keeps what is loaded, mapped and terminated.
LEMMA StepInv == ImportInv /\ [Next]_vars => ImportInv'
<1> SUFFICES ASSUME ImportInv, [Next]_vars
             PROVE  ImportInv'
  OBVIOUS
<1>1. CASE AddLibrary
  BY <1>1, AddLibraryInv
<1>2. ASSUME NEW k \in DOMAIN libs, AddFunction(k)
      PROVE  ImportInv'
  BY <1>2, AddFunctionInv
<1>3. ASSUME NEW to \in Targets, MoveDir(to)
      PROVE  ImportInv'
  <2>1. FileTyped' /\ Wrap
    BY <1>3, MoveTyped DEF MoveDir
  <2> QED
    BY <2>1, WrapKeepsInv
<1>4. CASE ClearDir
  <2>1. FileTyped' /\ Wrap
    BY <1>4, ClearTyped DEF ClearDir
  <2> QED
    BY <2>1, WrapKeepsInv
<1>5. ASSUME NEW len \in Lengths \cup {fileLen}, Resize(len)
      PROVE  ImportInv'
  <2>1. FileTyped' /\ Wrap
    BY <1>5, ResizeTyped DEF Resize
  <2> QED
    BY <2>1, WrapKeepsInv
<1>6. CASE UNCHANGED vars
  <2>1. FileTyped' /\ (importsCount \in Nat)'
    BY <1>6 DEF vars, file, ImportInv, FileTyped
  <2>2. LibsMapped'
    <3>1. /\ kind' = kind /\ units' = units /\ fileLen' = fileLen /\ dirAddr' = dirAddr /\ libs' = libs
          /\ libs \in Seq(Entries) /\ \A k \in DOMAIN libs : HasDesc(k) /\ MappedBy(libs[k], Desc(k))
      BY <1>6 DEF vars, file, ImportInv, LibsMapped
    <3>2. \A k \in DOMAIN libs : HasDesc(k)' /\ Desc(k)' = Desc(k)
      BY <3>1 DEF HasDesc, Desc
    <3>3. \A k \in DOMAIN libs : MappedBy(libs[k], Desc(k))'
      BY <3>1, <3>2, SameMapping
    <3> QED
      BY <3>1, <3>2, <3>3 DEF LibsMapped, Entries
  <2>3. ThunksAnswered'
    BY <1>6 DEF vars, file, maps, ImportInv, ThunksAnswered, Answers, Stray, Functions, CallVia, Desc
  <2>4. TerminatorKept'
    <3>1. kind' = kind /\ units' = units /\ fileLen' = fileLen /\ dirAddr' = dirAddr /\ libs' = libs
      BY <1>6 DEF vars, file
    <3>2. (HasDesc(Len(libs) + 1)' => HasDesc(Len(libs) + 1)) /\ (ThunksAreLibs => ThunksAreLibs')
      BY <3>1 DEF HasDesc, ThunksAreLibs, Functions, SlotOf, SlotIn, Desc
    <3>3. EndsInSeries => EndsInSeries'
      <4>1. PICK n \in Nat : n = Len(libs) /\ DOMAIN libs = 1..n
        BY DEF ImportInv, LibsMapped
      <4>2. ASSUME n >= InvalidLimit, NEW j \in n-InvalidLimit+1 .. n, LibInvalid(j)
            PROVE  LibInvalid(j)'
        <5>1. j \in DOMAIN libs
          BY <4>1, <4>2, ImportAssumption
        <5> QED
          BY <1>6, <4>2, <5>1, InvalidUnchanged
      <4> QED
        BY <3>1, <4>1, <4>2 DEF EndsInSeries, Series
    <3> QED
      BY <3>1, <3>2, <3>3 DEF ImportInv, TerminatorKept
  <2> QED
    BY <2>1, <2>2, <2>3, <2>4 DEF ImportInv
<1> QED
  BY <1>1, <1>2, <1>3, <1>4, <1>5, <1>6 DEF Next

\* Whatever is added, moved, cleared and wrapped in whatever order, the maps of
\* an import directory lead to its functions, and libraries that are added in
\* place are followed by a terminator.
THEOREM ImportsInvariant == Spec => []ImportInv
<1>1. Init => ImportInv
  BY InitInv
<1>2. ImportInv /\ [Next]_vars => ImportInv'
  BY StepInv
<1> QED
  BY <1>1, <1>2, PTL DEF Spec

\* thunkToFunction finds a function that is loaded and called via the thunk, or,
\* for the thunks that a delay descriptor without a name has mapped before it was
\* thrown out, no function; and every function called via an address is in the
\* map, for every file (ThunksAnswered).
THEOREM ThunksFound == Spec => []ThunksAnswered
<1>1. ImportInv => ThunksAnswered
  BY DEF ImportInv
<1> QED
  BY <1>1, ImportsInvariant, PTL

\* canAddEntry leaves room for the terminator, for every file, so that the next
\* wrap finds the libraries that were added and no others (TerminatorKept).
THEOREM TablesEnd == Spec => []TerminatorKept
<1>1. ImportInv => TerminatorKept
  BY DEF ImportInv
<1> QED
  BY <1>1, ImportsInvariant, PTL

-----------------------------------------------------------------------------
(* Moving the directory *)

LibsLoad == LibCount \in 0..fileLen /\ StopsLib(LibCount) /\ \A m \in Nat : m < LibCount => ~StopsLib(m)

LEMMA LibsLoadAfter == (FileTyped => LibsLoad)'
<1>1. FileTyped => LibsLoad
  BY LibsLoaded DEF LibsLoad
<1> QED
  BY <1>1, PTL

\* An area that is moved to one that it does not overlap arrives there as it was.
LEMMA MovedArea ==
    ASSUME FileTyped, NEW to \in Nat, NEW size \in Nat,
           to + size <= fileLen, Area(dirAddr, size) \cap Area(to, size) = {},
           NEW u \in Moved(units, dirAddr, to, size, ZeroUnit), NEW j \in 1..size
    PROVE  u[to + j - 1] = units[dirAddr + j - 1]
<1>l. fileLen \in Nat /\ dirAddr \in Nat /\ FileMax \in Nat /\ fileLen <= FileMax /\ DOMAIN units = 0..FileMax-1
  BY ImportAssumption DEF FileTyped
<1>1. PICK c \in Copies(units, dirAddr, to, size) : u = FillContent(c, dirAddr, size, ZeroUnit)
  BY DEF Moved
<1>2. PICK o \in 0..FileMax-1 : o = to + j - 1
  BY <1>l
<1>3. o \in Area(to, size) /\ o \notin Area(dirAddr, size) /\ dirAddr + (o - to) = dirAddr + j - 1
  BY <1>2, <1>l DEF Area
<1>4. ~(dirAddr < to /\ to < dirAddr + size)
  <2>1. dirAddr < to /\ to < dirAddr + size => to \in Area(dirAddr, size) /\ to \in Area(to, size)
    BY <1>l DEF Area
  <2> QED
    BY <2>1
<1>5. c = [x \in DOMAIN units |-> IF x \in Area(to, size) THEN units[dirAddr + (x - to)] ELSE units[x]]
  BY <1>4 DEF Copies
<1>6. c[o] = units[dirAddr + j - 1] /\ o \in DOMAIN c
  BY <1>3, <1>5, <1>l
<1>7. u[o] = c[o]
  BY <1>1, <1>3, <1>6 DEF FillContent
<1> QED
  BY <1>2, <1>6, <1>7

\* What MoveKeepsLibraries says of a step.
MoveKeeps ==
    IsMove /\ kind # "bound" /\ importsCount = Len(libs) /\ ~Overlaps(dirAddr')
    /\ EndsWithTerminator /\ EndsWithTerminator' => Len(libs') = Len(libs)

LEMMA MoveStep == ImportInv /\ [Next]_vars => MoveKeeps
<1> SUFFICES ASSUME ImportInv, [Next]_vars, IsMove, kind # "bound", importsCount = Len(libs),
                    ~Overlaps(dirAddr'), EndsWithTerminator, EndsWithTerminator'
             PROVE  Len(libs') = Len(libs)
  BY DEF MoveKeeps
<1>1. PICK to \in Targets : MoveDir(to)
  BY DEF IsMove, Next, vars, file, AddLibrary, AddFunction, ClearDir, Resize
<1>t. /\ FileTyped /\ FileTyped' /\ fileLen \in Nat /\ dirAddr \in Nat /\ to \in Nat \ {0}
  BY <1>1, MoveTyped, ImportAssumption DEF ImportInv, FileTyped
<1>f. kind' = kind /\ fileLen' = fileLen /\ dirAddr' = to
  BY <1>1 DEF MoveDir
<1>2. PICK n \in Nat : n = Len(libs) /\ DOMAIN libs = 1..n
  BY DEF ImportInv, LibsMapped
<1>3. DirSize = n + 1
  BY <1>2 DEF DirSize, ImportInv, FileTyped
<1>4. dirAddr + (n + 1) <= fileLen /\ to + (n + 1) <= fileLen /\ dirAddr # 0
  BY <1>1, <1>3 DEF MoveDir, DirInFile, IsAreaEmpty
<1>5. \A j \in 1..n+1 : Desc(j)' = Desc(j)
  <2>1. Area(dirAddr, n + 1) \cap Area(to, n + 1) = {}
    BY <1>3, <1>f DEF Overlaps
  <2>2. units' \in Moved(units, dirAddr, to, n + 1, ZeroUnit)
    BY <1>1, <1>3 DEF MoveDir
  <2>3. \A j \in 1..n+1 : units'[to + j - 1] = units[dirAddr + j - 1]
    BY <1>2, <1>4, <1>t, <2>1, <2>2, MovedArea
  <2> QED
    BY <1>f, <2>3 DEF Desc
<1>6. \A j \in 1..n+1 : HasDesc(j)' <=> HasDesc(j)
  <2>1. \A j \in 1..n+1 : dirAddr + j - 1 < fileLen /\ to + j - 1 < fileLen
    BY <1>2, <1>4, <1>t
  <2> QED
    BY <1>4, <1>5, <1>f, <1>t, <2>1 DEF HasDesc
<1>7. ~HasDesc(n + 1)' /\ \A j \in 1..n : HasDesc(j)'
  <2>1. ~HasDesc(n + 1)
    BY <1>2 DEF EndsWithTerminator
  <2>2. \A j \in 1..n : HasDesc(j)
    BY <1>2 DEF ImportInv, LibsMapped
  <2> QED
    BY <1>2, <1>6, <2>1, <2>2
<1>8. PICK m : m = LibCount'
  OBVIOUS
<1>9. m \in Nat /\ Len(libs') = m /\ (\A x \in Nat : x < m => ~StopsLib(x)')
  <2>1. LibsLoad'
    BY <1>t, LibsLoadAfter
  <2>2. m \in 0..fileLen' /\ \A x \in Nat : x < m => ~StopsLib(x)'
    BY <1>8, <2>1 DEF LibsLoad
  <2>3. libs' = [j \in 1..m |-> NewLib(j)']
    BY <1>1, <1>8 DEF MoveDir, Wrap, LoadedLibs
  <2>4. m \in Nat
    BY <1>f, <1>t, <2>2
  <2> QED
    BY <2>2, <2>3, <2>4
<1>10. m <= n
  <2>1. StopsLib(n)'
    BY <1>7 DEF StopsLib
  <2> QED
    BY <1>2, <1>9, <2>1
<1>11. ~(m < n)
  <2>1. ~HasDesc(m + 1)'
    BY <1>9 DEF EndsWithTerminator
  <2> QED
    BY <1>2, <1>7, <1>9, <2>1
<1> QED
  BY <1>2, <1>9, <1>10, <1>11

\* A directory that was wrapped since libraries were added is found at its new
\* place with as many libraries, whatever lies behind it, unless it is moved onto
\* itself or ends in a series of invalid entries (MoveKeepsLibraries).
THEOREM LibrariesMoveAlong == Spec => MoveKeepsLibraries
<1>1. ImportInv /\ [Next]_vars => MoveKeeps
  BY MoveStep
<1>2. MoveKeepsLibraries <=> [][MoveKeeps]_vars
  BY DEF MoveKeepsLibraries, MoveKeeps
<1> QED
  BY <1>1, <1>2, ImportsInvariant, PTL DEF Spec

-----------------------------------------------------------------------------
(* The list of thunks *)

\* The length of sequences that are joined is the sum of theirs: c counts them.
LEMMA JoinedLength ==
    \A n \in Nat : \A s, c :
        /\ s \in [1..n -> Seq(Nat)] /\ c \in [0..n -> Nat] /\ c[0] = 0
        /\ \A i \in 1..n : c[i] = c[i-1] + Len(s[i])
        => FlattenSeq(s) \in Seq(Nat) /\ Len(FlattenSeq(s)) = c[n]
<1> SUFFICES ASSUME NEW n \in Nat, NEW s \in [1..n -> Seq(Nat)], NEW c \in [0..n -> Nat], c[0] = 0,
                    \A i \in 1..n : c[i] = c[i-1] + Len(s[i])
             PROVE  FlattenSeq(s) \in Seq(Nat) /\ Len(FlattenSeq(s)) = c[n]
  OBVIOUS
<1>s. s \in Seq(Seq(Nat)) /\ Len(s) = n
  OBVIOUS
<1>1. CASE n = 0
  <2>1. FlattenSeq(s) = s /\ Len(s) = 0
    BY <1>1, <1>s DEF FlattenSeq
  <2>2. s \in Seq(Nat)
    BY <1>1
  <2> QED
    BY <1>1, <2>1, <2>2
<1>2. CASE n # 0
  <2> DEFINE Body(f, i) == IF i = 1 THEN s[i] ELSE f[i-1] \o s[i]
             flatten == CHOOSE f : f = [i \in 1..n |-> Body(f, i)]
  <2>1. FlattenSeq(s) = flatten[n]
    BY <1>2, <1>s DEF FlattenSeq
\* There is such a function on the first m sequences, for every m.
  <2>2. \E f : f = [i \in 1..n |-> Body(f, i)]
    <3> DEFINE Joins(m) == \E f : f = [i \in 1..m |-> Body(f, i)]
               bad == {m \in 1..n : ~Joins(m)}
    <3> HIDE DEF Joins
    <3> SUFFICES ASSUME bad # {}
                 PROVE  FALSE
      <4>1. bad = {} => Joins(n)
        <5>1. n \in 1..n
          BY <1>2
        <5>2. ~Joins(n) => n \in bad
          BY <5>1
        <5> QED
          BY <5>2
      <4> HIDE DEF bad
      <4> QED
        BY <4>1 DEF Joins
    <3>1. PICK m \in bad : \A k \in bad : m <= k
      <4>1. bad \subseteq Nat
        OBVIOUS
      <4> HIDE DEF bad
      <4> QED
        BY <4>1, LeastNumber
    <3>2. m \in 1..n /\ ~Joins(m)
      OBVIOUS
    <3>3. CASE m = 1
      <4> DEFINE f == [i \in 1..1 |-> s[1]]
      <4>1. \A i \in 1..1 : Body(f, i) = s[1]
        OBVIOUS
      <4>2. f = [i \in 1..1 |-> Body(f, i)]
        BY <4>1
      <4> QED
        BY <3>2, <3>3, <4>2 DEF Joins
    <3>4. CASE m # 1
      <4>1. m - 1 \in 1..n /\ m - 1 \notin bad
        BY <3>1, <3>2, <3>4
      <4>2. PICK f : f = [i \in 1..m-1 |-> Body(f, i)]
        BY <4>1 DEF Joins
      <4> DEFINE g == [i \in 1..m |-> IF i = m THEN Body(f, m) ELSE f[i]]
      <4>3. \A i \in 1..m-1 : g[i] = f[i] /\ f[i] = Body(f, i)
        <5>1. \A i \in 1..m-1 : i \in 1..m /\ i # m
          BY <3>2
        <5>2. \A i \in 1..m-1 : g[i] = f[i]
          BY <5>1
        <5> HIDE DEF Body
        <5>3. \A i \in 1..m-1 : f[i] = Body(f, i)
          BY <4>2
        <5> QED
          BY <5>2, <5>3
      <4>4. \A i \in 1..m : i # 1 => i - 1 \in 1..m-1
        BY <3>2
      <4>5. \A i \in 1..m : Body(g, i) = Body(f, i)
        BY <4>3, <4>4
      <4>6. ASSUME NEW i \in 1..m
            PROVE  g[i] = Body(f, i)
        <5>1. CASE i = m
          BY <5>1
        <5>2. CASE i # m
          <6>1. i \in 1..m-1
            BY <3>2, <5>2
          <6> QED
            BY <4>3, <5>2, <6>1
        <5> QED
          BY <5>1, <5>2
      <4> HIDE DEF Body
      <4>7. g = [i \in 1..m |-> Body(g, i)]
        BY <4>5, <4>6
      <4> QED
        BY <3>2, <4>7 DEF Joins
    <3> QED
      BY <3>3, <3>4
  <2>3. flatten = [i \in 1..n |-> Body(flatten, i)]
    BY <2>2
  <2> HIDE DEF flatten
  <2>4. \A i \in 1..n : flatten[i] = Body(flatten, i)
    BY <2>3
  <2>5. \A i \in 1..n : flatten[i] \in Seq(Nat) /\ Len(flatten[i]) = c[i]
    <3> DEFINE bad == {i \in 1..n : ~(flatten[i] \in Seq(Nat) /\ Len(flatten[i]) = c[i])}
    <3> SUFFICES ASSUME bad # {}
                 PROVE  FALSE
      OBVIOUS
    <3>1. PICK m \in bad : \A k \in bad : m <= k
      <4>1. bad \subseteq Nat
        OBVIOUS
      <4> HIDE DEF bad
      <4> QED
        BY <4>1, LeastNumber
    <3>2. m \in 1..n /\ s[m] \in Seq(Nat) /\ c[m] = c[m-1] + Len(s[m])
      OBVIOUS
    <3>3. CASE m = 1
      <4>1. flatten[m] = s[m] /\ m - 1 = 0
        BY <2>4, <3>2, <3>3
      <4> QED
        BY <3>2, <4>1
    <3>4. CASE m # 1
      <4>1. m - 1 \in 1..n /\ m - 1 \notin bad
        BY <3>1, <3>2, <3>4
      <4>2. flatten[m-1] \in Seq(Nat) /\ Len(flatten[m-1]) = c[m-1]
        BY <4>1
      <4>3. flatten[m] = flatten[m-1] \o s[m]
        BY <2>4, <3>2, <3>4
      <4>4. flatten[m] \in Seq(Nat) /\ Len(flatten[m]) = Len(flatten[m-1]) + Len(s[m])
        <5>1. PICK a \in Seq(Nat), b \in Seq(Nat) : a = flatten[m-1] /\ b = s[m]
          BY <3>2, <4>2
        <5>2. a \o b \in Seq(Nat) /\ Len(a \o b) = Len(a) + Len(b)
          OBVIOUS
        <5> QED
          BY <4>3, <5>1, <5>2
      <4> QED
        BY <3>2, <4>2, <4>4
    <3> QED
      BY <3>3, <3>4
  <2> QED
    BY <1>2, <2>1, <2>5
<1> QED
  BY <1>1, <1>2

CalledVia == {f \in Functions : CallVia(Desc(f[1]), f[2]) # NoVia}

LEMMA ViaNat ==
    FileTyped => \A d \in Unit : \A i \in Nat \ {0} :
        IF HasVia(d) THEN CallVia(d, i) \in Nat /\ CallVia(d, i) # NoVia ELSE CallVia(d, i) = NoVia
<1> SUFFICES ASSUME FileTyped, NEW d \in Unit, NEW i \in Nat \ {0}
             PROVE  IF HasVia(d) THEN CallVia(d, i) \in Nat /\ CallVia(d, i) # NoVia ELSE CallVia(d, i) = NoVia
  OBVIOUS
<1>1. PICK a \in Nat : a = d.iat
  BY DEF Unit
<1>2. a # 0 => a + i - 1 \in Nat
  OBVIOUS
<1>3. HasVia(d) => CallVia(d, i) \in Nat
  BY <1>1, <1>2 DEF HasVia, CallVia
<1>4. \A x \in Nat : x # NoVia
  BY DEF NoVia
<1>5. ~HasVia(d) => CallVia(d, i) = NoVia
  BY <1>1 DEF HasVia, CallVia
<1> QED
  BY <1>3, <1>4, <1>5

LEMMA FunctionsFinite == LibsMapped => IsFiniteSet(Functions) /\ IsFiniteSet(CalledVia)
<1> SUFFICES ASSUME LibsMapped
             PROVE  IsFiniteSet(Functions) /\ IsFiniteSet(CalledVia)
  OBVIOUS
<1>1. PICK n \in Nat : DOMAIN libs = 1..n
  BY DEF LibsMapped
<1>2. IsFiniteSet(1..n) /\ IsFiniteSet(1..FileMax)
  BY ImportAssumption, FS_Interval
<1>3. IsFiniteSet((DOMAIN libs) \X (1..FileMax))
  BY <1>1, <1>2, FS_Product
<1>4. Functions \subseteq (DOMAIN libs) \X (1..FileMax) /\ CalledVia \subseteq Functions
  BY DEF Functions, CalledVia
<1>5. IsFiniteSet(Functions)
  BY <1>3, <1>4, FS_Subset
<1> QED
  BY <1>4, <1>5, FS_Subset

\* The list that is loaded again is as long as there are functions that are
\* called via an address.
LEMMA ReloadedLength ==
    FileTyped /\ LibsMapped => ReloadedThunks \in Seq(Nat) /\ Len(ReloadedThunks) = Cardinality(CalledVia)
<1> SUFFICES ASSUME FileTyped, LibsMapped
             PROVE  ReloadedThunks \in Seq(Nat) /\ Len(ReloadedThunks) = Cardinality(CalledVia)
  OBVIOUS
<1>n. PICK n \in Nat : DOMAIN libs = 1..n
  BY DEF LibsMapped
<1>d. \A k \in 1..n : Desc(k) \in Unit /\ libs[k].n \in 0..FileMax
  <2>1. ASSUME NEW k \in 1..n
        PROVE  Desc(k) \in Unit /\ libs[k].n \in 0..FileMax
    <3>1. k \in Nat \ {0} /\ HasDesc(k) /\ MappedBy(libs[k], Desc(k))
      BY <1>n DEF LibsMapped
    <3> QED
      BY <3>1, HasDescInFile DEF MappedBy
  <2> QED
    BY <2>1
<1>m. FileMax \in Nat
  BY ImportAssumption
<1> DEFINE s == [k \in 1..n |-> IF HasVia(Desc(k)) THEN [i \in 1..libs[k].n |-> CallVia(Desc(k), i)] ELSE <<>>]
           Upto(j) == {f \in Functions : HasVia(Desc(f[1])) /\ f[1] <= j}
           c == [j \in 0..n |-> Cardinality(Upto(j))]
<1>1. ReloadedThunks = FlattenSeq(s)
  BY <1>n DEF ReloadedThunks
<1>2. ASSUME NEW k \in 1..n
      PROVE  s[k] \in Seq(Nat) /\ Len(s[k]) = (IF HasVia(Desc(k)) THEN libs[k].n ELSE 0)
  <2>1. CASE HasVia(Desc(k))
    <3>1. PICK m \in Nat : m = libs[k].n
      BY <1>d, <1>m
    <3>2. \A i \in 1..m : CallVia(Desc(k), i) \in Nat
      BY <1>d, <2>1, ViaNat
    <3>3. s[k] \in [1..m -> Nat]
      BY <2>1, <3>1, <3>2
    <3> QED
      BY <2>1, <3>1, <3>3
  <2>2. CASE ~HasVia(Desc(k))
    <3>1. s[k] = <<>>
      BY <2>2
    <3> QED
      BY <2>2, <3>1
  <2> QED
    BY <2>1, <2>2
<1>3. s \in [1..n -> Seq(Nat)]
  BY <1>2
<1>4. ASSUME NEW f \in Functions
      PROVE  f = <<f[1], f[2]>> /\ f[1] \in 1..n /\ f[2] \in 1..FileMax /\ f[2] <= libs[f[1]].n
  BY <1>n DEF Functions
<1>5. \A j \in 0..n : IsFiniteSet(Upto(j)) /\ Cardinality(Upto(j)) \in Nat
  <2>1. ASSUME NEW j \in 0..n
        PROVE  IsFiniteSet(Upto(j))
    <3>1. Upto(j) \subseteq Functions /\ IsFiniteSet(Functions)
      BY FunctionsFinite
    <3> HIDE DEF Upto
    <3> QED
      BY <3>1, FS_Subset
  <2> HIDE DEF Upto
  <2> QED
    BY <2>1, FS_CardinalityType
<1>6. c[0] = 0
  <2>1. Upto(0) = {}
    BY <1>4
  <2> HIDE DEF Upto
  <2> QED
    BY <2>1, FS_EmptySet
<1>7. ASSUME NEW j \in 1..n
      PROVE  c[j] = c[j-1] + Len(s[j])
  <2> DEFINE Row == IF HasVia(Desc(j)) THEN {j} \X (1..libs[j].n) ELSE {}
  <2>1. IsFiniteSet(Row) /\ Cardinality(Row) = Len(s[j])
    <3>1. CASE HasVia(Desc(j))
      <4>1. PICK m \in Nat : m = libs[j].n /\ m <= FileMax
        BY <1>d, <1>m
      <4>2. IsFiniteSet(1..m) /\ Cardinality(1..m) = m
        <5>1. IsFiniteSet(1..m) /\ Cardinality(1..m) = IF 1 > m THEN 0 ELSE m-1+1
          BY FS_Interval
        <5> QED
          BY <5>1
      <4>3. IsFiniteSet({j}) /\ Cardinality({j}) = 1
        BY FS_Singleton
      <4>4. IsFiniteSet({j} \X (1..m)) /\ Cardinality({j} \X (1..m)) = 1 * m
        BY <4>2, <4>3, FS_Product
      <4>5. Row = {j} \X (1..m)
        BY <3>1, <4>1
      <4>6. Len(s[j]) = m /\ 1 * m = m
        BY <1>2, <3>1, <4>1
      <4> HIDE DEF Row, s
      <4> QED
        BY <4>4, <4>5, <4>6
    <3>2. CASE ~HasVia(Desc(j))
      <4>1. Row = {} /\ Len(s[j]) = 0
        BY <1>2, <3>2
      <4> HIDE DEF Row, s
      <4> QED
        BY <4>1, FS_EmptySet
    <3> QED
      BY <3>1, <3>2
  <2>2. Upto(j) = Upto(j-1) \cup Row
    <3>1. ASSUME NEW f \in Upto(j)
          PROVE  f \in Upto(j-1) \cup Row
      <4>1. f \in Functions /\ HasVia(Desc(f[1])) /\ f[1] <= j
        OBVIOUS
      <4>2. CASE f[1] = j
        <5>1. f[2] \in 1..libs[j].n
          BY <1>4, <1>d, <1>m, <4>1, <4>2
        <5>2. f \in Row
          BY <1>4, <4>1, <4>2, <5>1
        <5> QED
          BY <5>2
      <4>3. CASE f[1] # j
        <5>1. f[1] <= j - 1
          BY <1>4, <4>1, <4>3
        <5> QED
          BY <4>1, <5>1
      <4> QED
        BY <4>2, <4>3
    <3>2. ASSUME NEW f \in Upto(j-1)
          PROVE  f \in Upto(j)
      <4>1. f \in Functions /\ HasVia(Desc(f[1])) /\ f[1] <= j - 1
        OBVIOUS
      <4>2. f[1] <= j
        BY <1>4, <4>1
      <4> QED
        BY <4>1, <4>2
    <3>3. ASSUME NEW f \in Row
          PROVE  f \in Upto(j)
      <4>1. HasVia(Desc(j)) /\ f = <<f[1], f[2]>> /\ f[1] = j /\ f[2] \in 1..libs[j].n
        OBVIOUS
      <4>2. f[2] \in 1..FileMax /\ f[2] <= libs[j].n
        BY <1>d, <1>m, <4>1
      <4>3. f \in Functions
        BY <1>n, <4>1, <4>2 DEF Functions
      <4> QED
        BY <4>1, <4>3
    <3> HIDE DEF Upto, Row
    <3> QED
      BY <3>1, <3>2, <3>3
  <2>3. Upto(j-1) \cap Row = {}
    <3>1. \A f \in Upto(j-1) : f[1] # j
      BY <1>4
    <3>2. \A f \in Row : f[1] = j
      OBVIOUS
    <3> HIDE DEF Upto, Row
    <3> QED
      BY <3>1, <3>2
  <2>4. j \in 0..n /\ j - 1 \in 0..n
    OBVIOUS
  <2>5. c[j] = Cardinality(Upto(j)) /\ c[j-1] = Cardinality(Upto(j-1))
    BY <2>4
  <2>6. IsFiniteSet(Upto(j-1)) /\ Cardinality(Upto(j-1)) \in Nat
    BY <1>5, <2>4
  <2> HIDE DEF Upto, Row, c, s
  <2>7. Cardinality(Upto(j)) = Cardinality(Upto(j-1)) + Cardinality(Row) - Cardinality({})
    BY <2>1, <2>2, <2>3, <2>6, FS_Union
  <2>8. Cardinality({}) = 0
    BY FS_EmptySet
  <2>9. Len(s[j]) \in Nat
    BY <1>2
  <2> QED
    BY <2>1, <2>5, <2>6, <2>7, <2>8, <2>9
<1>8. c \in [0..n -> Nat]
  BY <1>5
<1>9. c[n] = Cardinality(CalledVia)
  <2>1. ASSUME NEW f \in Functions
        PROVE  f \in Upto(n) <=> f \in CalledVia
    <3>1. f[1] \in 1..n /\ Desc(f[1]) \in Unit /\ f[2] \in Nat \ {0} /\ f[1] <= n
      BY <1>4, <1>d
    <3>2. HasVia(Desc(f[1])) <=> CallVia(Desc(f[1]), f[2]) # NoVia
      BY <3>1, ViaNat
    <3> QED
      BY <3>1, <3>2 DEF CalledVia
  <2>2. Upto(n) = CalledVia
    BY <2>1 DEF CalledVia
  <2> HIDE DEF Upto
  <2> QED
    BY <2>2
<1> HIDE DEF s, c
<1>10. \A j \in 1..n : c[j] = c[j-1] + Len(s[j])
  BY <1>7
<1>11. PICK s1, c1 : s1 = s /\ c1 = c
  OBVIOUS
<1>12. s1 \in [1..n -> Seq(Nat)] /\ c1 \in [0..n -> Nat] /\ c1[0] = 0
  BY <1>3, <1>6, <1>8, <1>11
<1>13. \A j \in 1..n : c1[j] = c1[j-1] + Len(s1[j])
  BY <1>10, <1>11
<1> HIDE DEF Upto
<1>14. FlattenSeq(s1) \in Seq(Nat) /\ Len(FlattenSeq(s1)) = c1[n]
  BY <1>12, <1>13, JoinedLength
<1> QED
  BY <1>1, <1>9, <1>11, <1>14

\* A delayed import has thunks where its functions have slots in its IAT.
LEMMA ThrownTyped == FileTyped /\ LibsMapped => ThrownThunks \in Seq(Nat)
<1> SUFFICES ASSUME FileTyped, LibsMapped
             PROVE  ThrownThunks \in Seq(Nat)
  OBVIOUS
<1>1. CASE ThrownCount = 0
  <2>1. ThrownThunks = <<>>
    BY <1>1 DEF ThrownThunks
  <2> QED
    BY <2>1
<1>2. CASE ThrownCount # 0
  <2>1. PICK k \in Nat \ {0} : k = Len(libs) + 1
    BY DEF LibsMapped
  <2>2. kind = "delay" /\ dirAddr + k - 1 < fileLen /\ ThrownCount = FuncsOf(Desc(k))
    <3>1. dirAddr + Len(libs) < fileLen => dirAddr + k - 1 < fileLen
      BY <2>1 DEF FileTyped, LibsMapped
    <3> QED
      BY <1>2, <2>1, <3>1 DEF ThrownCount
  <2>3. PICK d \in Unit : d = Desc(k)
    BY <2>2, DescInFile
  <2>4. PICK n \in Nat : n = FuncsOf(d)
    BY <2>3, FuncsLoaded, ImportAssumption DEF FileTyped
  <2>5. ASSUME NEW i \in 1..n
        PROVE  CallVia(d, i) \in Nat
    <3>1. i - 1 \in Nat /\ i - 1 < n /\ (i - 1) + 1 = i /\ i \in Nat \ {0}
      OBVIOUS
    <3>2. ~FuncEnds(d, i)
      <4>1. ~StopsFunc(d, i - 1)
        BY <2>4, <3>1, FuncsLoaded
      <4> QED
        BY <3>1, <4>1 DEF StopsFunc
    <3>3. SlotIn(d.iat, i)
      BY <2>2, <3>2 DEF FuncEnds, ThunkValue, Thunk
    <3>4. HasVia(d)
      BY <3>3 DEF SlotIn, HasVia
    <3> QED
      BY <3>1, <3>4, ViaNat
  <2>6. ThrownThunks = [i \in 1..n |-> CallVia(d, i)]
    BY <2>1, <2>2, <2>3, <2>4 DEF ThrownThunks
  <2>7. ThrownThunks \in [1..n -> Nat]
    BY <2>5, <2>6
  <2> QED
    BY <2>7
<1> QED
  BY <1>1, <1>2

Listed == thunksList \in Seq(Nat) /\ thrown \in Seq(Nat) /\ ListedOnce

\* The maps that are loaded again, and those of a wrap.
ListsLoaded ==
    \/ thunksList = ReloadedThunks /\ thrown = <<>>
    \/ thunksList = ReloadedThunks \o ThrownThunks /\ thrown = ThrownThunks

LEMMA LoadedListed == FileTyped /\ LibsMapped /\ ListsLoaded => Listed
<1> SUFFICES ASSUME FileTyped, LibsMapped, ListsLoaded
             PROVE  Listed
  OBVIOUS
<1>1. PICK s \in Seq(Nat) : s = ReloadedThunks /\ Len(s) = Cardinality(CalledVia)
  BY ReloadedLength
<1>2. PICK r \in Seq(Nat) : r = thrown /\ thunksList = s \o r
  <2>1. CASE thunksList = ReloadedThunks /\ thrown = <<>>
    <3>1. s = s \o <<>> /\ <<>> \in Seq(Nat)
      OBVIOUS
    <3> QED
      BY <1>1, <2>1, <3>1
  <2>2. CASE thunksList = ReloadedThunks \o ThrownThunks /\ thrown = ThrownThunks
    BY <1>1, <2>2, ThrownTyped
  <2> QED
    BY <2>1, <2>2 DEF ListsLoaded
<1>3. thunksList \in Seq(Nat) /\ Len(thunksList) = Len(s) + Len(r)
  BY <1>2
<1> QED
  BY <1>1, <1>2, <1>3 DEF Listed, ListedOnce, CalledVia

LEMMA LoadedListedAfter == (FileTyped /\ LibsMapped /\ ListsLoaded => Listed)'
  BY LoadedListed, PTL

\* The functions that were loaded are called via what they were called via.
LEMMA SameCalled ==
    ASSUME kind' = kind, NEW F, F \subseteq Functions, F \subseteq Functions',
           \A j \in DOMAIN libs : Desc(j)' = Desc(j)
    PROVE  \A f \in F : f \in CalledVia' <=> f \in CalledVia
<1> SUFFICES ASSUME NEW f \in F
             PROVE  f \in CalledVia' <=> f \in CalledVia
  OBVIOUS
<1>1. PICK j, i : j = f[1] /\ i = f[2]
  OBVIOUS
<1>2. j \in DOMAIN libs
  BY <1>1 DEF Functions
<1>3. CallVia(Desc(j), i)' = CallVia(Desc(j), i)
  BY <1>2, SameVia
<1> QED
  BY <1>1, <1>3 DEF CalledVia

\* A function that is added in place is listed when it is loaded.
LEMMA AddedListed ==
    ASSUME ImportInv, Listed, NEW k \in DOMAIN libs, AddFunction(k)
    PROVE  Listed'
<1>1. PICK i, next : WrittenAt(k, i, next)
  BY Written
<1>2. kind' = kind /\ \A j \in DOMAIN libs : Desc(j)' = Desc(j)
  BY <1>1, WrittenFrame DEF WrittenAt
<1>3. CalledVia \subseteq Functions /\ CalledVia' \subseteq Functions'
  BY DEF CalledVia
<1>4. /\ IsFiniteSet(CalledVia) /\ Len(thunksList) = Cardinality(CalledVia) + Len(thrown)
      /\ thunksList \in Seq(Nat) /\ thrown \in Seq(Nat)
  BY FunctionsFinite DEF ImportInv, Listed, ListedOnce, CalledVia
<1>5. CASE FuncEnds(Desc(k), i)'
  <2>1. libs' = libs /\ thunksList' = thunksList /\ thrown' = thrown
    BY <1>1, <1>5 DEF WrittenAt, maps
  <2>2. Functions' = Functions
    BY <2>1 DEF Functions
  <2>3. \A f \in Functions : f \in CalledVia' <=> f \in CalledVia
    BY <1>2, <2>2, SameCalled
  <2>4. CalledVia' = CalledVia
    BY <1>3, <2>2, <2>3
  <2> QED
    BY <1>4, <2>1, <2>4 DEF Listed, ListedOnce, CalledVia
<1>6. CASE ~FuncEnds(Desc(k), i)'
  <2>1. /\ i \in 1..FileMax /\ Functions' = Functions \cup {<<k, i>>} /\ <<k, i>> \notin Functions
    BY <1>1, <1>6, WrittenFunctions
  <2>2. \A f \in Functions : f \in CalledVia' <=> f \in CalledVia
    BY <1>2, <2>1, SameCalled
  <2>3. PICK via : via = CallVia(Desc(k), i) /\ via = CallVia(Desc(k), i)'
    BY <1>2, SameVia
  <2>4. <<k, i>> \in CalledVia' <=> via # NoVia
    BY <2>1, <2>3 DEF CalledVia
  <2>5. AddMapping(k, via)
    BY <1>1, <1>2, <1>6, <2>3 DEF WrittenAt
  <2>6. CASE via = NoVia
    <3>1. thunksList' = thunksList /\ thrown' = thrown
      BY <2>5, <2>6 DEF AddMapping, maps
    <3>2. CalledVia' = CalledVia
      BY <1>3, <2>1, <2>2, <2>4, <2>6
    <3> QED
      BY <1>4, <3>1, <3>2 DEF Listed, ListedOnce, CalledVia
  <2>7. CASE via # NoVia
    <3>1. thunksList' = Append(thunksList, via) /\ thrown' = thrown
      BY <2>5, <2>7 DEF AddMapping
    <3>2. CalledVia' = CalledVia \cup {<<k, i>>} /\ <<k, i>> \notin CalledVia
      BY <1>3, <2>1, <2>2, <2>4, <2>7
    <3>3. Cardinality(CalledVia') = Cardinality(CalledVia) + 1
      BY <1>4, <3>2, FS_AddElement
    <3>4. via \in Nat
      <4>1. Desc(k) \in Unit /\ FileTyped
        BY HasDescInFile DEF ImportInv, LibsMapped
      <4>2. i \in Nat \ {0}
        BY <2>1, ImportAssumption
      <4> QED
        BY <2>3, <2>7, <4>1, <4>2, ViaNat
    <3>5. thunksList' \in Seq(Nat) /\ Len(thunksList') = Len(thunksList) + 1
      BY <1>4, <3>1, <3>4
    <3>6. Len(thunksList') = Cardinality(CalledVia') + Len(thrown')
      <4>1. Len(thrown) \in Nat /\ Cardinality(CalledVia) \in Nat
        BY <1>4, FS_CardinalityType
      <4> QED
        BY <1>4, <3>1, <3>3, <3>5, <4>1
    <3> QED
      BY <1>4, <3>1, <3>5, <3>6 DEF Listed, ListedOnce, CalledVia
  <2> QED
    BY <2>6, <2>7
<1> QED
  BY <1>5, <1>6

LEMMA ListedStep == ImportInv /\ Listed /\ [Next]_vars => Listed'
<1> SUFFICES ASSUME ImportInv, Listed, [Next]_vars
             PROVE  Listed'
  OBVIOUS
<1>1. ImportInv'
  BY StepInv
<1>2. ListsLoaded' => Listed'
  BY <1>1, LoadedListedAfter DEF ImportInv
<1>3. CASE AddLibrary
  BY <1>2, <1>3 DEF AddLibrary, ReloadMapping, ListsLoaded
<1>4. ASSUME NEW k \in DOMAIN libs, AddFunction(k)
      PROVE  Listed'
  BY <1>4, AddedListed
<1>5. ASSUME Wrap
      PROVE  Listed'
  BY <1>2, <1>5 DEF Wrap, ListsLoaded
<1>6. CASE UNCHANGED vars
  BY <1>6 DEF vars, file, maps, Listed, ListedOnce, Functions, CallVia, Desc
<1> QED
  BY <1>3, <1>4, <1>5, <1>6 DEF Next, MoveDir, ClearDir, Resize

\* getThunksList lists each function that is loaded and called via an address
\* once, and beside them just the thunks of the descriptor that the last wrap
\* threw out, for every file, however calls that add to the list and calls that
\* load it again follow each other (ListedOnce).
THEOREM EachListedOnce == Spec => []ListedOnce
<1>1. Init => Listed
  <2>1. Init => FileTyped /\ LibsMapped /\ ListsLoaded
    BY InitInv DEF Init, ImportInv, ListsLoaded
  <2> QED
    BY <2>1, LoadedListed
<1>2. ImportInv /\ Listed /\ [Next]_vars => Listed'
  BY ListedStep
<1>3. Listed => ListedOnce
  BY DEF Listed
<1> QED
  BY <1>1, <1>2, <1>3, ImportsInvariant, PTL DEF Spec

================================================================================
