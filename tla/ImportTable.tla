------------------------------ MODULE ImportTable ------------------------------
(***************************************************************************)
(* The three import directories of a PE file (imports, delayed imports,    *)
(* bound imports): loading their descriptors and functions, the maps from  *)
(* thunks to functions, adding a library or a function in place, moving    *)
(* and clearing the directory.                                             *)
(*                                                                         *)
(* The file is a row of units; a descriptor, a thunk and a name take one   *)
(* unit each. Nothing in the file says what a unit is: each can be read as *)
(* a descriptor (fst, iat, name), as a thunk (fst) and as a text (txt).    *)
(* The units lie in one section, an RVA is an offset.                      *)
(***************************************************************************)
EXTENDS Bytes, SequencesExt

CONSTANTS
    InvalidLimit,   \* INVALID_LIMIT
    OrdinalFlag,    \* a thunk that is not below it imports by ordinal
    Files,          \* [kind, units, len, dir]: the files that may be opened
    FileMax,        \* bound on the length of the file
    Targets,        \* offsets a directory is moved to
    Lengths         \* arguments of resize

Unit == [fst : Nat, iat : Nat, name : Nat, txt : BOOLEAN]

ASSUME ImportAssumption ==
    /\ InvalidLimit \in Nat \ {0} /\ FileMax \in Nat /\ OrdinalFlag \in Nat /\ OrdinalFlag > FileMax
    /\ Targets \subseteq 1..FileMax /\ Lengths \subseteq 1..FileMax
    /\ \A f \in Files :
          /\ f.kind \in {"import", "delay", "bound"} /\ f.units \in [0..FileMax-1 -> Unit]
          /\ f.len \in 1..FileMax /\ f.dir \in 0..FileMax-1

ZeroUnit == [fst |-> 0, iat |-> 0, name |-> 0, txt |-> FALSE]
NoVia == -1   \* INVALID_ADDR

VARIABLES
    kind,           \* "import", "delay" or "bound"
    units,          \* content of the buffer
    fileLen,        \* its length
    dirAddr,        \* where the data directory entry points, or 0
    libs,           \* entries: [n, at], the number of functions and thunkToFuncMap
    importsCount,
    thunkToLib,     \* thunk -> library
    thunksList,
    thrown          \* history: the thunks that the last wrap mapped for a
                    \* descriptor that is not loaded

file == <<kind, units, fileLen, dirAddr>>
maps == <<thunkToLib, thunksList, thrown>>
vars == <<file, libs, importsCount, maps>>

-----------------------------------------------------------------------------
(* Reading the file; libraries and functions are counted from 1 *)

Desc(k) == units[dirAddr + k - 1]

\* loadNextEntry of each directory: the descriptor is in the file and is no
\* terminator.
HasDesc(k) ==
    /\ dirAddr # 0 /\ dirAddr + k - 1 < fileLen
    /\ IF kind = "import" THEN Desc(k).fst # 0 \/ Desc(k).iat # 0 ELSE Desc(k).name # 0

SlotIn(table, i) == table # 0 /\ table + i - 1 < fileLen

\* ImportedFuncWrapper takes the thunk from OriginalFirstThunk, or else from
\* FirstThunk; DelayImpFuncWrapper asks for a slot in both tables and takes it
\* from the name table.
Thunk(d, i) ==
    CASE kind = "import" /\ SlotIn(d.fst, i) -> units[d.fst + i - 1].fst
      [] kind = "import" /\ ~SlotIn(d.fst, i) /\ SlotIn(d.iat, i) -> units[d.iat + i - 1].fst
      [] kind = "delay" /\ SlotIn(d.fst, i) /\ SlotIn(d.iat, i) -> units[d.fst + i - 1].fst
      [] OTHER -> 0

\* Where the wrapper of the function itself is.
SlotOf(d, i) == IF kind = "import" /\ SlotIn(d.fst, i) THEN d.fst + i - 1 ELSE d.iat + i - 1

IsByOrdinal(v) == v >= OrdinalFlag
ThunkValue(v) == IF kind = "import" THEN v % OrdinalFlag ELSE v

IsNameValid(at) == at < fileLen /\ units[at].txt

FuncEnds(d, i) == ThunkValue(Thunk(d, i)) = 0
FuncInvalid(d, i) == LET v == Thunk(d, i) IN ~IsByOrdinal(v) /\ ~IsNameValid(v)

\* The two wrap loops: entries are loaded up to the first that cannot be, or
\* until the last InvalidLimit are all invalid.
Series(Invalid(_), n) == n >= InvalidLimit /\ \A i \in n-InvalidLimit+1 .. n : Invalid(i)
Loaded(Ends(_), Invalid(_)) ==
    LET Stops(n) == Ends(n + 1) \/ Series(Invalid, n)
    IN CHOOSE n \in 0..fileLen : Stops(n) /\ \A m \in 0..n-1 : ~Stops(m)

\* ImportBaseEntryWrapper::wrap: no functions when the name of the library is
\* invalid. Bound imports have none.
FuncsOf(d) ==
    IF kind = "bound" \/ ~IsNameValid(d.name) THEN 0
    ELSE Loaded(LAMBDA i : FuncEnds(d, i), LAMBDA i : FuncInvalid(d, i))

LibInvalid(k) ==
    LET d == Desc(k) IN
    kind # "bound" /\ (~IsNameValid(d.name) \/ \E i \in 1..FuncsOf(d) : FuncInvalid(d, i))

LibCount == Loaded(LAMBDA k : ~HasDesc(k), LibInvalid)
EndsInSeries == Series(LibInvalid, Len(libs))

\* callVia: without a FirstThunk an import is called via 0, a delayed import via
\* no address.
HasVia(d) == d.iat # 0 \/ kind = "import"
CallVia(d, i) ==
    IF d.iat # 0 THEN d.iat + i - 1 ELSE IF kind = "import" THEN 0 ELSE NoVia

Vias(d, n) == {CallVia(d, i) : i \in 1..n} \ {NoVia}
NewLib(k) ==
    LET d == Desc(k)
        n == FuncsOf(d)
    IN [n |-> n, at |-> [v \in Vias(d, n) |-> Max({i \in 1..n : CallVia(d, i) = v})]]

-----------------------------------------------------------------------------
(* Loading *)

\* reloadMapping: the library that is loaded last has the thunk.
ReloadedLibs ==
    [v \in UNION {Vias(Desc(k), libs[k].n) : k \in DOMAIN libs} |->
        Max({k \in DOMAIN libs : v \in Vias(Desc(k), libs[k].n)})]
ReloadedThunks ==
    FlattenSeq([k \in DOMAIN libs |->
        IF HasVia(Desc(k)) THEN [i \in 1..libs[k].n |-> CallVia(Desc(k), i)] ELSE <<>>])

\* Mutant: clearMapping is not called.
ReloadMappingAdds ==
    /\ thunkToLib' = ReloadedLibs'
    /\ thunksList' = thunksList \o ReloadedThunks'
    /\ thrown' = <<>>

ReloadMapping ==
    /\ thunkToLib' = ReloadedLibs'
    /\ thunksList' = ReloadedThunks'
    /\ thrown' = <<>>

LoadedLibs == [k \in 1..LibCount |-> NewLib(k)]

\* The loop is left before it counts the last of the invalid entries.
CountedImports == LET n == LibCount IN IF Series(LibInvalid, n) THEN n - 1 ELSE n

\* The constructor of a delayed import wraps it, which maps its thunks, before
\* loadNextEntry looks at the name and throws the entry out. (Without a name the
\* library is called by what is at RVA 0: see FuncsOf.)
ThrownCount ==
    IF kind = "delay" /\ dirAddr # 0 /\ dirAddr + Len(libs) < fileLen /\ ~EndsInSeries
    THEN FuncsOf(Desc(Len(libs) + 1)) ELSE 0
ThrownThunks == [i \in 1..ThrownCount |-> CallVia(Desc(Len(libs) + 1), i)]

\* The entry thrown out had the number behind the last: thunkToLib finds nothing
\* there, also for a thunk that is a loaded library's as well.
WrappedLibs ==
    [v \in DOMAIN ReloadedLibs \cup Range(ThrownThunks) |->
        IF v \in Range(ThrownThunks) THEN Len(libs) + 1 ELSE ReloadedLibs[v]]

\* wrap of the directory, after the file was changed.
Wrap ==
    /\ libs' = LoadedLibs' /\ importsCount' = CountedImports'
    /\ thunkToLib' = WrappedLibs' /\ thunksList' = (ReloadedThunks \o ThrownThunks)'
    /\ thrown' = ThrownThunks'

-----------------------------------------------------------------------------
(* Operations *)

\* map[x] = y.
Put(f, x, y) == [z \in DOMAIN f \cup {x} |-> IF z = x THEN y ELSE f[z]]

\* Mutant: there is room without a terminator.
HasRoomForOne(at) == IsAreaEmpty(units, fileLen, at, 1, ZeroUnit)

\* ExeNodeWrapper::canAddEntry: two entries of zeros, the second remains.
HasRoom(at) == IsAreaEmpty(units, fileLen, at, 2, ZeroUnit)

\* addEntry(NULL) on the directory: the last descriptor is pasted behind itself
\* and loaded, the maps are reloaded, importsCount stays.
AddLibrary ==
    \E k \in {Len(libs) + 1} :
        /\ k > 1 /\ HasRoom(dirAddr + k - 1)
        /\ units' = [units EXCEPT ![dirAddr + k - 1] = Desc(k - 1)]
        /\ UNCHANGED <<kind, fileLen, dirAddr, importsCount>>
        /\ libs' = Append(libs, NewLib(k)')
        /\ ReloadMapping

\* Mutant: the function is loaded but not mapped.
MapNothing(k, via) == UNCHANGED maps

\* ImportBaseDirWrapper::addMapping for one more function.
AddMapping(k, via) ==
    IF via = NoVia THEN UNCHANGED maps
    ELSE /\ thunkToLib' = Put(thunkToLib, via, k)
         /\ thunksList' = Append(thunksList, via)
         /\ UNCHANGED thrown

\* addEntry(NULL) on a library: its last thunk is pasted behind itself. Whether
\* the function is then loaded depends on the table its thunk is read from,
\* which need not be the one that was written to.
AddFunction(k) ==
    \E i \in {libs[k].n + 1} :
        LET d    == Desc(k)
            next == SlotOf(d, i - 1) + 1
        IN /\ i > 1 /\ HasRoom(next)
           /\ units' = [units EXCEPT ![next].fst = units[next - 1].fst]
           /\ UNCHANGED <<kind, fileLen, dirAddr, importsCount>>
           /\ IF FuncEnds(d, i)'
              THEN UNCHANGED <<libs, maps>>
              ELSE LET via == CallVia(d, i)
                   IN /\ libs' = [libs EXCEPT ![k].n = i,
                                              ![k].at = IF via = NoVia THEN @ ELSE Put(@, via, i)]
                      /\ AddMapping(k, via)

\* Mutant: the terminating descriptor is not counted.
SizeWithoutEnd == CASE kind = "import" -> importsCount
                    [] kind = "delay"  -> Len(libs)
                    [] kind = "bound"  -> Len(libs)

\* getSize of each directory.
DirSize == CASE kind = "import" -> importsCount + 1
             [] kind = "delay"  -> Len(libs) + 1
             [] kind = "bound"  -> Len(libs)

\* (A directory that runs to the end of the file has a terminator outside of the
\* buffer: those are not moved or cleared here.)
DirInFile == dirAddr # 0 /\ dirAddr + DirSize <= fileLen

\* PEFile::moveDataDirEntry. It returned true when this step is taken.
MoveDir(to) ==
    /\ DirInFile
    /\ IsAreaEmpty(units, fileLen, to, DirSize, ZeroUnit)
    /\ units' \in Moved(units, dirAddr, to, DirSize, ZeroUnit)
    /\ dirAddr' = to
    /\ UNCHANGED <<kind, fileLen>>
    /\ Wrap

\* The command cl: the directory is filled with zeros, the file is wrapped.
ClearDir ==
    /\ DirInFile
    /\ units' = FillContent(units, dirAddr, DirSize, ZeroUnit)
    /\ UNCHANGED <<kind, fileLen, dirAddr>>
    /\ Wrap

\* PEFile::resize, and PEFile::wrap for the length the file has.
Resize(len) ==
    /\ units' = CutTo(units, len, ZeroUnit)
    /\ fileLen' = len
    /\ UNCHANGED <<kind, dirAddr>>
    /\ Wrap

Init ==
    \E f \in Files :
        /\ kind = f.kind /\ units = f.units /\ fileLen = f.len /\ dirAddr = f.dir
        /\ libs = LoadedLibs /\ importsCount = CountedImports
        /\ thunkToLib = WrappedLibs /\ thunksList = ReloadedThunks \o ThrownThunks
        /\ thrown = ThrownThunks

Next ==
    \/ AddLibrary
    \/ \E k \in DOMAIN libs : AddFunction(k)
    \/ \E to \in Targets : MoveDir(to)
    \/ ClearDir
    \/ \E len \in Lengths \cup {fileLen} : Resize(len)

Spec == Init /\ [][Next]_vars

-----------------------------------------------------------------------------
(* Properties *)

Functions == {f \in (DOMAIN libs) \X (1..FileMax) : f[2] <= libs[f[1]].n}

\* thunkToFunction: whatever was added, moved and wrapped in whatever order, each
\* thunk in the map leads to a function that is loaded and called via it, or,
\* when the last wrap mapped it for a descriptor that it threw out, to no library
\* at all, never to a wrong one; and each loaded function that is called via an
\* address has it in the map.
Answers(k, v) ==
    /\ k \in DOMAIN libs /\ v \in DOMAIN libs[k].at
    /\ <<k, libs[k].at[v]>> \in Functions
    /\ CallVia(Desc(k), libs[k].at[v]) = v

Stray(v) == v \in Range(thrown) /\ thunkToLib[v] = Len(libs) + 1

ThunksAnswered ==
    /\ \A v \in DOMAIN thunkToLib : Answers(thunkToLib[v], v) \/ Stray(v)
    /\ \A f \in Functions : CallVia(Desc(f[1]), f[2]) \in DOMAIN thunkToLib \cup {NoVia}

\* getThunksList: each loaded function is listed once, although functions are
\* listed when they are loaded and again when the maps are reloaded; and beside
\* them just the thunks of a descriptor that was thrown out by the last wrap,
\* until the maps are reloaded.
ListedOnce ==
    Len(thunksList) =
        Cardinality({f \in Functions : CallVia(Desc(f[1]), f[2]) # NoVia}) + Len(thrown)

\* canAddEntry leaves room behind the new entry: adding libraries and functions
\* in place, in any order, never lets the descriptors run into what lies
\* behind them. (A series of invalid entries ends them earlier, and no
\* terminator is safe when thunks were read as descriptors before.)
ThunksAreLibs == \E f \in Functions : SlotOf(Desc(f[1]), f[2]) \in Area(dirAddr, Len(libs))

TerminatorKept == HasDesc(Len(libs) + 1) => EndsInSeries \/ ThunksAreLibs

Overlaps(to) == Area(dirAddr, DirSize) \cap Area(to, DirSize) # {}
IsMove == dirAddr' # dirAddr

\* moveDataDirEntry: when the directory was wrapped since libraries were added,
\* and is not moved onto itself, as many libraries are found at its new place,
\* whatever lies behind it. (Functions may be found that were not there: the
\* zeros that end a table of thunks may be taken for the new place. So a library
\* may become invalid by the move, which counts only in a series of them.)
EndsWithTerminator == ~HasDesc(Len(libs) + 1) /\ ~EndsInSeries

MoveKeepsLibraries ==
    [][IsMove /\ kind # "bound" /\ importsCount = Len(libs) /\ ~Overlaps(dirAddr')
       /\ EndsWithTerminator /\ EndsWithTerminator'
          => Len(libs') = Len(libs)]_vars
================================================================================
