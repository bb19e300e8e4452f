# bearparser: TLA+ models

bearparser is a C++ library that parses and edits executables (PE, MZ, ELF), with a small
interactive front end, the commander. This directory holds TLA+ models of its core logic, TLC
runs on small instances, and proofs that the TLA+ proof system (`tlapm`) checks for every value of
the constants. Paths below are relative to the repository (`src/...`).

To check a run: `tlc -workers 2 -config PESections.cfg MCPESections`. To check the proofs:
`tlapm PESections_proof.tla` (and the other seven `*_proof.tla`; `Fields_proof` and `PESections_proof` take some minutes each).

## 1. The system

| Part | State | Operations | Talks to |
|---|---|---|---|
| **Buffers** (`AbstractByteBuffer`, `ByteBuffer`, `BufferView`, `FileBuffer`/`FileView`) | bytes, size, padding | bounded access, paste, fill, set numbers and texts, resize, load, dump | everything reads and writes through `getContentAt` |
| **Executable, MappedExe, ExeFactory** | buffer, bit mode, map of wrappers | `convertAddr`, `toRaw`, `isValidAddr`, `resize` (reallocate, then `wrap`), choice of the type of a file | virtual calls into PEFile, DOSExe, ELFFile |
| **PECore / PEFile** | cached header pointers, `sects`, two directory maps, `m_peMutex` | `wrap`, `resize`, `addNewSection`, `extendLastSection`, `getLastSection`, `rawToRva`, `rvaToRaw`, `moveDataDirEntry`, resource replacement, checksum | section wrappers, directory wrappers, buffer |
| **SectHdrsWrapper, SectionHdrWrapper** | `entries` (wrappers), `rSec` and `vSec` (ordered maps keyed by the END of a section), `m_secMutex` | `wrap`, `addEntry`, `reloadMapping`, `getSecHdrAtOffset`, `getSecIndex` | read the file header through PEFile, which calls them under `m_peMutex` |
| **ExeNodeWrapper / ExeElementWrapper** | entries | add an entry behind the last one, copy an element to another offset, field access | base class of every table |
| **Imports, exports, relocations, resources, exceptions, TLS, debug, security, load config, CLR** | entries and look-up maps built by `wrap()` | `wrap`, look-ups, adding entries (imports) | read the buffer through RVAs, so through the section maps |
| **Resources album** | type -> wrappers, leaf -> type | filled while the resource tree is walked | `ResourceDirWrapper` |
| **ELF** | header and table wrappers | `wrap`, address conversion | buffer |
| **Commander** | command table, current executable | reads a command, runs it, catches its exception | PEFile |

How they interact: an edit writes bytes of the buffer; a change of its size reallocates it, so every
cached pointer, wrapper and map is rebuilt by `wrap()`. Correctness is the agreement of four
representations of the same table: the bytes in the file, the count in the file header, the
`entries` vector, and the two ordered maps. What is hard:

* *partial failure*: `addNewSection` writes SizeOfImage before it knows whether the buffer can grow, `extendLastSection`
  writes the section header first and ignores the result of `resize`;
* *threads*: the section operations are documented as "mutex protected", but they give `m_peMutex`
  back around `resize`, which changes the buffer with no lock held;
* *numbers*: sizes are 64 bits in the code, 32 or 16 in the headers; differences go below zero;
  alignments may be 0 in a malformed file;
* *staleness*: pointers to wrappers that a later `wrap()` has deleted; maps built while other
  sections were loaded than now;
* *limits*: SECT_COUNT_MAX, the depth and number of entries of resources, the number of invalid imports.

The properties that make each part correct are listed in section 3; section 7 says what is not modelled. `PROJECT.json` lists every part (`components`) and every hazard
at its line (`hazards`), each with the properties that cover it.

## 2. Modules

| Module | What it is | Code |
|---|---|---|
| `SectionMap` | the address arithmetic as operators on an "image" of the file: mapped sizes, building `rSec`/`vSec`, look-up, `rawToRva`/`rvaToRaw` | SectHdrsWrapper.cpp, PEFile.cpp |
| `SectionTable` | the abstract section table: what editing promises to a caller, with no slots, wrappers, alignments or locks | (a promise, not code) |
| `PESections` | editing from one thread; EXTENDS `SectionMap`, refines `SectionTable` | PEFile.cpp, SectHdrsWrapper.cpp, ExeNodeWrapper.cpp, ByteBuffer.cpp |
| `PEThreads` | the same calls cut at each lock operation and made by several threads; EXTENDS `PESections`, with one thread refines `SectionTable` | PEFile.h, PEFile.cpp, WatchedLocker.h |
| `SectionHandles` | life and death of the wrapper objects that PEFile hands out as plain pointers | SectHdrsWrapper.cpp/.h |
| `Bytes` | what paste, fill, move and resize do to the content of a buffer, as operators | AbstractByteBuffer.cpp, ByteBuffer.cpp, ExeElementWrapper.cpp |
| `ImportTable` | the three import directories: loading, the maps from thunks to functions, adding in place, moving; EXTENDS `Bytes` | ImportBaseDirWrapper.cpp, ImportDirWrapper.cpp, DelayImpDirWrapper.cpp, BoundImpDirWrapper.cpp, ExeNodeWrapper.cpp |
| `Resources` | the walk over the resource tree and the album of its leafs; EXTENDS `Bytes` | ResourceDirWrapper.cpp, rsrc/ResourcesAlbum.cpp |
| `Buffers` | a ByteBuffer, a view of a part of it, their reads, setters and resizes, and how a file is loaded; EXTENDS `Bytes` | AbstractByteBuffer.cpp, ByteBuffer.cpp, FileBuffer.cpp, Util.cpp |
| `Layout` | the structures of the PE format, as sequences of members with their widths | pe_formats.h, pe_undoc.h |
| `FieldIds` | for each wrapper, its field ids, the offsets that `getFieldPtr` adds, and which fields are addresses; EXTENDS `Layout` | the `*Wrapper.h`/`.cpp` of headers and directories |
| `Views` | a PE file as its wrappers read it, and where each structure begins; EXTENDS `FieldIds`, `Bytes` | PECore.cpp, PEFile.cpp, DataDirWrapper.cpp, `getPtr` of the wrappers |
| `Fields` | pointers, sizes, values and writing of fields, the tables of the load configuration, the certificate; EXTENDS `Views` | ExeElementWrapper.cpp, LdConfigDirWrapper.cpp, SecurityDirWrapper.cpp, DebugDirWrapper.cpp |
| `Directories` | the wrappers that load series of entries, and the Rich header; EXTENDS `Views` | ExportDirWrapper.cpp, RelocDirWrapper.cpp, ExceptionDirWrapper.cpp, DebugDirWrapper.cpp, TlsDirWrapper.cpp, BoundImpDirWrapper.cpp, RichHdrWrapper.cpp, PEFile.cpp |
| `Executables` | the addresses of a PE, MZ or ELF, and which of them a file becomes | Executable.cpp, ExeFactory.cpp, DOSExe.cpp/.h, ELFCore.cpp, ELFFile.cpp/.h |
| `Session` | the commander: loading, the loop, each command; EXTENDS `Executables` | main.cpp, Commander.cpp, ExeCommander.cpp/.h, PECommander.cpp/.h |
| `MC*` | values for TLC | |
| `PESections_proof` | types, entries, limit, headers, order, the refinement, and what the maps answer; then, with the same lemmas, for any number of threads: locks, readers, what is left when all calls are over, headers and limit, and that one thread implements `SectionTable` | `PESections`, `PEThreads`, `SectionTable` |
| `SectionHandles_proof`, `ImportTable_proof`, `Resources_proof`, `Fields_proof`, `Directories_proof`, `Buffers_proof`, `Session_proof` | theorems about the module of that name | |

`PESections` is the centre of editing. `PEThreads` takes its pieces (the locked parts of each call) and puts
them into threads; `SectionTable` is the promise both are held against. `Layout`, `FieldIds` and `Views` are what the
wrappers know of the PE format; `Fields` asks about one structure at a time, `Directories` about the
series of entries behind them. `Session` is the program as a user meets it, over executables that are
reduced to what their headers say.

## 3. What is modelled and checked

### Section table, one thread (`SectionMap`, `PESections`)

The file is its length, the slots of the section header table, NumberOfSections and SizeOfImage
(`tbl`, `secNum`, `fileSize`, `imgSize`). What the program keeps of it is the number of
`SectionHdrWrapper` entries (`loaded`) and the two maps. A map is not stored as a function: `mapped`
remembers the image it was built from and by which path (`first`: the constructor, while
`PEFile::sects` is NULL; `rewrap`: `wrap()`; `reload`: `addEntry`), and `Maps(im, mode)` computes it
as the code does. So a stale map is a map of an older image.

| Action | Code |
|---|---|
| `AddNewSection`, `AddNewSectionFails` | `PEFile::addNewSection`: checks, SizeOfImage, resize with its wrap, the slot tested again, paste and load. The failing form is a reallocation that finds no memory, after SizeOfImage was written |
| `ExtendLastSection`, `ExtendLastSectionFails` | `PEFile::extendLastSection`, which writes the header and SizeOfImage and ignores the result of `resize` |
| `Resize` | `PEFile::resize`: `canResize`, `ByteBuffer::resize`, `wrapCore` |
| `Rewrap` | `PEFile::wrap` |

| Run | Shows |
|---|---|
| `editing` | Every sequence of calls on well-formed files: the sections stay in order and inside of the image (`SectionsOrdered`); the entries counted by hand are those a wrap would load (`LoadedIsWrap`); the limit on the number of sections holds (`SectionLimit`); the maps are current whatever path built them, except after an addition that failed half-way (`MapsCurrent`); `rawToRva` and `rvaToRaw` are inverse (`RoundTrip`); each section is found by its first byte even through stale maps (`SectionsReachable`); all of it implements `SectionTable` |
| `any_file` | Zero alignments, a lying count, overlapping or descending sections, content behind the end of the file, a count at the end of a WORD: fields keep their width, entries are those of a wrap, the NT headers are never cut off (`HeadersKept`) |

Files that were never in order, or that once became shorter than their headers claim (`torn`, a
history variable), promise nothing but what `any_file` checks. Growing such a file again brings
zeroed header slots back as sections.

Left out: edits of single header fields by a user, and a header slot that lies half inside the
file. `FileView` has no part: the commander copies the mapped file into a `ByteBuffer` before it
edits.

### Threads (`PEThreads`)

Each call is cut at each lock operation of `m_peMutex` and `m_secMutex`, and where no lock is held
between `canResize` (`CanResizeAsked`), the reallocation (`Realloc`, `ReallocFails`) and the wrap. `stale` says who keeps
pointers into the freed buffer after a reallocation that moved it: the core and the entries until `core.wrap`, the entries until
`SectHdrsWrapper::wrap`. A locked part that uses them, a `canResize` that reads `e_lfanew` through them, or anything that runs while another
thread reallocates sets `undefined`, and nothing happens in that process any more. The same where `core.wrap` throws, because the
NT headers are not in the file. `canResize` takes no lock, so it may also be asked while another thread is in `core.wrap` and has
reset its pointers (`Rewrapping`): `dos` that is NULL makes the offset -1, `opt64` that is NULL makes the headers those of 32 bits. `blind` remembers
that a resize was allowed on such an answer. The directory
wrappers (`wrapDataDirs`) and the resource operations run without locks and are left out.

| Run | Shows |
|---|---|
| `one_thread` | The calls in their many steps, by one thread, with failing reallocations, implement `SectionTable`. Deadlock is checked |
| `two_threads` | Two threads, two calls each out of all five kinds: mutual exclusion of the locked parts (`ThreadsTypeOK`); readers see whole maps (`ReadersSeeWhole`); once no call is under way, entries and maps fit the file (`Settled`); the headers are never cut off although `canResize` is asked with no lock held and its answer may be old, as long as nobody asks inside of another's `core.wrap` (`HeadersAlwaysKept`); each call comes to its end, so no deadlock between the two mutexes (`CallsEnd`) |
| `threads_add` | finding: see section 6 |

**Fairness.** `CallsEnd` assumes weak fairness of the steps of each thread: the operating system
runs every thread that can run, and a mutex that is free is given to a thread that waits. With two
threads and finitely many calls no stronger fairness is needed: a thread that waits for a mutex is
passed over at most as often as the other has locked parts left. Nothing is assumed about the start
of calls beyond that.

### Lifetime of section wrappers (`SectionHandles`)

Addresses are given out by an allocator that may take a freed one again. `wrap()` deletes all wrappers and
makes new ones; clients hold plain pointers. `handles` shows that no wrapper leaks and none deleted
is kept in the entries or maps (`OnlyEntriesLive`), and that a pointer fetched since the last wrap, or
returned by a call that wrapped, is found as the section it was given for (`FreshHandleFound`). Of older
pointers nothing holds, see section 6. Symmetry over addresses and over clients is sound: neither is compared in any other
way than for equality.

### Import directories (`ImportTable`)

The file is a row of units that can each be read as a descriptor, a thunk or a text, since nothing
in a file keeps the tables apart. A library is the number of its functions and its map from thunks
to functions. Actions: `AddLibrary`, `AddFunction` (`addEntry(NULL)` of the directory and of a library: the last
entry is pasted behind itself), `MoveDir` (`moveDataDirEntry`), `ClearDir` (the command `cl`), `Resize` (and a
plain wrap). `Wrap` loads up to a terminator, the end of the file, or a series of `InvalidLimit` invalid
entries. A delay descriptor is wrapped by its constructor, which maps and lists its thunks, and only then tested for a name: the
one that is thrown out leaves its thunks behind, with the number of a library that is not there. `thrown` remembers them until the maps are
reloaded. (For functions of it to be loaded, RVA 0 has to hold what passes for the name of a library, since its name is read there:
two files have that.)

`imports` shows: the maps answer for each loaded function and for no other, although addresses may be shared, missing or
written twice (`ThunksAnswered`); each function is listed once (`ListedOnce`); both but for the thunks in `thrown`; the descriptors never run into what lies behind them
(`TerminatorKept`); a move keeps the libraries (`MoveKeepsLibraries`). The last two exclude what the code does not
survive: thunks that were read as descriptors, a directory moved onto itself (the paste is followed
by a fill of the source, so the overlapping entries are lost), a table that ends in a series of
invalid entries.

Left out: names, hints, fields of 64-bit files (width of thunks), directories whose terminator would
lie behind the end of the file when they are moved or cleared.

### Resources (`Resources`)

Units again, read as directory headers, entries or data. The walk is bounded by `MAX_DEPTH` and
`MAX_ENTRIES` alone. The state is the album: leafs by top entry, types by top entry, contents by leaf, the
containers by type, the listed types, and which wrappers are alive. `resources` shows that the
leafs are those at the ends of the paths of bounded length (`LeafsAreThePaths`), that contents have the types the file
names now (`ContentsCurrent`), and that the album owns live wrappers only and leaks none
(`AlbumOwnsLive`), over cyclic, shared, too deep, cut off and empty trees. Its `allWrappers`, which is never cleared, is not part of that (section 6).

### Buffers and loading (`Buffers`)

A pointer is the number of a byte of the block that was allocated, `mem`, which is longer than the content, `size`, by the
padding; a `BufferView` is its offset and the size it was asked for, trimmed anew for each access. Offsets have `Width`
bits, and the sum in `getContentAt` wraps around. `Load` is the file mapped and copied (`LoadView`, as `main` does)
or read in chunks (`Read`, as `FileBuffer` does, with halved allocations); then there is one action for each
setter (`setStringValue`, `setTextValue`, `setNumValue`, `fillContent`, `pasteBuffer`, `substFragmentByFile`),
`resize`, and making another view.

`buffers` shows: a call on a buffer or view writes to what is its content at that time, also when a shrink has
cut the view (`WritesConfined`); a text is read back up to the end of its field (`TextReadBack`); the buffer that was
loaded begins with the file and goes on with zeros (`LoadedIsPrefix`); what was cut off, or was in the
padding, does not come back when a buffer grows (`GrownIsZero`). `WritesConfined` and
`LoadedIsPrefix` name the two places where the code does a little less (section 6), and a view whose end wraps around
is excluded, since its size is then larger than the block.

### Fields of structures (`Layout`, `FieldIds`, `Views`, `Fields`)

A file is the function of its bytes that are not zero, and its length. It has no sections and an image base of
zero, so that an RVA inside of the file is its own offset (what the maps of sections do is the matter of
`PESections`). Structures are written as the header declares them, for 32 and 64 bits; the
offsets that a wrapper adds are computed from the names of members it uses, so that a wrapper that
takes the wrong member, or the members in another order, shows a field that is not its own.
`Present` says that the directory entry leads to the whole structure. State: the `file`; `sizeOk` of the
certificate; `entries`, `tables` (`subEntriesMap`) and `live` wrappers of the load configuration. Actions: `Rewrap`,
`Resize` (`PEFile::resize`, with its wrap) and `SetNumValue`, which edits a field and wraps nothing.

`pe` is the file as it is `Seen`: with the views of its bit mode (`views`: names, offsets and sizes of the fields of each structure) and
the addresses of its directories (`dirs`), which the code computes anew for each call, as the model does.

`fields` shows: each shown field has the bytes of its own member, in both modes, for each declared size, and
those that are followed as addresses have the width of one (`FieldsCoverMembers`); the fields that the load configuration lists are
those that begin in its declared size (`ListedAreDeclared`); after any number of wraps the entries of its tables are the
entries there are, and none is deleted (`TablesOwnEntries`); a certificate taken for whole ends with the file, up to the two
bytes by which `SecurityDirWrapper::wrap` counts the header too large (`CertificateInFile`).

Left out: names, translations and formatting of fields, the metadata bytes of entries of the guard tables, the
strings that fields point to.

### Directories of entries (`Directories`)

The same `file`, and `pe` computed from it, with what the wrappers keep: the map of names and the number of exports; positions, validity and cached
numbers of the blocks of relocations; the parsed size of exceptions; numbers of entries of the debug, TLS and bound import
directories; the two pointers and the count of the Rich header. `Wrap` builds all of it as `PEFile::wrap` does; `Rewrap`
and `Resize` call it; `SetNumValue` edits the file below the wrappers; `GetRich` is the search that `RichHdrWrapper::getPtr`
makes anew when nothing was found.

`directories` shows: after each wrap an ordinal stands for the last of its names and for no name that is gone, blocks follow one
another without a gap and none is left out, exceptions fill their directory (`DirsCurrent`, of `NamesAreLast`, `BlocksTile`,
`ExceptionsFill`); whatever was edited since, no pointer that a block, an entry or the Rich header gives
leaves the file (`PointersInFile`).

Left out: the texts of names, the types of relocations, the checksum of the Rich header.

### Executables and the commander (`Executables`, `Session`)

An executable is what its headers say: `raws` of a PE is the map from RVAs to offsets that `SectionMap` computes. The operators
of `Executables` are the conversions of `Executable` with their virtual calls answered by each of the three kinds, the cached
values of `ELFCore`, and the choices of `ExeFactory`. `Session` is the program: `tryLoading` with sizes from the user (`AskSize`), the
choice and building of the executable (`Build`), then one turn of the loop for each word (`parseCommands`), with an
action for each command or family of commands. `std::cin` is a sequence of words and a flag, `good`; a
number is read from the begin of a word, and its rest is the next word; one too large for its type gives the largest, and `std::cin` has failed. A command that edits replaces the
executable by any that the file can become: which one is the matter of the other modules. `Build` of an ELF may end the process (`Killed`) where the
code reads outside of its section headers (section 6).

`session` shows: `toRaw`, `vaToRaw` and `detectAddrType` agree with `convertAddr`, and `convertAddr` from RVA to VA is undone by
its inverse (`AddressesAgree`); the segments of an ELF are addresses of it (`SegmentsValid`, when the lowest one is at the
begin of the file and none wraps around); the program ends, unless its input has failed (`Ends`); and once it has failed, no command is
executed again (`FailedInputRunsNothing`).

**Fairness.** `Ends` assumes `WF_vars(Next)`: the process goes on when it can. It waits for nothing but its input, which
is given.

Left out: the help that `main` prints without an argument, and what the commands print beyond a text and a number.

### Mutants

Each property of a passing run is paired in `PROJECT.json` with a change of one definition that a
plausible bug would make (the operators marked "Mutant:"), under which TLC finds the property
violated. A property that no change of the code could break would say nothing about it.

## 4. Bounds, and why they are enough

* **Units.** Lengths are in units, a header slot takes one: FileAlignment 4 and SectionAlignment 8 (2 and 4
  with threads) make every rounding happen with and without a rest, and make them differ; RawSizes and
  VirtSizes hold zero, less than a unit and a whole one.
* **MaxFile, MaxImage** stop the growth in the guards: from the files of `MCPESections` they allow one or two
  additions or extensions between shrinks, which is what a call can leave to the next.
* **Slots, SecMax**: three or four slots, with a limit of two to four, so that a run meets the end of the table, the limit
  and a slot that is not empty. **WW** is 4 in `any_file` so that the count of sections wraps round. **DW** is 64, above
  all lengths: only a difference below zero is cut, as for real files.
* **Threads**: two threads with two calls each contain every pair of overlapping calls, and a call that
  finds what the overlap has left.
* **Imports**: `InvalidLimit` 2 for 100, files of up to 14 units with eleven shapes of tables; five targets
  for moves, before, at, across and behind the directory; one length that cuts the tables off.
* **Resources**: two entries and three levels, for 50 and 5; eight shapes of trees.

* **Buffers**: files of up to 7 bytes of 2 bits, read in chunks of 3 into blocks of up to 9, offsets of 5 bits: chunks with
  and without a rest, a file shorter than `MinBuf`, an allocation that fails, and a view whose end wraps round; two calls after the
  loading, so that a call meets what another has left.
* **Fields, Directories**: structures have their real sizes, so the offsets are the real ones; the files have
  400 to 700 bytes and hold one or two directories each, in both modes, some of them cut by the end of the file. Two or
  three wraps or edits between them: what is kept of an older wrap differs from the file after one.
  `MappedSize` 4096 is the page that `getMappedSize` gives at least.
* **Session**: offsets of 5 bits, so that `AddressesAgree` asks about all of them; all pairs of words, and longer inputs for the
  commands that read several numbers; eleven files, from one that does not exist to ones that are cut in their headers.

The runs stop without a next step where the bounds forbid every action (all but those of `PEThreads`
and `SectionHandles` have `CHECK_DEADLOCK FALSE`: their actions are calls a user may make, not a protocol
that must go on).

## 5. What is proved

For all values of the constants, by `tlapm`. "None" under *Assumes* stands for nothing but the named
assumptions of the modules, which TLC evaluates in every run.

**Section table** (`PESections_proof`)

| Theorem | Says | Assumes |
|---|---|---|
| `TypeCorrect` | `TypeOK` | none |
| `EntriesAreWrapped` | `LoadedIsWrap` | none |
| `LimitKept` | `SectionLimit` | `CountsLegal` |
| `HeadersAreKept` | `HeadersKept` | `HoldsHeaders` |
| `OrderKept` | `SectionsOrdered` | `ValidAlignment`, `NoWrap` |
| `SectionTableImplemented` | `PESections` implements `SectionTable` | the same |
| `AlwaysInOrder` | `SectionTable` keeps its sections in order | none |
| `MapsStayCurrent`, `SectionsFound`, `ConversionsInvert` | `MapsCurrent`, `SectionsReachable`, `RoundTrip` | `AlignmentsFit`, `NoWrap`, `HoldsHeaders`, `FilesLaid` |

**Threads and handles** (`PESections_proof`, `SectionHandles_proof`), for any number of threads, calls, clients and addresses

| Theorem | Says | Assumes |
|---|---|---|
| `ThreadsTypeCorrect` | `ThreadsTypeOK`: a locked part runs exactly while its thread holds the lock | none |
| `ReadersSafe`, `SettlesWhole` | `ReadersSeeWhole`, `Settled` | none |
| `ThreadsKeepHeaders` | `HeadersAlwaysKept`: no overlap cuts the NT headers off, unless `canResize` was asked inside of another thread's `core.wrap` | `HoldsHeaders` |
| `ThreadsKeepLimit` | `SectionLimit`, for threads | `CountsLegal` |
| `OneThreadImplements` | `StepsImplementSectionTable`: the pieces of the calls of one thread implement `SectionTable` | one thread, `ValidAlignment`, `NoWrap` |
| `NothingLeaks`, `FreshHandlesFound` | `OnlyEntriesLive`, `FreshHandleFound` | none |
| `FreshHandleReads` | reading through a fresh handle reads a section, never a deleted wrapper | none |

**Imports, resources, fields and other directories** (`ImportTable_proof`, `Resources_proof`, `Fields_proof`, `Directories_proof`)

| Theorem | Says | Assumes |
|---|---|---|
| `ImportsInvariant` | `ImportInv`: libraries, maps, descriptors and thrown out thunks fit together | none |
| `ThunksFound`, `TablesEnd`, `EachListedOnce` | `ThunksAnswered`, `TerminatorKept`, `ListedOnce` | none |
| `LibrariesMoveAlong` | `MoveKeepsLibraries` | none |
| `NothingIsLeaked`, `ContentsStayCurrent` | `AlbumOwnsLive`, `ContentsCurrent` | none |
| `LeafsStayThePaths` | `LeafsAreThePaths`, for trees of every size and shape, those whose entries lead back included | `FilesAssumption` |
| `FieldsStayCovered` | `FieldsCoverMembers`, in both bit modes | `FieldsAssumption` |
| `ListedStayDeclared` | `ListedAreDeclared`, for every declared size | the same |
| `EntriesAreOwned` | `TablesOwnEntries` | the same |
| `CertificateStaysInFile` | `CertificateInFile` | the same |
| `PointersStayInFile` | `PointersInFile` | `DirectoriesAssumption` |
| `DirsStayCurrent` | `DirsCurrent` | the same |

**Buffers and the commander** (`Buffers_proof`, `Session_proof`)

| Theorem | Says | Assumes |
|---|---|---|
| `BuffersInvariant` | `AllInv`: types and bounds of block and view, and the three below | `ArgumentsFit` |
| `WritesInBounds`, `TextsReadBack`, `FileIsLoaded` | `WritesConfined`, `TextReadBack`, `LoadedIsPrefix` | the same |
| `GrowsByZeros` | `GrownIsZero` | the same |
| `SessionTyped` | the executable is none or has the headers of its kind | `FilesTyped` |
| `ConversionsAgree`, `SegmentsMapped` | `AddressesAgree`, `SegmentsValid` | the same |
| `NothingRunsAfterFailure` | `FailedInputRunsNothing` | none |

### The assumptions, and why the code justifies them

* `HoldsHeaders`: each file that is opened holds its NT headers. `PECore::wrap` refuses others.
* `CountsLegal`: no file is opened with more sections than SECT_COUNT_MAX. The code tests the limit with `==`, so
  for a file that is above it already there is no limit (section 6).
* `ValidAlignment`: no alignment is 0; `AlignmentsFit`: and SectionAlignment is a multiple of FileAlignment, as the
  PE format asks. The code accepts other files: `any_file` has them, and only the theorems without this assumption
  speak of them.
* `NoWrap`: file and image together stay below 4 GB, so that no sum of an address and a size wraps round.
* `FilesLaid`: a file whose headers are in order has at least one section, and its sections start at multiples of the alignments
  and behind the headers. Linkers lay files out so. `RoundTrip` is false for a file without sections that is longer than its
  SizeOfImage: an offset behind it does not come back. The files of `editing` satisfy this assumption and the ones above.
* `ArgumentsFit`: the contents and texts are bytes and printable characters, and offset and length of one call do
  not wrap around in an offset type. A view may: the theorems include that.
* `FilesTyped`: header fields are natural numbers of their width. They are read from bytes.
* `FilesAssumption`, `FieldsAssumption`, `DirectoriesAssumption`: a file has a length and bytes (of `Resources`: units that are read as numbers), and what is
  written to it are numbers. Nothing is assumed of what they say.

### Arguments

*Order of sections.* The order of sections is not inductive. Adding a section puts it at the
rounded end of file and image, so it is behind the others only if they all lie inside of both; and
it is pasted at the slot behind the entries, so they must be all that the count names. The inductive
invariant is `Inv`, that is `TypeOK /\ LoadedIsWrap /\ Intact`, where `Intact` says of a file that is not torn:
the sections are in order and inside of the image, the entries are just those that the count names, and each
lies inside of the file. The shrink that would break it makes the file torn in the same step. `RoundUp`'s facts
(it is a multiple, not below its argument) are lemmas. For an extension, the new size is
not below the old one because the section lies inside of the file; `NoWrap` keeps `va + rs` below a DWORD. There is one step for
each action.

*Refinement.* While the file is not torn its slots up to `loaded` are the abstract sections; a torn file maps
to a damaged table. An addition that finds no memory is `Reserve` or a stutter; every other call is the abstract edit of its name,
`SetLength`, or the step that damages. `AlwaysInOrder` then says that what the abstract table promises
call by call adds up to the global property.

*Maps.* `MapsInv` adds `Laid`: sections are aligned, and the maps were built from the headers that are in the file,
for a SizeOfImage that was enough for them, though perhaps smaller than now. From it, `MapsAre` says what the loop over the headers
builds, by whichever path: one key for each end, in order. `HitIs` says what the look-up by upper bound finds in such
a map, `FindRawIs` and `FindVirtualIs` what that is for an offset and an address, and `OneHolder` that no other section holds it.
Then `OffsetComesBack` and `AddressComesBack` go there and back; the stale SizeOfImage is the one case that may miss.

*Threads.* `ThreadsInv` says of each thread where it is and what it holds, and of the file: outside of the stretch between
pushing an entry and reloading the maps, which only the holder of `m_peMutex` is in, the maps have as many sections as there are entries
(`MapsWhole`); while nobody has reallocated without having wrapped, the entries are those that a wrap would load (`EntriesKnown`). `Settled` by itself
is not inductive: the last of two overlapping calls may leave what the other has to wrap. `HeadersHeld` is the invariant behind `HeadersAlwaysKept`: an answer
of `canResize` is good for whatever the file has become since, because the headers stay where they are; so the size of each resize that was allowed and not
yet made (`realloc`) leaves the headers whole, unless `blind`. `ThreadsWithin`
is the limit with the entry that was pushed and not yet counted.

*One thread.* `Whole(t)` says between any two steps of a call: what is *shown* of the file is in order, and what the call
has still to do will fit, `HeaderWaits` for the header that `addNewSection` has computed and not pasted, `LastWaits` for the header that
`extendLastSection` has changed while the file is as short as before. With it, exactly one step of each call
is the abstract edit, and the others show nothing: the lemmas `AddBegun` (`Reserve`), `Pushed` (`Append`), `ExtendReallocated` (`ExtendLast`),
`Reallocated` (`SetLength`), `ExtendBegun`, `Wrapped` and `Quiet` (stutters).

*Handles.* Addresses are used again, so "the handle is in `entries`" says little; `HandlesInv` says that a fresh
handle is an entry, and that the entries are distinct.

*Imports.* `ImportInv` joins `ThunksAnswered` and `TerminatorKept` to `LibsMapped` (there is a descriptor for each library, and its map
is that of its functions). A thunk that was thrown out has the number behind the last library, and no other thunk has: `WrappedFound` says what a wrap leaves in the
map, `ThrownTyped` what it remembers. An entry added in place keeps it because `canAddEntry` asks for room behind the terminator. `ListedOnce`
needs `Listed`: the list is what a reload would make, with the thunks thrown out behind it, or was grown by `addEntry` since. The list is joined out of one list for each
library; its length and its elements are lemmas by least counterexample.

*Resources.* The album is made by a walk that is limited in depth, over entries that may lead anywhere, back to the root as well; `LeafsAreThePaths`
speaks of paths, with no walk in it. `DepthListed` joins the two, by least depth at which it fails: the walk from a directory lists each leaf that a path of
at most that many entries leads to, once for each path. For the step, the list of a directory is the concatenation of those of its entries
(`DirListed`, again by a least entry), and the paths through different entries are different. `TreeInv` then says that the album is the one of the tree in the file; it is
inductive because every action that changes the file ends with a wrap.

*Fields.* There is a lemma for each wrapper that says what its view is, for both bit modes. It is derived from the structure as it is written in `Layout`: `StructOf` says that
a list of different names is a structure, `StructJoined` that two structures without a common name are one, and `WholeView` that a wrapper that shows every member
in turn has fields that begin at 0, follow each other without a gap, and end with the structure (`Whole`). Six views need more: the 64-bit load configuration and TLS
directory take their names from the 32-bit ones (`LdConfigSwap` for the two members that are the other way round), the 64-bit optional header has no `BaseOfData`, NB10 leaves a member out,
the certificate has padding, RSDS a list of its own. `EveryViewFits` collects what `getFieldSize` relies on, and the address types (`AddrFits`). What remains is the pointers: a listed field of the load configuration
is never without one, because it begins in a declared size that was tested to be in the file (`ConfigWrapper`, `ConfigCount`), so the next field's pointer is there whenever the field is not the last (`FollowedCovers`).
None of that may trust the content, since edits change it between wraps: the invariant `Held` says only that the file has bytes and a length, and of the tables of the load configuration that their lists
are the entries, one after the other, and the entries those that live. They are different from each other because each carries its wrap, table and number (`WrappersListed`, `WrappersCounted`).

*Other directories.* What the wrappers keep is typed and inside of the file (`Held`), but an edit between two wraps may change every number in it. So `PointersInFile` needs each
pointer to be tested by the look-up itself, not by what a wrap saw: for a forwarder, a relocation and an exception that is a lemma each; for the Rich header `RichFound` says that
the search ends at a signature in the file and `RichFieldsFollow` that the fields tile the space between its two ends, for any number of entries. `Current` says that
exports, relocations and exceptions are the result of the last wrap *over some older ones*, which is inductive where "the file's" is not, and the lemmas `NamesLoaded`, `BlocksInPlace` and
`ExceptionsLoaded` say that the older ones do not matter. The loop over the blocks of relocations is a function on the numbers up to
the bound (`BlocksLoaded`), and its invariant is that the next block begins where the last one ended (`LoadNextFollows`).

*Buffers.* `BufInv` bounds block, content and view. What a call wrote is derived from the byte-wise definitions of `Bytes`; where a text ends
and which byte is the first that was not read are lemmas by least counterexample.

*Commander.* `SessionInv` says that what was loaded has the headers of its kind. That nothing runs after a failure needs no invariant: a failed
stream gives an empty word, which is no command (`InputStep`).

### What the proofs have shown of the models

* `RoundTrip` is false, after an addition that found no memory has left a larger SizeOfImage, for some addresses in the
  padding of a section (they find no section); the property names the case.
* `SegmentsValid` holds only for segments that do not wrap round when their size is rounded to pages.
* `Thunk` of `ImportTable` had overlapping CASE arms, which TLC resolves by order and the logic does not: they are
  disjoint now.
* `ExceptionsFill` was first stated with the address that `AtRva` gives, which asks for a whole structure of the view. Its proof failed for ARM64: the directory there
  has entries of 8 bytes, and the first of them is loaded where a whole larger structure would not be in the file. The property asks for `ExceptionPtr(p, 0)` now, as `ExceptionDirWrapper::wrap` does.
* The loops of `Directories` were RECURSIVE operators, and its XOR came from `Bitwise`; they are recursive functions and `BytesXor` now, which can be reasoned about, and mean the same.
* `FieldsAssumption` was too weak: with a file whose "bytes" are no numbers, or an edit of a wrapper that does not exist, the model means nothing. It says so now; TLC's files and edits satisfied it before.
* `SectionLimit` is inductive only together with the count in the file, and, for threads, with nobody
  between the push and the count: the test with `==` relies on both.

### Only model-checked

All invariants and action properties of the passing runs are proved, under the assumptions that the tables name. Liveness under fairness (`CallsEnd`, `Ends`) is out of the prover's reach, like `ENABLED`. The induction theorems of the library cannot be instantiated by the installed
provers either; where the proofs above need induction over data (the maps, the loops over buffers, the joined list), they take the
least element of the set of counterexamples instead. `AddsDisjoint` is violated (section 6).

## 6. Findings

One has a run that finds its property violated, `threads_add`: `PEFile::addNewSection` is documented as "mutex
protected" (PEFile.h:204), but two calls that overlap put two sections at the same file offset, since the place
is chosen before `m_peMutex` is given back (PEFile.cpp:534).

Met while modelling, and part of the models as the code has them. The properties that hold are stated so that
they name these cases:

*Sections and threads*

* `SectHdrsWrapper::addMapping` looks the previous section up in `vSec` by the raw end (SectHdrsWrapper.cpp:451), inserts a
  NULL by doing so, and does not "keep the bigger one" of two sections that end at the same RVA.
* `getSecIndex` answers with the number of entries for a pointer that is none of its entries (SectHdrsWrapper.h:154);
  callers compare with SECT_INVALID_INDEX and read the deleted wrapper.
* `extendLastSection` on a last section with PointerToRawData 0 (as linkers leave it for .bss) takes the whole file,
  headers and all (PEFile.cpp:638, "include overlay in section").
* `resize` reallocates with no lock held (MappedExe.h:42): a reader of another thread that takes `m_peMutex` before the
  wrap uses pointers into the freed buffer. In `PEThreads` this is the way to `undefined`.
* Two overlapping `extendLastSection` calls: the one that resizes last may set the smaller length.
* `SectHdrsWrapper::addEntry` pushes to `entries` without `m_secMutex` (SectHdrsWrapper.cpp:427).
* `extendLastSection` fetches the section again after the wrap (PEFile.cpp:658 "finally, retrieve the
  resized section:"): when a shrink had cut headers off, it is another one.
* The limit of the number of sections is tested with `==` (SectHdrsWrapper.cpp:399, PEFile.cpp:503).
* `canResize` refuses what "will harm headers!" (PEFile.h:355), but reads the pointers of the core with no lock (PEFile.h:353). After a reallocation by
  another thread `core.dos` leads into freed memory: `undefined` too. While another thread is in `core.wrap` it may be NULL: the offset is then
  INVALID_ADDR, its sum with the size of the headers wraps round to less than the headers take, and a resize that cuts them off is
  allowed; with `opt64` NULL the limit is that of a 32-bit file. The wrap that follows finds no NT headers and throws. TLC
  finds such a behaviour of `two_threads` when `HeadersKept` is asked without `~blind`.

*Directories*

* `moveDataDirEntry` onto a place that overlaps the source loses entries (PEFile.cpp:489). `addEntry` of the imports does
  not raise `importsCount` (ImportDirWrapper.cpp:357), so a later move leaves the terminator behind. A loop left in a series of invalid
  entries counts one entry too few (ImportBaseDirWrapper.cpp:141). `DelayImpDirWrapper.h:88` pastes a new function into the
  IAT, and loads it from the table of names.
* A delay descriptor without a name is thrown out after its thunks were mapped and listed (DelayImpDirWrapper.cpp:36). They stay until the
  maps are reloaded and lead to no library, also where a loaded one is called via the same address. It takes printable text at RVA 0.
* `ResourcesAlbum::clear` leaves `allWrappers` as it is, with pointers to deleted wrappers (ResourcesAlbum.cpp:57).
* The key of the map of export names is a WORD, so an entry from 65536 on shows the names of another; of two
  names with one ordinal the last is shown (ExportDirWrapper.cpp:54).
* A block of relocations smaller than its header makes `maxEntriesNumInBlock` count from a size below zero; the
  number is then cut to the file.
* The backward search for the Rich header subtracts 4 until its size is 0: when the distance is no multiple of 4 the
  size goes below zero, and the search goes on to the begin of the file (PEFile.cpp:265).
* A load configuration that ends behind the file has no pointer, but a declared size: its `getFieldPtr` adds the delta of the
  field to INVALID_ADDR and so shows bytes of the begin of the file (LdConfigDirWrapper.cpp:308). The field that is cut by
  the declared size is shown up to its end. `fields` asks about wrappers that have a pointer.

*Buffers*

* `setTextValue` writes a second zero one byte behind what it has checked (AbstractByteBuffer.cpp:391).
* The loop of `AbstractFileBuffer::read` stops at the last but one byte (FileBuffer.cpp:79): a file of a multiple of the chunk and
  one byte loses its last one.
* The copying constructor of `ByteBuffer` copies as many bytes as the new buffer has, though fewer were checked
  (ByteBuffer.cpp:49): it reads behind a file shorter than `MINBUF`, in the page that is mapped.
* A `BufferView` whose offset and size together wrap around is longer than its parent (AbstractByteBuffer.cpp:429).

*Addresses, ELF and the commander*

* `rvaToRaw` and `rawToRva` of an ELF return 0 for every address (ELFFile.h:50).
* An ELF with section headers counted but none located (`e_shoff` 0) makes `getSectionNameByIndex` read outside of the empty `shdrs`
  (ELFCore.cpp:396): the outcome is any, and the model has going on and being killed.
* An ELF header is accepted when one byte of it is in the file (ELFCore.cpp:53). The virtual size is counted from the
  lowest segment, the image base from another field (ELFCore.cpp:291): they differ when the lowest segment is not at
  the begin of the file.
* A file that looks like a PE, and whose headers are cut, is not tried as an MZ.
* At the end of the input `parseCommands` prints the help for ever. A word that begins with a hexadecimal digit is
  taken for a number: `einfo`, typed where an offset is asked for, is 14, and `info` is the next command.

## 7. Not modelled

* **The checksum** (`PEFile::computeChecksum`): a sum of all words of a file that no state depends on. For an odd offset of
  the field two of its four bytes are counted (PEFile.cpp:67), which happens where `e_lfanew` is odd.
* **ELF header wrappers**, names and translations of fields, formatting, logging: they read, and no property here tells
  them apart. **Tables of constants** (ordinals, products) are data. The contents of resources (strings, versions) and the
  product names of the Rich header, and its checksum, are the same.
* **What follows an exception out of `core.wrap`** with several threads, or a use of a stale pointer: the process is not followed further. With a single
  file in the commander `core.wrap` cannot leave `dos` NULL: it is set from offset 0 before anything can throw (PECore.cpp:22), the buffer has
  at least `MINBUF` bytes (main.cpp:11), and no command makes it shorter; `cl` writes zeros only, over which the headers are still found.
* **Readers that use the methods of `SectHdrsWrapper` themselves**, without `m_peMutex`, but for `getSecHdr`: `ReadersSeeWhole` speaks of those that go through `PEFile`.
* **`wrapDataDirs` under threads**: it takes no lock, so it races with every other call; `PEThreads` would say that
  anything may happen.
* **Composition**: `Fields` and `Directories` read through an RVA map that is the identity; the section maps are checked
  apart, in `PESections`, and `Session` takes any that fit the headers.
