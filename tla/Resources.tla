------------------------------- MODULE Resources -------------------------------
(***************************************************************************)
(* The resource directory of a PE file and the album of its leafs:         *)
(* ResourceDirWrapper and ResourceEntryWrapper walk the tree that the file *)
(* holds and put each leaf into the ResourcesAlbum, which makes a content  *)
(* wrapper for it. Resizing the file wraps everything again; moving the    *)
(* directory wraps the directory only.                                     *)
(*                                                                         *)
(* The file is a row of units; a directory header, an entry and a data     *)
(* entry take one unit each. Nothing in the file says what a unit is, so   *)
(* each can be read as a header (num) and as an entry (dir, rel, id). The  *)
(* units lie in one section: RVAs and offsets differ by a constant.        *)
(***************************************************************************)
EXTENDS Bytes, SequencesExt

CONSTANTS
    MaxEntries, MaxDepth,  \* MAX_ENTRIES, MAX_DEPTH
    Files,                 \* [units, len, root]: the files that may be opened
    FileMax, RelMax,       \* bounds on the length of the file and on offsets in entries
    Lengths,               \* arguments of resize
    MaxWraps               \* bound on the number of wraps

ASSUME ResourceAssumption ==
    /\ MaxEntries \in Nat /\ MaxDepth \in Nat \ {0}
    /\ FileMax \in Nat /\ RelMax \in Nat /\ MaxWraps \in Nat
    /\ Lengths \subseteq 1..FileMax

Unit == [num : Nat, dir : BOOLEAN, rel : 0..RelMax, id : Nat]
ZeroUnit == [num |-> 0, dir |-> FALSE, rel |-> 0, id |-> 0]

ASSUME FilesAssumption ==
    \A f \in Files : f.units \in [0..FileMax-1 -> Unit] /\ f.len \in 0..FileMax /\ f.root \in 0..FileMax

Offsets == 0 .. FileMax + RelMax

VARIABLES
    units,          \* content of the buffer
    fileLen,        \* its length
    root,           \* where the data directory entry points
    wraps,          \* history: how often the root was wrapped
    entriesNum,     \* entries of the root wrapper
    allLeafs,       \* number of the top entry -> its leaf wrappers
    idToLeafType,   \* number of the top entry -> resource type
    leafToContent,  \* leaf wrapper -> content wrapper
    allWrappers,    \* resource type -> content wrappers (ResourcesContainer)
    allTypes,       \* resource types that are listed
    live            \* leaf and content wrappers that are not deleted

file == <<units, fileLen, root>>
album == <<allLeafs, idToLeafType, leafToContent, allWrappers, allTypes>>
vars == <<file, wraps, entriesNum, album, live>>

Least(a, b) == IF a < b THEN a ELSE b

-----------------------------------------------------------------------------
(* Walking the tree *)

\* Entries of the directory at n: as many as it says, as fit MAX_ENTRIES, and as
\* lie in the file; none when its header does not.
EntriesAt(u, len, n) ==
    IF n >= len THEN 0 ELSE Least(Least(u[n].num, MaxEntries), len - n - 1)

\* Offsets in entries are relative to the root directory, at every level.
ChildOf(e, base) == base + e.rel

\* Mutant: one level too many.
TooDeepLate(d) == d + 1 > MaxDepth

TooDeep(d) == d + 1 >= MaxDepth

\* ResourceDirWrapper::wrap and ResourceEntryWrapper::wrap: the leafs below the
\* directory at n, which is at depth d, in the order they are put in the album.
Below(u, len, base) ==
    LET below[d \in 0..MaxDepth] ==
          [n \in Offsets |-> FlattenSeq([i \in 1..EntriesAt(u, len, n) |->
              IF ~u[n + i].dir THEN <<ChildOf(u[n + i], base)>>
              ELSE IF TooDeep(d) THEN <<>> ELSE below[d + 1][ChildOf(u[n + i], base)]])]
    IN below

\* The leafs below the i-th entry of the root.
LeafsOf(u, len, base, i) ==
    LET e == u[base + i] IN
    IF ~e.dir THEN <<ChildOf(e, base)>>
    ELSE IF TooDeep(0) THEN <<>> ELSE Below(u, len, base)[1][ChildOf(e, base)]

-----------------------------------------------------------------------------
(* The album *)

\* Wrappers are told apart by the wrap that made them.
Leafs(u, len, base, i, w) ==
    LET at == LeafsOf(u, len, base, i)
    IN [k \in 1..Len(at) |-> [made |-> w, top |-> i, nr |-> k, at |-> at[k]]]

LeafWrappers(leafs) == UNION {Range(leafs[i]) : i \in DOMAIN leafs}
TypeOf(types, i) == IF i \in DOMAIN types THEN types[i] ELSE 0

\* ResourceContentFactory makes a wrapper for every type.
Content(leaf, type) == [made |-> leaf.made, top |-> leaf.top, nr |-> leaf.nr, type |-> type]

\* Keys of f keep their value, others take it from g.
Over(f, g) == [i \in DOMAIN f \cup DOMAIN g |-> IF i \in DOMAIN f THEN f[i] ELSE g[i]]

\* Mutant: a type that is known is not set again.
MapOnce(old, new) == Over(old, new)

\* mapIdToLeafType for each entry of the root.
MapIdToLeafType(old, new) == Over(new, old)

\* Mutant: the content wrappers are forgotten, not deleted.
ForgetContent(contents) == {}

\* ResourcesAlbum::clear deletes the content wrappers; the types of the top
\* entries and the containers stay.
ClearLeafsContent(contents) == Range(contents)

\* ResourceDirWrapper::wrap of the root: all leaf wrappers are deleted, the album
\* is cleared, the tree is walked.
WrapRoot(u, len, base) ==
    LET n == EntriesAt(u, len, base)
    IN /\ wraps < MaxWraps /\ wraps' = wraps + 1
       /\ entriesNum' = n
       /\ allLeafs' = [i \in {j \in 1..n : LeafsOf(u, len, base, j) # <<>>} |->
                          Leafs(u, len, base, i, wraps')]
       /\ idToLeafType' = MapIdToLeafType(idToLeafType, [i \in 1..n |-> u[base + i].id])

Kept == live \ (LeafWrappers(allLeafs) \cup ClearLeafsContent(leafToContent))

\* The containers keep what is in them: putWrapper only appends.
PutWrappers(containers, leafs, contents) ==
    LET tops   == SetToSortSeq(DOMAIN leafs, LAMBDA a, b : a < b)
        all    == FlattenSeq([i \in 1..Len(tops) |-> leafs[tops[i]]])
        new(t) == SelectSeq([k \in 1..Len(all) |-> contents[all[k]]], LAMBDA c : c.type = t)
        old(t) == IF t \in DOMAIN containers THEN containers[t] ELSE <<>>
    IN [t \in DOMAIN containers \cup {c.type : c \in Range(contents)} |-> old(t) \o new(t)]

\* ResourcesAlbum::wrapLeafsContent, after the root was wrapped.
WrapLeafsContent ==
    /\ leafToContent' = [l \in LeafWrappers(allLeafs') |-> Content(l, TypeOf(idToLeafType', l.top))]
    /\ allWrappers' = PutWrappers(allWrappers, allLeafs', leafToContent')
    /\ allTypes' = DOMAIN allWrappers'
    /\ live' = Kept \cup LeafWrappers(allLeafs') \cup Range(leafToContent')

LeafsWithoutContent ==
    /\ leafToContent' = <<>> /\ allTypes' = {}
    /\ live' = Kept \cup LeafWrappers(allLeafs')
    /\ UNCHANGED allWrappers

-----------------------------------------------------------------------------
(* Operations *)

\* PEFile::resize, and PEFile::wrap for the length the file has.
Resize(len) ==
    LET cut == CutTo(units, len, ZeroUnit)
    IN /\ units' = cut /\ fileLen' = len /\ UNCHANGED root
       /\ WrapRoot(cut, len, root)
       /\ WrapLeafsContent

\* PEFile::moveDataDirEntry for DIR_RESOURCE: the header and the entries that
\* are loaded go to an area of zeros, what was there is filled with zeros, and
\* the directory is wrapped, but not the contents of its leafs.
MoveDir(to) ==
    LET size == 1 + entriesNum
    IN /\ root < fileLen
       /\ IsAreaEmpty(units, fileLen, to, size, ZeroUnit)
       /\ units' \in Moved(units, root, to, size, ZeroUnit)
       /\ root' = to /\ UNCHANGED fileLen
       /\ WrapRoot(units', fileLen, to)
       /\ LeafsWithoutContent

\* The PEFile constructor.
Init ==
    \E f \in Files :
        /\ units = f.units /\ fileLen = f.len /\ root = f.root
        /\ wraps = 1 /\ entriesNum = EntriesAt(f.units, f.len, f.root)
        /\ allLeafs = [i \in {j \in 1..entriesNum : LeafsOf(units, fileLen, root, j) # <<>>} |->
                          Leafs(units, fileLen, root, i, 1)]
        /\ idToLeafType = [i \in 1..entriesNum |-> units[root + i].id]
        /\ leafToContent = [l \in LeafWrappers(allLeafs) |-> Content(l, TypeOf(idToLeafType, l.top))]
        /\ allWrappers = PutWrappers(<<>>, allLeafs, leafToContent)
        /\ allTypes = DOMAIN allWrappers
        /\ live = LeafWrappers(allLeafs) \cup Range(leafToContent)

Next ==
    \/ \E len \in Lengths \cup {fileLen} : Resize(len)
    \/ \E to \in 0..FileMax-1 : MoveDir(to)

Spec == Init /\ [][Next]_vars

-----------------------------------------------------------------------------
(* Properties *)

\* A path names an entry (from 1) in each directory from the root on. It leads
\* to a leaf when every entry but the last is a directory.
Paths == UNION {[1..k -> 1..MaxEntries] : k \in 1..MaxDepth}
PathNode(p) ==
    LET node[k \in 0..Len(p)] == IF k = 0 THEN root ELSE ChildOf(units[node[k-1] + p[k]], root)
    IN node
IsLeafPath(p) ==
    LET node == PathNode(p) IN
    \A k \in 1..Len(p) :
        /\ p[k] <= EntriesAt(units, fileLen, node[k-1])
        /\ units[node[k-1] + p[k]].dir <=> k < Len(p)

\* ResourceDirWrapper::wrap with MAX_DEPTH and MAX_ENTRIES: the album holds one
\* leaf for every path of at most MAX_DEPTH directories, also when directories
\* point back to their ancestors or share children, and no other leaf.
LeafsAreThePaths ==
    LET paths == {p \in Paths : IsLeafPath(p)} IN
    /\ DOMAIN allLeafs = {p[1] : p \in paths}
    /\ \A i \in DOMAIN allLeafs :
          LET mine == {p \in paths : p[1] = i} IN
          /\ Len(allLeafs[i]) = Cardinality(mine)
          /\ {l.at : l \in Range(allLeafs[i])} = {PathNode(p)[Len(p)] : p \in mine}

\* getContentWrapper: the contents are those of all leafs or of none, each of the
\* type that the root entry above it names in the file now, although the types
\* of earlier wraps are never forgotten.
ContentsCurrent ==
    leafToContent # <<>> =>
        /\ DOMAIN leafToContent = LeafWrappers(allLeafs)
        /\ \A l \in DOMAIN leafToContent : leafToContent[l].type = units[root + l.top].id

\* ResourcesAlbum::clear: wrapping again and moving neither leaks a leaf or a
\* content wrapper nor keeps one that was deleted in the album's own maps.
AlbumOwnsLive == live = LeafWrappers(allLeafs) \cup Range(leafToContent)
=============================================================================
