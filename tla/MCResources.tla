----------------------------- MODULE MCResources -----------------------------
(***************************************************************************)
(* Small resource trees: two entries for each directory and three levels,  *)
(* one unit for each header and entry, zeros at the end of the file.       *)
(***************************************************************************)
EXTENDS Resources

Dir(n) == [num |-> n, dir |-> FALSE, rel |-> 0, id |-> 0]
ToDir(rel, id) == [num |-> 0, dir |-> TRUE, rel |-> rel, id |-> id]
ToLeaf(rel, id) == [num |-> 0, dir |-> FALSE, rel |-> rel, id |-> id]
Data == [num |-> 1, dir |-> FALSE, rel |-> 1, id |-> 1]

File(us, len, at) ==
    [units |-> [o \in 0..FileMax-1 |-> IF o < Len(us) THEN us[o + 1] ELSE ZeroUnit],
     len |-> len, root |-> at]

SmallFiles == {
    \* a leaf and a directory of one leaf, of two types
    File(<<Dir(2), ToLeaf(5, 1), ToDir(3, 2), Dir(1), ToLeaf(6, 1), Data, Data>>, 10, 0),
    \* three levels, and a fourth that is too deep
    File(<<Dir(1), ToDir(2, 1), Dir(2), ToDir(5, 2), ToLeaf(9, 1), Dir(1), ToDir(7, 3), Dir(1), ToLeaf(9, 1), Data>>, 12, 0),
    \* an entry that points back to the root, and one that shares its child
    File(<<Dir(2), ToDir(0, 2), ToDir(3, 1), Dir(1), ToLeaf(5, 1), Data>>, 9, 0),
    \* more entries in the header than are read, and than are in the file
    File(<<Data, Dir(3), ToDir(0, 1), ToLeaf(4, 2), ToDir(0, 1)>>, 9, 1),
    File(<<Data, Dir(2), ToLeaf(3, 1)>>, 3, 1),
    \* a directory entry that points behind the end of the file, and no entries
    File(<<Dir(2), ToDir(9, 1), ToLeaf(9, 1)>>, 7, 0),
    File(<<Dir(0), Data>>, 4, 0),
    \* an entry with a tail of zeros: the target of a move may overlap it
    File(<<Dir(2), ToLeaf(3, 1), ZeroUnit, ZeroUnit>>, 7, 0) }
==============================================================================
