---------------------------- MODULE MCImportTable ----------------------------
(***************************************************************************)
(* Import directories of one or two libraries with one function each, two  *)
(* invalid entries end a table, and zeros between and behind the tables.   *)
(***************************************************************************)
EXTENDS ImportTable

Desc3(fst, iat, name) == [ZeroUnit EXCEPT !.fst = fst, !.iat = iat, !.name = name]
Slot(v) == [ZeroUnit EXCEPT !.fst = v]
Text == [ZeroUnit EXCEPT !.txt = TRUE]
Z == ZeroUnit

File(k, us, len, dir) ==
    [kind |-> k, len |-> len, dir |-> dir,
     units |-> [o \in 0..FileMax-1 |-> IF o < Len(us) THEN us[o + 1] ELSE Z]]

SmallFiles == {
    \* two libraries, the first by name, the second by ordinal; room for a move
    File("import", <<Z, Text, Desc3(6, 9, 1), Desc3(8, 11, 1), Z, Z, Slot(1), Z, Slot(OrdinalFlag + 1), Slot(1), Z, Slot(OrdinalFlag + 1)>>, 14, 2),
    \* one library without an OriginalFirstThunk, and room for more
    File("import", <<Z, Text, Desc3(0, 5, 1), Z, Z, Slot(1), Z, Z, Z, Text>>, 12, 2),
    \* one without a FirstThunk, and two whose tables are the same
    File("import", <<Z, Text, Desc3(7, 0, 1), Desc3(8, 10, 1), Desc3(8, 10, 1), Z, Z, Slot(1), Slot(1), Z, Slot(1), Z, Z>>, 13, 2),
    \* invalid names of libraries and functions, more of them than are read
    File("import", <<Z, Text, Desc3(7, 7, 9), Desc3(7, 7, 9), Desc3(7, 7, 1), Z, Z, Slot(1), Z, Z, Z>>, 11, 2),
    File("import", <<Z, Text, Desc3(5, 5, 1), Desc3(7, 7, 1), Z, Slot(9), Slot(9), Slot(9), Slot(1), Z, Z, Z>>, 12, 2),
    \* delayed imports, with and without an IAT
    File("delay", <<Z, Text, Desc3(6, 9, 1), Desc3(7, 0, 1), Z, Z, Slot(1), Slot(1), Z, Slot(1), Z, Z, Z>>, 13, 2),
    File("delay", <<Z, Text, Desc3(6, 6, 1), Z, Z, Z, Slot(OrdinalFlag), Z, Z, Z>>, 12, 2),
    \* the name at RVA 0 is valid: a descriptor without a name is thrown out with
    \* its thunks mapped, its own and those of the library before it
    File("delay", <<Text, Text, Desc3(5, 7, 1), Desc3(5, 10, 0), Z, Slot(1), Z, Slot(1), Z, Z, Slot(1)>>, 13, 2),
    File("delay", <<Text, Text, Desc3(5, 5, 1), Desc3(5, 5, 0), Z, Slot(1), Z, Z, Z, Z, Z>>, 13, 2),
    \* bound imports, and no imports
    File("bound", <<Z, Text, Desc3(0, 0, 1), Desc3(0, 0, 9), Z, Z, Z, Z, Text>>, 12, 2),
    File("import", <<Z, Text>>, 8, 0) }
==============================================================================
