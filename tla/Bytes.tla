--------------------------------- MODULE Bytes ---------------------------------
(***************************************************************************)
(* What AbstractByteBuffer and ExeElementWrapper do to an area of the      *)
(* content: u is a function from offsets to units, zero an empty unit.     *)
(***************************************************************************)
EXTENDS Naturals

Area(at, size) == at .. at+size-1

\* isAreaEmpty: an area of no size or behind the end of the file is not empty.
IsAreaEmpty(u, len, at, size, zero) ==
    /\ size > 0 /\ at + size <= len
    /\ \A o \in Area(at, size) : u[o] = zero

\* pasteBuffer of a part of the same buffer: memcpy on areas that overlap may
\* read what it has written.
Copies(u, from, to, size) ==
    LET Pasted(src(_)) == [o \in DOMAIN u |-> IF o \in Area(to, size) THEN u[src(o)] ELSE u[o]]
        Plain(o)    == from + (o - to)
        Repeated(o) == from + ((o - to) % (to - from))
    IN {Pasted(Plain)} \cup (IF from < to /\ to < from + size THEN {Pasted(Repeated)} ELSE {})

FillContent(u, at, size, zero) == [o \in DOMAIN u |-> IF o \in Area(at, size) THEN zero ELSE u[o]]

\* ByteBuffer::resize: what is cut off is lost, the buffer grows by zeros.
CutTo(u, len, zero) == [o \in DOMAIN u |-> IF o < len THEN u[o] ELSE zero]

\* canCopyToOffset, copyToOffset, fillContent(0), as moveDataDirEntry calls
\* them: the contents the buffer may have when an area was moved.
Moved(u, from, to, size, zero) == {FillContent(c, from, size, zero) : c \in Copies(u, from, to, size)}
================================================================================
