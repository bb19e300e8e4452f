----------------------------- MODULE MCPESections -----------------------------
(***************************************************************************)
(* Small files for TLC, with a header table of one-unit slots and headers  *)
(* that end at offset 4. The well-formed files are made for FileAlignment  *)
(* 4 and SectionAlignment 8: less, and the content of a section would not  *)
(* reach behind the end under which an old SizeOfImage has put it in vSec. *)
(***************************************************************************)
EXTENDS PESections, Sequences

H(rp, rs, va, vs) == [rp |-> rp, rs |-> rs, va |-> va, vs |-> vs]
Junk == H(1, 1, 1, 1)

File(secs, spare, fs, img) ==
    [tbl |-> [s \in 1..Slots |-> IF s <= Len(secs) THEN secs[s] ELSE spare],
     num |-> Len(secs), fs |-> fs, img |-> img]

\* Well-formed files with one or two sections: a code section, then none, an
\* ordinary one, one smaller in memory than on disk, or one without raw data;
\* with and without an overlay, and one with data behind the header table.
WellFormed ==
    { File(<<H(4, rs, 8, vs)>>, ZeroHdr, 4 + rs + over, 16) :
        rs \in {1, 4}, vs \in {0, 1, 5}, over \in {0, 1} }
    \cup
    { File(<<H(4, 4, 8, 2), h>>, ZeroHdr, 12, 24) :
        h \in {H(8, 4, 16, 4), H(8, 4, 16, 1), H(8, 0, 16, 8), H(8, 1, 16, 0)} }
    \cup { File(<<H(4, 4, 8, 4)>>, Junk, 11, 16) }

\* Files that no linker makes: no sections, more sections in the count than
\* headers in the file, overlapping or descending sections, content behind the
\* end of the file, the largest count a WORD holds, a table full of other data.
Malformed ==
    { File(<<>>, ZeroHdr, 7, 8),
      [File(<<H(4, 2, 4, 2)>>, ZeroHdr, 3, 8) EXCEPT !.num = 3],
      File(<<H(4, 2, 8, 2), H(4, 3, 4, 8)>>, ZeroHdr, 8, 12),
      File(<<H(6, 2, 8, 4), H(9, 2, 4, 8)>>, ZeroHdr, 9, 12),
      File(<<H(6, 2, 4, 1)>>, ZeroHdr, 5, 0),
      [File(<<H(4, 2, 4, 2), H(6, 1, 8, 2)>>, ZeroHdr, 7, 12) EXCEPT !.num = 3],
      File(<<H(4, 2, 4, 2)>>, Junk, 7, 8) }

\* Two sections that end at the same address in memory, the bigger one last.
SameEnd == { File(<<H(4, 2, 8, 4), H(6, 2, 4, 8)>>, ZeroHdr, 8, 12) }
=============================================================================
