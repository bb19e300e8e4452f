----------------------------- MODULE MCPEThreads -----------------------------
(***************************************************************************)
(* One or two threads on the small files of MCPESections: FileAlignment 2, *)
(* SectionAlignment 4, header slots of one unit.                           *)
(***************************************************************************)
EXTENDS PEThreads, Sequences, TLC

H(rp, rs, va, vs) == [rp |-> rp, rs |-> rs, va |-> va, vs |-> vs]

File(secs, fs, img) ==
    [tbl |-> [s \in 1..Slots |-> IF s <= Len(secs) THEN secs[s] ELSE ZeroHdr],
     num |-> Len(secs), fs |-> fs, img |-> img]

\* One section, and a file that ends in an overlay.
OneSection == { File(<<H(6, 2, 8, 2)>>, 9, 12) }

\* One or two sections, with and without an overlay.
Ordinary ==
    { File(<<H(6, rs, 8, 2)>>, 6 + rs + over, 12) : rs \in {1, 2}, over \in {0, 1} }
    \cup { File(<<H(6, 2, 8, 2), H(8, 2, 12, 1)>>, 10, 16) }

ThreadSymmetry == Permutations(Threads)
=============================================================================
