----------------------------- MODULE SectionTable -----------------------------
(***************************************************************************)
(* What editing the section table of a PE file promises to a caller, with  *)
(* no word about slots, wrappers, alignments, maps or locks: a section     *)
(* keeps its place on disk and in memory, a new one goes behind all the    *)
(* others and appears as a whole, an edit that fails adds nothing, and no  *)
(* two sections ever share a byte. A file that once ended before what its  *)
(* headers claim, or that never was in order, is damaged: nothing is       *)
(* promised about it.                                                      *)
(***************************************************************************)
EXTENDS Integers

VARIABLES
    count,    \* number of sections
    place,    \* the sections, a function from 1..count
    fileLen,  \* length of the file
    imgLen,   \* size of the image in memory
    damaged   \* nothing is promised any more

vars == <<count, place, fileLen, imgLen, damaged>>

Section == [rp : Nat, rs : Nat, va : Nat, vs : Nat]

\* A zero VirtualSize means "as large as the raw data".
InMemory(s) == IF s.vs = 0 THEN s.rs ELSE s.vs

Behind(s, t) == s.rp + s.rs <= t.rp /\ s.va + InMemory(s) <= t.va
Inside(s, fl, il) == s.rp + s.rs <= fl /\ s.va + InMemory(s) <= il

Typed ==
    /\ count \in Nat /\ fileLen \in Nat /\ imgLen \in Nat /\ damaged \in BOOLEAN
    /\ place \in [1..count -> Section]

InOrder ==
    /\ \A i, j \in 1..count : i < j => Behind(place[i], place[j])
    /\ \A i \in 1..count : Inside(place[i], fileLen, imgLen)

Nothing == count = 0 /\ fileLen = 0 /\ imgLen = 0

Init == Typed /\ InOrder /\ (damaged => Nothing)

-----------------------------------------------------------------------------

\* A new section behind all the others, inside of the file and of the image.
Append ==
    LET new == place'[count'] IN
    /\ count' = count + 1
    /\ \A i \in 1..count : place'[i] = place[i] /\ Behind(place[i], new)
    /\ Inside(new, fileLen', imgLen')
    /\ fileLen' >= fileLen /\ imgLen' >= imgLen

\* The last section takes everything up to the end of the file and never
\* gets smaller.
ExtendLast ==
    LET old == place[count]
        new == place'[count]
    IN /\ count > 0 /\ count' = count
       /\ \A i \in 1..count-1 : place'[i] = place[i]
       /\ new.rp = old.rp /\ new.va = old.va
       /\ new.rs >= old.rs /\ InMemory(new) >= InMemory(old)
       /\ new.rp + new.rs = fileLen' /\ fileLen' >= fileLen
       /\ Inside(new, fileLen', imgLen')

\* Room in memory that no section takes, what a failed Append leaves behind.
Reserve ==
    /\ imgLen' > imgLen
    /\ UNCHANGED <<count, place, fileLen>>

\* Another length of the file that still holds all sections.
SetLength ==
    /\ \A i \in 1..count : Inside(place[i], fileLen', imgLen)
    /\ UNCHANGED <<count, place, imgLen>>

Next ==
    /\ ~damaged /\ Typed'
    /\ \/ ~damaged' /\ (Append \/ ExtendLast \/ Reserve \/ SetLength)
       \/ damaged' /\ Nothing'

Spec == Init /\ [][Next]_vars
=============================================================================
