---------------------------- MODULE SectionHandles ----------------------------
(***************************************************************************)
(* The lifetime of section wrappers. PEFile hands out plain pointers to    *)
(* its SectionHdrWrapper objects (getSecHdr, addNewSection, ...), each     *)
(* wrap() deletes all of them and makes new ones, and the allocator may    *)
(* put a new one where an old one was. The calls that take a wrapper       *)
(* (getSecContent, clearContent, dumpSection) ask getSecIndex first        *)
(* whether it is one of their own.                                         *)
(***************************************************************************)
EXTENDS Naturals, Sequences
LOCAL INSTANCE SequencesExt

CONSTANTS
    Addrs,      \* where the allocator may put a wrapper
    Null,       \* NULL, and no handle
    Clients,    \* those who hold handles
    MaxSections \* bound on the number of sections

ASSUME HandleAssumption == Null \notin Addrs /\ MaxSections \in Nat

VARIABLES
    entries,  \* SectHdrsWrapper::entries, a sequence of addresses
    mapped,   \* addresses that rSec and vSec point to
    live,     \* wrappers allocated and not deleted
    held,     \* client -> [at, sec, fresh]: its handle, the section it was
              \* given for, and whether nothing was wrapped since
    outcome   \* client -> how its last call with the handle ended

vars == <<entries, mapped, live, held, outcome>>

NoHandle == [at |-> Null, sec |-> 0, fresh |-> FALSE]
InvalidIndex == MaxSections + 1     \* SECT_INVALID_INDEX, no valid index

\* SectHdrsWrapper::getSecIndex, from 0; the number of entries when not found.
GetSecIndex(es, at) ==
    IF at = Null \/ es = <<>> THEN InvalidIndex
    ELSE IF \E i \in DOMAIN es : es[i] = at THEN (CHOOSE i \in DOMAIN es : es[i] = at) - 1
    ELSE Len(es)

IsOneToOne(s) == \A i, j \in DOMAIN s : s[i] = s[j] => i = j
Allocations(n, free) == {s \in [1..n -> free] : IsOneToOne(s)}

-----------------------------------------------------------------------------

\* Mutant: the entries are forgotten, not deleted.
KeepWrappers(es) == live

\* ExeNodeWrapper::clear deletes every entry.
DeleteAll(es) == live \ ToSet(es)

\* SectHdrsWrapper::wrap: clear, then a new wrapper for each header in the file.
\* A section that maps no content is in no map.
WrapTo(new) ==
    /\ entries' = new
    /\ mapped' \in SUBSET ToSet(new)
    /\ live' = DeleteAll(entries) \cup ToSet(new)

Outdated(h) == [c \in Clients |-> [h[c] EXCEPT !.fresh = FALSE]]

\* PEFile::wrap or resize: any number of headers may be in the file now.
Wrap ==
    \E n \in 0..MaxSections :
        /\ \E new \in Allocations(n, Addrs \ DeleteAll(entries)) : WrapTo(new)
        /\ held' = Outdated(held)
        /\ UNCHANGED outcome

\* getSecHdr, getSecHdrAtOffset, getLastSection.
GetSecHdr(c) ==
    \E i \in DOMAIN entries :
        /\ held' = [held EXCEPT ![c] = [at |-> entries[i], sec |-> i, fresh |-> TRUE]]
        /\ UNCHANGED <<entries, mapped, live, outcome>>

\* Mutant: the handle of the last entry there was before the resize.
HandleBeforeAdd(c, new) ==
    held' = [Outdated(held) EXCEPT ![c] =
        [at |-> IF entries = <<>> THEN Null ELSE Last(entries), sec |-> Len(new), fresh |-> TRUE]]

\* What addNewSection and extendLastSection return: getLastEntry, fetched after
\* the resize.
HandleOfLast(c, new) ==
    held' = [Outdated(held) EXCEPT ![c] = [at |-> Last(new), sec |-> Len(new), fresh |-> TRUE]]

\* The file is resized and wrapped, and one more entry is pushed.
AddNewSection(c) ==
    /\ entries # <<>> /\ Len(entries) < MaxSections
    /\ \E new \in Allocations(Len(entries) + 1, Addrs \ DeleteAll(entries)) :
          WrapTo(new) /\ HandleOfLast(c, new)
    /\ UNCHANGED outcome

ExtendLastSection(c) ==
    /\ entries # <<>>
    /\ \E new \in Allocations(Len(entries), Addrs \ DeleteAll(entries)) :
          WrapTo(new) /\ HandleOfLast(c, new)
    /\ UNCHANGED outcome

\* getSecContent, clearContent, dumpSection: a handle is turned away only when
\* its index is SECT_INVALID_INDEX; otherwise the wrapper is read.
UseHandle(c) ==
    LET h == held[c] IN
    /\ outcome' = [outcome EXCEPT ![c] =
          IF GetSecIndex(entries, h.at) = InvalidIndex THEN "not my section"
          ELSE IF h.at \in live THEN "content"
          ELSE "read after delete"]
    /\ UNCHANGED <<entries, mapped, live, held>>

Init ==
    /\ \E n \in 0..MaxSections : \E new \in Allocations(n, Addrs) :
          /\ entries = new /\ live = ToSet(new)
          /\ mapped \in SUBSET ToSet(new)
    /\ held = [c \in Clients |-> NoHandle]
    /\ outcome = [c \in Clients |-> "none"]

Next ==
    \/ Wrap
    \/ \E c \in Clients : GetSecHdr(c) \/ AddNewSection(c) \/ ExtendLastSection(c) \/ UseHandle(c)

Spec == Init /\ [][Next]_vars

-----------------------------------------------------------------------------
(* Properties *)

\* Wrapping again and again neither leaks a wrapper nor leaves a deleted one in
\* the entries or in the maps, and no wrapper is there twice.
OnlyEntriesLive ==
    /\ live = ToSet(entries) /\ mapped \subseteq live
    /\ IsOneToOne(entries)

\* A handle that was fetched after the last wrap, or returned by the call that
\* wrapped, is found as the section it was given for, whoever added sections
\* before that and wherever the allocator put the wrappers.
FreshHandleFound ==
    \A c \in Clients : held[c].fresh =>
        /\ held[c].at \in live
        /\ GetSecIndex(entries, held[c].at) = held[c].sec - 1
=============================================================================
