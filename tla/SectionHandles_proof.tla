------------------------- MODULE SectionHandles_proof -------------------------
(***************************************************************************)
(* Proofs about SectionHandles, for any number of sections and clients and *)
(* any allocator: wraps neither leak nor keep deleted wrappers, and a      *)
(* handle that no wrap has outdated is found where it was fetched.         *)
(***************************************************************************)
EXTENDS SectionHandles, TLAPS
LOCAL INSTANCE SequencesExt

HandleType == [at : Addrs \cup {Null}, sec : Nat, fresh : BOOLEAN]

EntriesTyped == \E n \in 0..MaxSections : entries \in Allocations(n, Addrs)

\* A fresh handle is the entry it was fetched as.
FreshIsEntry ==
    \A c \in Clients : held[c].fresh =>
        held[c].sec \in DOMAIN entries /\ held[c].at = entries[held[c].sec]

HandlesInv ==
    /\ EntriesTyped /\ held \in [Clients -> HandleType]
    /\ OnlyEntriesLive /\ FreshIsEntry

\* What the allocator returns for a number of headers.
LEMMA AllocationsAre ==
    ASSUME NEW n \in Nat, NEW free, NEW s \in Allocations(n, free)
    PROVE  /\ DOMAIN s = 1..n /\ Len(s) = n /\ IsOneToOne(s)
           /\ \A i \in 1..n : s[i] \in free
           /\ ToSet(s) = {s[i] : i \in 1..n} /\ ToSet(s) \subseteq free
  BY DEF Allocations, ToSet

\* getSecIndex finds an entry that is there under its number.
LEMMA IndexOfEntry ==
    ASSUME NEW n \in Nat, NEW es \in Allocations(n, Addrs), NEW i \in 1..n
    PROVE  GetSecIndex(es, es[i]) = i - 1
<1>1. /\ DOMAIN es = 1..n /\ IsOneToOne(es) /\ es[i] \in Addrs
      /\ Len(es) = n
  BY AllocationsAre
<1>2. es # <<>> /\ es[i] # Null
  BY <1>1, HandleAssumption
<1>3. (CHOOSE j \in DOMAIN es : es[j] = es[i]) = i
  BY <1>1 DEF IsOneToOne
<1>4. \E j \in DOMAIN es : es[j] = es[i]
  BY <1>1
<1> QED
  BY <1>2, <1>3, <1>4 DEF GetSecIndex

\* A wrap: what was live is deleted, what is new is live.
LEMMA WrapKeeps ==
    ASSUME HandlesInv, NEW n \in 0..MaxSections,
           NEW new \in Allocations(n, Addrs \ DeleteAll(entries)), WrapTo(new)
    PROVE  /\ entries' = new /\ EntriesTyped' /\ OnlyEntriesLive'
           /\ new \in Allocations(n, Addrs) /\ n \in Nat
<1>1. n \in Nat
  BY HandleAssumption
<1>2. new \in Allocations(n, Addrs)
  BY DEF Allocations
<1>3. IsOneToOne(new)
  BY <1>1, AllocationsAre
<1>4. entries' = new /\ mapped' \subseteq ToSet(new) /\ live' = ToSet(new)
  BY DEF WrapTo, DeleteAll, HandlesInv, OnlyEntriesLive
<1>5. OnlyEntriesLive'
  BY <1>3, <1>4 DEF OnlyEntriesLive
<1>6. EntriesTyped'
  BY <1>2, <1>4 DEF EntriesTyped
<1> QED
  BY <1>1, <1>2, <1>4, <1>5, <1>6

LEMMA OutdatedHandles ==
    ASSUME held \in [Clients -> HandleType]
    PROVE  /\ Outdated(held) \in [Clients -> HandleType]
           /\ \A c \in Clients : ~Outdated(held)[c].fresh
  BY DEF Outdated, HandleType

\* addNewSection and extendLastSection hand out the last of the new entries.
LEMMA LastHandle ==
    ASSUME HandlesInv, NEW c \in Clients, NEW n \in 1..MaxSections,
           NEW new \in Allocations(n, Addrs \ DeleteAll(entries)),
           WrapTo(new), HandleOfLast(c, new)
    PROVE  HandlesInv'
<1>1. n \in 0..MaxSections /\ n \in Nat \ {0}
  BY HandleAssumption
<1>2. entries' = new /\ EntriesTyped' /\ OnlyEntriesLive' /\ new \in Allocations(n, Addrs)
  BY <1>1, WrapKeeps
<1>3. DOMAIN new = 1..n /\ Len(new) = n /\ Last(new) = new[n] /\ new[n] \in Addrs /\ n \in DOMAIN new
  BY <1>1, <1>2, AllocationsAre DEF Last
<1> DEFINE h == [at |-> new[n], sec |-> n, fresh |-> TRUE]
<1>4. held' = [Outdated(held) EXCEPT ![c] = h]
  BY <1>3 DEF HandleOfLast
<1>5. h \in HandleType /\ h.at = new[n] /\ h.sec = n
  BY <1>1, <1>3 DEF HandleType
<1> HIDE DEF h
<1>6. held' \in [Clients -> HandleType]
  BY <1>4, <1>5, OutdatedHandles DEF HandlesInv
<1>7. FreshIsEntry'
  BY <1>2, <1>3, <1>4, <1>5, OutdatedHandles DEF HandlesInv, FreshIsEntry
<1> QED
  BY <1>2, <1>6, <1>7 DEF HandlesInv

LEMMA HandlesInit == Init => HandlesInv
<1> SUFFICES ASSUME Init
             PROVE  HandlesInv
  OBVIOUS
<1>1. PICK n \in 0..MaxSections : \E new \in Allocations(n, Addrs) :
          entries = new /\ live = ToSet(new) /\ mapped \in SUBSET ToSet(new)
  BY DEF Init
<1>2. n \in Nat /\ entries \in Allocations(n, Addrs)
  BY <1>1, HandleAssumption
<1>3. OnlyEntriesLive
  BY <1>1, <1>2, AllocationsAre DEF OnlyEntriesLive
<1>4. held \in [Clients -> HandleType] /\ \A c \in Clients : ~held[c].fresh
  BY DEF Init, NoHandle, HandleType
<1> QED
  BY <1>1, <1>2, <1>3, <1>4 DEF HandlesInv, EntriesTyped, FreshIsEntry

LEMMA HandlesStep == HandlesInv /\ [Next]_vars => HandlesInv'
<1> SUFFICES ASSUME HandlesInv, [Next]_vars
             PROVE  HandlesInv'
  OBVIOUS
<1>1. PICK m \in 0..MaxSections : entries \in Allocations(m, Addrs)
  BY DEF HandlesInv, EntriesTyped
<1>2. m \in Nat /\ DOMAIN entries = 1..m /\ Len(entries) = m /\ MaxSections \in Nat
  BY <1>1, AllocationsAre, HandleAssumption
<1>3. CASE Wrap
  <2>n. PICK n \in 0..MaxSections :
            \E new \in Allocations(n, Addrs \ DeleteAll(entries)) : WrapTo(new)
    BY <1>3 DEF Wrap
  <2>1. PICK new \in Allocations(n, Addrs \ DeleteAll(entries)) : WrapTo(new)
    BY <2>n
  <2>2. EntriesTyped' /\ OnlyEntriesLive'
    BY <2>1, WrapKeeps
  <2>3. held' = Outdated(held)
    BY <1>3 DEF Wrap
  <2>4. held' \in [Clients -> HandleType] /\ FreshIsEntry'
    BY <2>3, OutdatedHandles DEF HandlesInv, FreshIsEntry
  <2> QED
    BY <2>2, <2>4 DEF HandlesInv
<1>4. ASSUME NEW c \in Clients, GetSecHdr(c)
      PROVE  HandlesInv'
  <2>1. PICK i \in DOMAIN entries :
            held' = [held EXCEPT ![c] = [at |-> entries[i], sec |-> i, fresh |-> TRUE]]
    BY <1>4 DEF GetSecHdr
  <2>2. UNCHANGED <<entries, mapped, live>>
    BY <1>4 DEF GetSecHdr
  <2> DEFINE h == [at |-> entries[i], sec |-> i, fresh |-> TRUE]
  <2>3. h \in HandleType /\ h.at = entries[i] /\ h.sec = i
    BY <1>1, <1>2, AllocationsAre DEF HandleType
  <2> HIDE DEF h
  <2>4. held' = [held EXCEPT ![c] = h]
    BY <2>1 DEF h
  <2>5. held' \in [Clients -> HandleType]
    BY <2>3, <2>4 DEF HandlesInv
  <2>6. FreshIsEntry'
    BY <2>2, <2>3, <2>4 DEF HandlesInv, FreshIsEntry
  <2> QED
    BY <2>2, <2>5, <2>6 DEF HandlesInv, EntriesTyped, OnlyEntriesLive
<1>5. ASSUME NEW c \in Clients, AddNewSection(c)
      PROVE  HandlesInv'
  <2>1. PICK new \in Allocations(m + 1, Addrs \ DeleteAll(entries)) : WrapTo(new) /\ HandleOfLast(c, new)
    BY <1>2, <1>5 DEF AddNewSection
  <2>2. m + 1 \in 1..MaxSections
    BY <1>2, <1>5 DEF AddNewSection
  <2> QED
    BY <2>1, <2>2, LastHandle
<1>6. ASSUME NEW c \in Clients, ExtendLastSection(c)
      PROVE  HandlesInv'
  <2>1. PICK new \in Allocations(m, Addrs \ DeleteAll(entries)) : WrapTo(new) /\ HandleOfLast(c, new)
    BY <1>2, <1>6 DEF ExtendLastSection
  <2>2. m \in 1..MaxSections
    <3>1. m # 0
      BY <1>1, <1>6 DEF ExtendLastSection, Allocations
    <3> QED
      BY <1>2, <3>1
  <2> QED
    BY <2>1, <2>2, LastHandle
<1>7. CASE (\E c \in Clients : UseHandle(c)) \/ UNCHANGED vars
  <2>1. UNCHANGED <<entries, mapped, live, held>>
    BY <1>7 DEF UseHandle, vars
  <2> QED
    BY <2>1 DEF HandlesInv, EntriesTyped, OnlyEntriesLive, FreshIsEntry
<1> QED
  BY <1>3, <1>4, <1>5, <1>6, <1>7 DEF Next

LEMMA FreshFound == HandlesInv => FreshHandleFound
<1> SUFFICES ASSUME HandlesInv, NEW c \in Clients, held[c].fresh
             PROVE  held[c].at \in live /\ GetSecIndex(entries, held[c].at) = held[c].sec - 1
  BY DEF FreshHandleFound
<1>1. PICK n \in 0..MaxSections : entries \in Allocations(n, Addrs)
  BY DEF HandlesInv, EntriesTyped
<1>2. n \in Nat /\ DOMAIN entries = 1..n /\ ToSet(entries) = {entries[i] : i \in 1..n}
  BY <1>1, AllocationsAre, HandleAssumption
<1>3. held[c].sec \in 1..n /\ held[c].at = entries[held[c].sec]
  BY <1>2 DEF HandlesInv, FreshIsEntry
<1>4. held[c].at \in live
  BY <1>2, <1>3 DEF HandlesInv, OnlyEntriesLive
<1> QED
  BY <1>1, <1>2, <1>3, <1>4, IndexOfEntry

\* No sequence of wraps, additions and extensions leaks a wrapper or leaves a
\* deleted one in the entries or in the maps, wherever the allocator puts them.
THEOREM NothingLeaks == Spec => []OnlyEntriesLive
<1>1. HandlesInv => OnlyEntriesLive
  BY DEF HandlesInv
<1> QED
  BY <1>1, HandlesInit, HandlesStep, PTL DEF Spec

\* A handle that was fetched after the last wrap, or returned by the call that
\* wrapped, is a live wrapper and has the index it was given for.
THEOREM FreshHandlesFound == Spec => []FreshHandleFound
  BY FreshFound, HandlesInit, HandlesStep, PTL DEF Spec

\* getSecContent, clearContent and dumpSection with such a handle read the
\* section: they never turn it away, and never read a deleted wrapper.
THEOREM FreshHandleReads ==
    Spec => [][\A c \in Clients : UseHandle(c) /\ held[c].fresh => outcome'[c] = "content"]_vars
<1> DEFINE Reads == \A c \in Clients : UseHandle(c) /\ held[c].fresh => outcome'[c] = "content"
           Known == HandlesInv /\ DOMAIN outcome = Clients
<1>1. Init => Known
  BY HandlesInit DEF Init
<1>2. Known /\ [Next]_vars => Known'
  <2>1. DOMAIN outcome = Clients /\ [Next]_vars => DOMAIN outcome' = Clients
    BY DEF Next, vars, Wrap, GetSecHdr, AddNewSection, ExtendLastSection, UseHandle
  <2> QED
    BY <2>1, HandlesStep
<1>3. Known => Reads
  <2> SUFFICES ASSUME Known, NEW c \in Clients, UseHandle(c), held[c].fresh
               PROVE  outcome'[c] = "content"
    OBVIOUS
  <2>1. held[c].at \in live /\ GetSecIndex(entries, held[c].at) = held[c].sec - 1
    BY FreshFound DEF FreshHandleFound
  <2>2. held[c].sec \in 1..MaxSections
    <3>1. PICK n \in 0..MaxSections : entries \in Allocations(n, Addrs)
      BY DEF HandlesInv, EntriesTyped
    <3>2. DOMAIN entries = 1..n /\ n \in Nat /\ n <= MaxSections
      BY <3>1, AllocationsAre, HandleAssumption
    <3> QED
      BY <3>2, HandleAssumption DEF HandlesInv, FreshIsEntry
  <2>3. GetSecIndex(entries, held[c].at) # InvalidIndex
    BY <2>1, <2>2, HandleAssumption DEF InvalidIndex
  <2> QED
    BY <2>1, <2>3 DEF UseHandle
<1>4. Known /\ [Next]_vars => [Reads]_vars
  BY <1>3
<1> QED
  BY <1>1, <1>2, <1>4, PTL DEF Spec
=============================================================================
