------------------------------ MODULE PEThreads ------------------------------
(***************************************************************************)
(* One PEFile used by several threads. Its section operations take         *)
(* m_peMutex (peLock) and the section wrapper's own m_secMutex (secLock),  *)
(* but addNewSection and extendLastSection give m_peMutex back around      *)
(* resize, which asks canResize and reallocates the buffer with no lock    *)
(* held and then takes m_peMutex again to wrap the core. The pieces of     *)
(* each call are those of PESections, one action for each stretch between  *)
(* two lock operations, and canResize is a step of its own.                *)
(*                                                                         *)
(* The core, the headers and the entries keep pointers into the buffer.    *)
(* They are stale from a reallocation that moved it until the next         *)
(* wrapCore. A part of a call that uses a stale pointer, or that runs      *)
(* while another thread reallocates, is undefined behaviour, and core.wrap *)
(* throws when the NT headers are not in the file: the model follows the   *)
(* process no further. While core.wrap sets its pointers anew, canResize   *)
(* may find them NULL.                                                     *)
(***************************************************************************)
EXTENDS PESections

CONSTANTS
    Threads,
    NoThread,
    Calls,         \* what the threads call: "add", "extend", "resize", "read", "hdr"
    CallsPerThread,
    MemoryShort,   \* a reallocation may find no memory
    NtLen,         \* sizeof(IMAGE_NT_HEADERS32 or 64) of this file
    NtLen32        \* sizeof(IMAGE_NT_HEADERS32)

ASSUME ThreadAssumption ==
    /\ NoThread \notin Threads
    /\ Calls \subseteq {"add", "extend", "resize", "read", "hdr"}
    /\ CallsPerThread \in Nat /\ MemoryShort \in BOOLEAN
    /\ NtLen \in 1..NtEnd /\ NtLen32 \in 1..NtLen

VARIABLES
    pc,        \* where each thread is
    job,       \* its call: arguments and local variables
    todo,      \* calls it may still make
    peLock,    \* holder of PEFile::m_peMutex
    secLock,   \* holder of SectHdrsWrapper::m_secMutex
    stale,     \* who keeps pointers into a buffer that was freed: PECore, the entries
    blind,     \* history: canResize was answered from pointers that were NULL
    undefined  \* the process is lost

file == <<tbl, secNum, fileSize, imgSize, loaded, mapped>>
locks == <<peLock, secLock>>
core == <<stale, blind>>
allVars == <<vars, pc, job, todo, locks, core, undefined>>

NoJob == [op |-> "none", r |-> 0, v |-> 0, size |-> 0, hdr |-> ZeroHdr, img |-> 0]

Goto(t, place) == pc' = [pc EXCEPT ![t] = place]
SetJob(t, j) == job' = [job EXCEPT ![t] = j]
Finish(t) == Goto(t, "idle") /\ SetJob(t, NoJob)
Unlock == peLock' = NoThread

-----------------------------------------------------------------------------
(* A call begins; m_peMutex and m_secMutex are taken *)

Start(t) ==
    /\ pc[t] = "idle" /\ todo[t] > 0
    /\ todo' = [todo EXCEPT ![t] = @ - 1]
    /\ \/ /\ "add" \in Calls
          /\ \E r \in RawSizes, v \in VirtSizes :
                SetJob(t, [NoJob EXCEPT !.op = "add", !.r = r, !.v = v])
          /\ Goto(t, "lockBegin")
       \/ /\ "extend" \in Calls
          /\ \E a \in Growths : SetJob(t, [NoJob EXCEPT !.op = "extend", !.size = a])
          /\ Goto(t, "lockBegin")
       \/ /\ "resize" \in Calls
          /\ \E fs \in FileSizes : SetJob(t, [NoJob EXCEPT !.op = "resize", !.size = fs])
          /\ Goto(t, "canResize")
       \/ "read" \in Calls /\ Goto(t, "lockRead") /\ UNCHANGED job
       \/ "hdr" \in Calls /\ Goto(t, "lockHdr") /\ UNCHANGED job
    /\ UNCHANGED <<file, ret, torn, locks, core>>

\* Mutant: m_peMutex is not taken.
LockPENot(t) ==
    /\ peLock' = t
    /\ \/ pc[t] = "lockBegin" /\ Goto(t, "begin")
       \/ pc[t] = "lockWrap" /\ Goto(t, "wrap")
       \/ pc[t] = "lockEnd" /\ Goto(t, "end")
       \/ pc[t] = "lockRead" /\ Goto(t, "read")
    /\ UNCHANGED <<file, ret, torn, job, todo, secLock, core>>

LockPE(t) ==
    /\ peLock = NoThread
    /\ peLock' = t
    /\ \/ pc[t] = "lockBegin" /\ Goto(t, "begin")
       \/ pc[t] = "lockWrap" /\ Goto(t, "wrap")
       \/ pc[t] = "lockEnd" /\ Goto(t, "end")
       \/ pc[t] = "lockRead" /\ Goto(t, "read")
    /\ UNCHANGED <<file, ret, torn, job, todo, secLock, core>>

\* wrapCore has done core.wrap and comes to SectHdrsWrapper::wrap; and
\* SectHdrsWrapper::getSecHdr, which a caller reaches without m_peMutex.
LockSec(t) ==
    /\ secLock = NoThread
    /\ secLock' = t
    /\ \/ /\ pc[t] = "wrap" /\ HeadersKept
          /\ Goto(t, "wrapSec")
          /\ stale' = stale \ {"core"}
       \/ /\ pc[t] = "lockHdr" /\ Goto(t, "getHdr")
          /\ UNCHANGED stale
    /\ UNCHANGED <<file, ret, torn, job, todo, peLock, blind>>

-----------------------------------------------------------------------------
(* addNewSection and extendLastSection, the first locked part *)

AddBegin(t) ==
    LET r == job[t].r
        v == job[t].v
        accepted == AddAccepted(r, v) /\ AddBounded(r, v)
    IN /\ pc[t] = "begin" /\ job[t].op = "add" /\ stale = {}
       /\ \/ /\ accepted
             /\ BeginAdd(r, v)
             /\ SetJob(t, [job[t] EXCEPT !.hdr = NewHeader(r, v), !.size = RawEnd + r])
             /\ Goto(t, "canResize")
          \/ /\ ~accepted
             /\ Finish(t) /\ UNCHANGED imgSize
       /\ Unlock
       /\ UNCHANGED <<tbl, secNum, fileSize, loaded, mapped, ret, torn, todo, secLock, core>>

ExtendBegin(t) ==
    LET newSize  == fileSize + job[t].size
        accepted == loaded > 0 /\ ExtendBounded(newSize)
    IN /\ pc[t] = "begin" /\ job[t].op = "extend" /\ stale = {}
       /\ \/ /\ accepted
             /\ BeginExtend(newSize)
             /\ tbl' = ExtendedTable(newSize)
             /\ SetJob(t, [job[t] EXCEPT !.hdr = tbl[loaded], !.img = imgSize, !.size = newSize])
             /\ Goto(t, "canResize")
          \/ /\ ~accepted
             /\ Finish(t) /\ UNCHANGED <<tbl, imgSize>>
       /\ Unlock
       /\ UNCHANGED <<secNum, fileSize, loaded, mapped, ret, torn, todo, secLock, core>>

(* MappedExe::resize: canResize and then the reallocation, no lock is held *)

\* extendLastSection goes on to return the last section, the others give up.
ResizeRefused(t) ==
    /\ \/ job[t].op = "extend" /\ Goto(t, "lockRead") /\ SetJob(t, NoJob)
       \/ job[t].op # "extend" /\ Finish(t)
    /\ torn' = (torn \/ Torn(tbl, secNum, LoadCount(secNum, fileSize), fileSize))

\* core.wrap of another thread sets its pointers to NULL and finds them again.
Rewrapping == \E u \in Threads : pc[u] = "wrap"

\* Mutant: the size of the NT headers without their offset.
LimitsNoOffset == {NtLen}

\* peNtHdrOffset + peNtHeadersSize: e_lfanew, or INVALID_ADDR (-1) when dos is
\* NULL, and the 32-bit size as long as opt64 is.
Limits ==
    IF Rewrapping THEN {off + len : off \in {NtEnd - NtLen, -1}, len \in {NtLen, NtLen32}}
    ELSE {NtEnd}

\* canResize: to grow is always allowed, else dos->e_lfanew is read through the
\* pointer that PECore keeps.
CanResizeAsked(t) ==
    LET newSize == job[t].size IN
    /\ pc[t] = "canResize"
    /\ \/ /\ newSize > fileSize
          /\ Goto(t, "realloc") /\ UNCHANGED <<job, torn, blind>>
       \/ /\ newSize <= fileSize
          /\ "core" \notin stale \/ Rewrapping
          /\ \E limit \in Limits :
                \/ /\ newSize >= limit
                   /\ Goto(t, "realloc") /\ UNCHANGED <<job, torn>>
                   /\ blind' = (blind \/ (Rewrapping /\ limit < NtEnd))
                \/ newSize < limit /\ ResizeRefused(t) /\ UNCHANGED blind
    /\ UNCHANGED <<file, ret, todo, locks, stale>>

\* Mutant: resize called by itself does not wrap.
ReallocNoWrap(t) ==
    LET newSize == job[t].size IN
    /\ pc[t] = "realloc"
    /\ newSize \in 1..MaxFile
    /\ fileSize' = newSize
    /\ tbl' = CutTable(tbl, newSize)
    /\ \/ UNCHANGED stale
       \/ newSize # fileSize /\ stale' = {"core", "entries"}
    /\ torn' = (torn \/ Torn(tbl', secNum, LoadCount(secNum, newSize), newSize))
    /\ \/ job[t].op = "resize" /\ Finish(t)
       \/ job[t].op # "resize" /\ Goto(t, "lockWrap") /\ UNCHANGED job
    /\ UNCHANGED <<secNum, imgSize, loaded, mapped, ret, todo, locks, blind>>

\* ByteBuffer::resize: the buffer moves or stays where it is.
Realloc(t) ==
    LET newSize == job[t].size IN
    /\ pc[t] = "realloc"
    /\ newSize \in 1..MaxFile
    /\ fileSize' = newSize
    /\ tbl' = CutTable(tbl, newSize)
    /\ \/ UNCHANGED stale
       \/ newSize # fileSize /\ stale' = {"core", "entries"}
    /\ torn' = (torn \/ Torn(tbl', secNum, LoadCount(secNum, newSize), newSize))
    /\ Goto(t, "lockWrap")
    /\ UNCHANGED <<secNum, imgSize, loaded, mapped, ret, job, todo, locks, blind>>

\* No memory, or nothing asked for.
ReallocFails(t) ==
    /\ pc[t] = "realloc"
    /\ (MemoryShort /\ job[t].size # fileSize) \/ job[t].size = 0
    /\ ResizeRefused(t)
    /\ UNCHANGED <<file, ret, todo, locks, core>>

(* PEFile::wrapCore *)

\* Mutant: m_secMutex stays locked.
WrapCoreKeepsSec(t) ==
    /\ pc[t] = "wrapSec" /\ "core" \notin stale
    /\ WrapAfter(tbl, secNum, fileSize, imgSize)
    /\ stale' = {}
    /\ peLock' = NoThread
    /\ \/ job[t].op = "add" /\ Goto(t, "lockEnd") /\ UNCHANGED job
       \/ job[t].op = "extend" /\ Goto(t, "lockRead") /\ SetJob(t, NoJob)
       \/ job[t].op = "resize" /\ Finish(t)
    /\ UNCHANGED <<secNum, fileSize, imgSize, ret, torn, todo, secLock, blind>>

WrapCore(t) ==
    /\ pc[t] = "wrapSec" /\ "core" \notin stale
    /\ WrapAfter(tbl, secNum, fileSize, imgSize)
    /\ stale' = {}
    /\ peLock' = NoThread /\ secLock' = NoThread
    /\ \/ job[t].op = "add" /\ Goto(t, "lockEnd") /\ UNCHANGED job
       \/ job[t].op = "extend" /\ Goto(t, "lockRead") /\ SetJob(t, NoJob)
       \/ job[t].op = "resize" /\ Finish(t)
    /\ UNCHANGED <<secNum, fileSize, imgSize, ret, torn, todo, blind>>

-----------------------------------------------------------------------------
(* addNewSection, the second locked part *)

\* Mutants: the lock is given back before the maps are reloaded; the header is
\* pasted over the last one.
AddPushUnlocks(t) ==
    /\ pc[t] = "end" /\ stale = {}
    /\ CanAddEntry(tbl, loaded, fileSize)
    /\ tbl' = [tbl EXCEPT ![loaded + 1] = job[t].hdr]
    /\ loaded' = loaded + 1
    /\ torn' = (torn \/ Torn(tbl', secNum, loaded', fileSize))
    /\ Goto(t, "reload")
    /\ Unlock
    /\ UNCHANGED <<job, secNum, fileSize, imgSize, mapped, ret, todo, secLock, core>>
AddPushOverLast(t) ==
    /\ pc[t] = "end" /\ stale = {}
    /\ CanAddEntry(tbl, loaded, fileSize)
    /\ tbl' = [tbl EXCEPT ![loaded] = job[t].hdr]
    /\ loaded' = loaded + 1
    /\ torn' = (torn \/ Torn(tbl', secNum, loaded', fileSize))
    /\ Goto(t, "reload")
    /\ UNCHANGED <<job, peLock, secNum, fileSize, imgSize, mapped, ret, todo, secLock, core>>

\* ExeNodeWrapper::addEntryAt: the header is pasted and pushed to the entries,
\* m_secMutex is not held.
AddPush(t) ==
    LET accepted == CanAddEntry(tbl, loaded, fileSize) /\ secNum # SecMax
    IN /\ pc[t] = "end" /\ stale = {}
       /\ \/ /\ accepted
             /\ tbl' = [tbl EXCEPT ![loaded + 1] = job[t].hdr]
             /\ loaded' = loaded + 1
             /\ torn' = (torn \/ Torn(tbl', secNum, loaded', fileSize))
             /\ Goto(t, "reload")
             /\ UNCHANGED <<job, peLock>>
          \/ /\ ~accepted
             /\ Finish(t) /\ Unlock
             /\ UNCHANGED <<tbl, loaded, torn>>
       /\ UNCHANGED <<secNum, fileSize, imgSize, mapped, ret, todo, secLock, core>>

\* SectHdrsWrapper::reloadMapping (under m_secMutex) and setHdrSectionsNum.
AddReload(t) ==
    /\ pc[t] = "reload" /\ stale = {} /\ secLock = NoThread
    /\ mapped' = [im |-> Now, mode |-> "reload"]
    /\ secNum' = (secNum + 1) % WW
    /\ Finish(t) /\ Unlock
    /\ UNCHANGED <<tbl, fileSize, imgSize, loaded, ret, torn, todo, secLock, core>>

(* Readers: rawToRva, getSecHdrAtOffset, getLastSection...; getSecHdr *)

Read(t) ==
    /\ pc[t] = "read" /\ stale = {}
    /\ Finish(t) /\ Unlock
    /\ UNCHANGED <<file, ret, torn, todo, secLock, core>>

GetHdr(t) ==
    /\ pc[t] = "getHdr"
    /\ Finish(t) /\ secLock' = NoThread
    /\ UNCHANGED <<file, ret, torn, todo, peLock, core>>

-----------------------------------------------------------------------------

LockedParts == {"begin", "wrap", "wrapSec", "end", "reload", "read"}

\* A locked part, or canResize, uses a pointer into memory that was freed.
UsesStale(t) ==
    \/ pc[t] \in {"begin", "end", "reload", "read"} /\ stale # {}
    \/ pc[t] = "wrapSec" /\ "core" \in stale
    \/ pc[t] = "canResize" /\ job[t].size <= fileSize /\ "core" \in stale

\* One thread reallocates while another does, asks canResize or is in a locked part.
Collides(t) ==
    /\ pc[t] = "realloc"
    /\ \E u \in Threads \ {t} : pc[u] \in LockedParts \cup {"canResize", "realloc"}

\* core.wrap does not find the optional header and throws, out of resize.
WrapThrows(t) == pc[t] = "wrap" /\ ~HeadersKept

GoesUndefined(t) ==
    /\ UsesStale(t) \/ Collides(t) \/ WrapThrows(t)
    /\ undefined' = TRUE
    /\ UNCHANGED <<vars, pc, job, todo, locks, core>>

Step(t) ==
    /\ ~undefined
    /\ \/ GoesUndefined(t)
       \/ /\ UNCHANGED undefined
          /\ \/ LockPE(t) \/ LockSec(t)
             \/ AddBegin(t) \/ ExtendBegin(t)
             \/ CanResizeAsked(t) \/ Realloc(t) \/ ReallocFails(t) \/ WrapCore(t)
             \/ AddPush(t) \/ AddReload(t)
             \/ Read(t) \/ GetHdr(t)

Begin(t) == ~undefined /\ UNCHANGED undefined /\ Start(t)

Done == undefined \/ \A t \in Threads : pc[t] = "idle" /\ todo[t] = 0

AllNext == (\E t \in Threads : Begin(t) \/ Step(t)) \/ (Done /\ UNCHANGED allVars)

AllInit ==
    /\ Init
    /\ pc = [t \in Threads |-> "idle"]
    /\ job = [t \in Threads |-> NoJob]
    /\ todo = [t \in Threads |-> CallsPerThread]
    /\ peLock = NoThread /\ secLock = NoThread
    /\ stale = {} /\ blind = FALSE /\ undefined = FALSE

AllSpec == AllInit /\ [][AllNext]_allVars

\* A thread inside of a call goes on; a lock that stays free is taken.
FairSpec == AllSpec /\ \A t \in Threads : WF_allVars(Step(t))

-----------------------------------------------------------------------------
(* Properties *)

\* A thread is in a locked part exactly when it holds the lock of that part,
\* and the file stays inside of the bounds, in every interleaving.
ThreadsTypeOK ==
    /\ TypeOK
    /\ peLock \in Threads \cup {NoThread} /\ secLock \in Threads \cup {NoThread}
    /\ \A t \in Threads :
          /\ pc[t] \in LockedParts <=> peLock = t
          /\ pc[t] \in {"wrapSec", "getHdr"} <=> secLock = t

\* rawToRva and the other locked readers never see a half-done wrap or addEntry:
\* the maps are made of the entries that are there.
ReadersSeeWhole ==
    \A t \in Threads : pc[t] = "read" => mapped.im.n = loaded

\* Whatever the threads did to each other, once no call is under way the entries
\* are those of the headers in the file, and the maps were built for its length.
Settled ==
    (~undefined /\ \A t \in Threads : pc[t] = "idle") =>
        /\ LoadedIsWrap
        /\ mapped.im.n = loaded /\ mapped.im.fs = fileSize

\* canResize, "the resize will harm headers!": it is asked with no lock held, and its
\* answer may be old when the buffer is reallocated. Still no interleaving makes the
\* file shorter than its NT headers, as long as no thread asks while core.wrap of
\* another has reset dos or opt64. (Then it may: a dos that is NULL makes the offset
\* INVALID_ADDR, and the sum wraps round to a limit that lies too low.)
HeadersAlwaysKept == ~blind => HeadersKept

\* A call that was begun comes to its end, unless the process is lost: no thread
\* waits for ever for m_peMutex or m_secMutex.
CallsEnd == \A t \in Threads : pc[t] # "idle" ~> (pc[t] = "idle" \/ undefined)

\* "mutex protected" addNewSection: two calls never place two sections on the
\* same bytes of the file.
AddsDisjoint ==
    \A i, j \in 1..loaded : i < j /\ tbl[i].rs > 0 /\ tbl[j].rs > 0 =>
        tbl[i].rp + tbl[i].rs <= tbl[j].rp \/ tbl[j].rp + tbl[j].rs <= tbl[i].rp

\* With a single thread the calls in their many steps implement SectionTable. An
\* extension shows when the file has got its new length: until then the last
\* header is the one that was there before.
Extending == {t \in Threads : pc[t] \in {"canResize", "realloc"} /\ job[t].op = "extend"}
Before == job[CHOOSE t \in Extending : TRUE]
ShownImage == IF Extending = {} THEN imgSize ELSE Before.img
ShownHeader(i) == IF Extending # {} /\ i = loaded THEN Before.hdr ELSE tbl[i]

ThreadsTable == INSTANCE SectionTable WITH
            count   <- IF torn THEN 0 ELSE loaded,
            place   <- [i \in 1..(IF torn THEN 0 ELSE loaded) |-> ShownHeader(i)],
            fileLen <- IF torn THEN 0 ELSE fileSize,
            imgLen  <- IF torn THEN 0 ELSE ShownImage,
            damaged <- torn
StepsImplementSectionTable == ThreadsTable!Spec
=============================================================================
