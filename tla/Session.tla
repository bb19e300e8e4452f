-------------------------------- MODULE Session --------------------------------
(***************************************************************************)
(* BearCommander: a file is loaded, its kind is found, and the commands    *)
(* that the user types are executed until "q". What a command prints is    *)
(* a text and a number. The content of the executable is a version number; *)
(* what the wrappers find in a new version is one of the executables that  *)
(* the file can become.                                                    *)
(***************************************************************************)
EXTENDS Executables, TLC

CONSTANTS
    Files,       \* what the argument may name
    Inputs,      \* what the user may type: sequences of words
    Dec, Hex,    \* from the words that begin with a number to it, whether it fits its type,
                 \* and the rest of the word
    MinBuf,      \* MINBUF
    MaxMap,      \* FILE_MAXSIZE
    FetchSize,   \* 100, of fetch
    ManyStrings, \* 100, of PrintStringsCommand
    RESTYPE_STRING

ASSUME SessionAssumption ==
    /\ {MinBuf, MaxMap, FetchSize, ManyStrings, RESTYPE_STRING} \subseteq Nat
    /\ \A reads \in {Dec, Hex} : \A w \in DOMAIN reads : reads[w].n \in Nat /\ reads[w].fits \in BOOLEAN

VARIABLES
    file,     \* the file
    input,    \* what is left on std::cin
    good,     \* std::cin has not failed
    phase,    \* "loading", "commands", "done"
    status,   \* the exit code
    maxMap,   \* maxMapSize of tryLoading
    quit,     \* endProcessing
    exe,      \* the executable
    content,  \* the version of its content
    saved,    \* from the files that were written to the version they hold
    line,     \* history: the last word that was read
    out       \* history: what was printed last

exeVars == <<exe, content>>
vars == <<file, input, good, phase, status, maxMap, quit, exe, content, saved, line, out>>

NoExe == [kind |-> "NONE"]
Shorter(a, b) == IF a < b THEN a ELSE b
Longer(a, b) == IF a < b THEN b ELSE a

-----------------------------------------------------------------------------
(* std::cin: after a failure every read fails, and gives an empty word or  *)
(* 0.                                                                      *)

\* Mutant: the word is kept when the read fails.
ReadWordKept == IF good /\ input # <<>> THEN [w |-> Head(input), in |-> Tail(input), good |-> TRUE]
                ELSE [w |-> line, in |-> input, good |-> FALSE]

ReadWord == IF good /\ input # <<>> THEN [w |-> Head(input), in |-> Tail(input), good |-> TRUE]
            ELSE [w |-> "", in |-> input, good |-> FALSE]

\* What is behind the digits of a word is left for the next read. A number that is
\* too large is read as the largest of its type, and is a failure all the same.
ReadNumber(r, reads) ==
    IF r.good /\ r.in # <<>> /\ Head(r.in) \in DOMAIN reads
    THEN LET read == reads[Head(r.in)]
         IN [n |-> read.n, in |-> (IF read.rest = "" THEN <<>> ELSE <<read.rest>>) \o Tail(r.in), good |-> read.fits]
    ELSE [n |-> 0, in |-> r.in, good |-> FALSE]
readNumber(r) == ReadNumber(r, Dec)
readOffset(r) == ReadNumber(r, Hex)

-----------------------------------------------------------------------------
(* Loading *)

Stop(code) == phase' = "done" /\ status' = code /\ UNCHANGED exeVars

Mappable(max) == file.readable /\ file.size > 0 /\ Shorter(file.size, max) <= file.limit

\* Mutant: a missing file is looked for again.
TryAgain == phase = "loading" /\ ~file.exists /\ UNCHANGED vars

\* The file does not exist.
NoFile == phase = "loading" /\ ~file.exists /\ Stop(-1) /\ UNCHANGED <<input, good, maxMap>>

\* The file cannot be mapped: the user gives another size, or 0.
AskSize ==
    /\ phase = "loading" /\ file.exists /\ ~Mappable(maxMap)
    /\ LET r == readOffset([in |-> input, good |-> good]) IN
        /\ input' = r.in /\ good' = r.good /\ maxMap' = r.n
        /\ IF r.n = 0 THEN Stop(-1) ELSE UNCHANGED <<phase, status, exe, content>>

\* The status of a process that is ended by a signal.
Killed == 139

\* The kind is found in the view, and the executable is built from the copy.
Build ==
    /\ phase = "loading" /\ file.exists /\ Mappable(maxMap)
    /\ LET readable == Shorter(file.size, maxMap)
           kind     == findMatching(file, readable)
           n        == Longer(readable, MinBuf)
       IN CASE kind = "NONE" -> Stop(1)
            [] kind # "NONE" /\ ~Builds(file, kind, n) -> Stop(-1)
            [] OTHER -> \/ kind = "ELF" /\ ReadsOutsideShdrs(file.elf) /\ Stop(Killed)
                        \/ /\ \E e \in file.as[kind] : exe' = [e EXCEPT !.size = n]
                           /\ phase' = "commands" /\ UNCHANGED <<status, content>>
    /\ UNCHANGED <<input, good, maxMap>>

Load == (NoFile \/ AskSize \/ Build) /\ UNCHANGED <<file, quit, saved, line, out>>

-----------------------------------------------------------------------------
(* The loop of the commands *)

Line == ReadWord

Reading(r) == input' = r.in /\ good' = r.good /\ line' = Line.w
Prints(text, n) == out' = [text |-> text, n |-> n]
Keeps == UNCHANGED <<exe, content, saved>>
Answer(r, text, n) == Reading(r) /\ Prints(text, n) /\ Keeps /\ UNCHANGED quit

\* The command changes the content; wrap() finds what is there then.
Changes(r, text) ==
    /\ Reading(r) /\ Prints(text, 0) /\ UNCHANGED <<saved, quit>>
    /\ content' = content + 1
    /\ \E e \in file.as[exe.kind] : exe' = [e EXCEPT !.size = exe.size]

\* FileBuffer::dump of one file after the other; it throws when a file cannot be
\* written.
Dumps(r, names) ==
    \E done \in {d \in SUBSET names : \A x \in d, y \in names \ d : x[2] < y[2]} :
        /\ Reading(r) /\ UNCHANGED <<exeVars, quit>>
        /\ saved' = [f \in done |-> content] @@ saved
        /\ Prints(IF done = names THEN "Dumped" ELSE "ERROR", Cardinality(done))

Commands == {"q", "info", "r-v", "v-r", "printc", "printx", "cl", "fdump", "winfo", "einfo", "e_add", "save",
             "secV", "secR", "rstrings", "rsl", "rs", "dir_mv", "secinfo", "secfdump", "explist", "implist"}

\* An empty line and an unknown word are no command, and print the help.
getCommand(name) == name \in Commands
printHelp == Cardinality(Commands)
Help == ~getCommand(Line.w) /\ Answer(Line, "help", printHelp)

QuitCommand == Line.w = "q" /\ quit' = TRUE /\ Reading(Line) /\ Prints("", 0) /\ Keeps

SaveExe == Line.w = "save" /\ Dumps(Line, {<<"dumped.exe", 0>>})

-----------------------------------------------------------------------------
(* Commands on an executable *)

ExeInfo == Line.w = "info" /\ Answer(Line, "Entry point", getEntryPoint(exe, "RVA"))

ConvertAddr ==
    \E cmd \in {<<"r-v", "RAW", "RVA">>, <<"v-r", "RVA", "RAW">>} :
        /\ Line.w = cmd[1]
        /\ LET r   == readOffset(Line)
               res == convertAddr(exe, r.n, cmd[2], cmd[3])
           IN IF res = INVALID_ADDR THEN Answer(r, "cannot be mapped", 0) ELSE Answer(r, "converted", res)

\* A view of 100 bytes, trimmed at the end of the file.
fetch(r, offset, type) ==
    LET raw == toRaw(exe, offset, type)
    IN IF raw = INVALID_ADDR THEN Answer(r, "Invalid Address", 0)
       ELSE Answer(r, "Fetched", Shorter(FetchSize, exe.size - raw))
Fetch == Line.w \in {"printc", "printx"} /\ LET r == readOffset(Line) IN fetch(r, r.n, "RAW")

-----------------------------------------------------------------------------
(* Commands on a wrapper. A wrapper is [ptr, at, fields, node, entries,    *)
(* loaded, canAdd]: getPtr() # NULL, getOffset(), the fields that have an  *)
(* offset, whether it is an ExeNodeWrapper, getEntriesCount() and how many *)
(* of the entries are not NULL.                                            *)

printWrapperNames == Cardinality({i \in DOMAIN exe.wrappers : exe.wrappers[i].ptr})
dumpEntryInfo(w) == w.fields
dumpNodeInfo(w) == IF w.node THEN Shorter(w.entries, w.loaded) ELSE 0

AddEntry(r, w) ==
    CASE ~w.node -> Answer(r, "stores no entries", 0)
      [] w.node /\ ~w.canAdd -> Answer(r, "No space to add entry", 0)
      [] OTHER -> Changes(r, "Added!") \/ Changes(r, "Failed!") \/ Answer(r, "Failed!", 0)

DumpWrapper(r, w) == Answer(r, "fields, entries", dumpEntryInfo(w) + dumpNodeInfo(w))

\* A second number: the entry, which may be NULL.
DumpWrapperEntries(r, w) ==
    IF ~w.node THEN Answer(r, "has no entries", 0)
    ELSE LET num == readNumber(r) IN Answer(num, "subentries of", IF num.n < w.loaded THEN num.n ELSE w.loaded)

\* fillContent(0), wrap().
ClearWrapper(r, w) == IF w.ptr THEN Changes(r, "Filled!") ELSE Answer(r, "Failed to fill", 0)

DumpWrapperToFile(r, w) == IF w.ptr THEN Dumps(r, {<<"wrapper", w.at>>}) ELSE Answer(r, "ERROR", 0)

\* The wrapper of the number that is read, 0 when there is none.
WrapperCommand ==
    /\ Line.w \in {"cl", "fdump", "winfo", "einfo", "e_add"}
    /\ LET r == readNumber(Line) IN
       IF r.n \notin DOMAIN exe.wrappers THEN Answer(r, "No such wrapper!", printWrapperNames)
       ELSE LET w == exe.wrappers[r.n] IN
            CASE Line.w = "cl"    -> ClearWrapper(r, w)
              [] Line.w = "fdump" -> DumpWrapperToFile(r, w)
              [] Line.w = "winfo" -> DumpWrapper(r, w)
              [] Line.w = "einfo" -> DumpWrapperEntries(r, w)
              [] Line.w = "e_add" -> AddEntry(r, w)

-----------------------------------------------------------------------------
(* Commands on a PE *)

\* getPEFromContext: nothing is read when it is not a PE.
NotPE ==
    /\ Line.w \in {"secV", "secR", "rstrings", "rsl", "rs", "dir_mv", "secinfo", "secfdump", "explist", "implist"}
    /\ exe.kind # "PE" /\ Answer(Line, "not a PE file", 0)

OnPE(cmd) == Line.w = cmd /\ exe.kind = "PE"

\* Which section it is says getSecHdrAtOffset (modules PESections, SectionMap).
SectionByAddr ==
    /\ OnPE("secV") \/ OnPE("secR")
    /\ \E answer \in {"Found addr", "NOT found addr"} : Answer(readOffset(Line), answer, 0)

\* exe.resources is a function from the types to the number of their wrappers,
\* exe.strings the number of strings. 0 is no limit.
printStrings(limit) == IF limit = 0 THEN exe.strings ELSE Shorter(limit, exe.strings)
PrintStrings ==
    /\ OnPE("rstrings")
    /\ LET r     == IF exe.strings > ManyStrings THEN readNumber(Line) ELSE Line
           limit == IF exe.strings > ManyStrings THEN r.n ELSE 0
       IN IF RESTYPE_STRING \notin DOMAIN exe.resources THEN Answer(Line, "No such resource type!", 0)
          ELSE Answer(r, "strings", printStrings(limit))

printResourceTypes == Cardinality(DOMAIN exe.resources)
PrintWrapperTypes == OnPE("rsl") /\ Answer(Line, "types", printResourceTypes)

\* The index is read when there is a choice; one that is too large prints nothing.
dumpResourcesInfo(r, type, index) ==
    Answer(r, IF index < exe.resources[type] THEN "Found in Resources" ELSE "", index)
WrapperInfo ==
    /\ OnPE("rs")
    /\ LET type  == readNumber(Line)
           index == readNumber(type)
       IN CASE printResourceTypes = 0 -> Answer(Line, "No resources!", 0)
            [] printResourceTypes > 0 /\ type.n \notin DOMAIN exe.resources -> Answer(type, "No such resource type!", 0)
            [] OTHER -> IF exe.resources[type.n] <= 1 THEN dumpResourcesInfo(type, type.n, 0)
                        ELSE dumpResourcesInfo(index, type.n, index.n)

listDataDirs == Cardinality(exe.dataDirs)
\* moveDataDirEntry fails by an exception, before it has written anything or
\* when a step has failed.
MoveDataDirEntry ==
    /\ OnPE("dir_mv")
    /\ LET id     == readNumber(Line)
           offset == readOffset(id)
       IN IF id.n \notin exe.dataDirs THEN Answer(id, "No such wrapper", listDataDirs)
          ELSE Changes(offset, "Done!") \/ Changes(offset, "[ERROR]") \/ Answer(offset, "[ERROR]", 0)

\* The section of the number that is read, or all of them. exe.sections says
\* which of them have a view: the others print that they exist.
dumpSectionById(ids) == {<<"section", i>> : i \in {j \in ids : exe.sections[j]}}
SectionDump ==
    /\ OnPE("secinfo") \/ OnPE("secfdump")
    /\ LET r   == readNumber(Line)
           ids == IF r.n \in DOMAIN exe.sections THEN {r.n} ELSE DOMAIN exe.sections
       IN CASE DOMAIN exe.sections = {} -> Answer(Line, "Sections", 0)
            [] DOMAIN exe.sections # {} /\ Line.w = "secinfo" -> Answer(r, "Sections", Cardinality(ids))
            [] OTHER -> Dumps(r, dumpSectionById(ids))

ExportsList == OnPE("explist") /\ Answer(Line, "Entries", exe.exports)
ImportsList == OnPE("implist") /\ Answer(Line, "Functions Count", exe.thunks)

-----------------------------------------------------------------------------

Command ==
    \/ Help \/ QuitCommand \/ SaveExe \/ ExeInfo \/ ConvertAddr \/ Fetch \/ WrapperCommand
    \/ NotPE \/ SectionByAddr \/ PrintStrings \/ PrintWrapperTypes \/ WrapperInfo
    \/ MoveDataDirEntry \/ SectionDump \/ ExportsList \/ ImportsList

\* parseCommands: one turn of the loop; "q" ends it before the next word is read.
parseCommands ==
    /\ phase = "commands"
    /\ \/ quit /\ Stop(0) /\ UNCHANGED <<input, good, quit, saved, line, out>>
       \/ ~quit /\ Command /\ UNCHANGED <<phase, status>>
    /\ UNCHANGED <<file, maxMap>>

Init ==
    /\ file \in Files /\ input \in Inputs /\ good = TRUE
    /\ phase = "loading" /\ status = 0 /\ maxMap = MaxMap /\ quit = FALSE
    /\ exe = NoExe /\ content = 0 /\ saved = <<>>
    /\ line = "" /\ out = [text |-> "", n |-> 0]

Next == Load \/ parseCommands
Spec == Init /\ [][Next]_vars /\ WF_vars(Next)

-----------------------------------------------------------------------------
(* Properties *)

\* main, parseCommands: the program ends, unless it has come to the end of what
\* was typed or to a word that is not the number it asked for: then it prints the
\* help for ever.
Ends == <>(phase = "done" \/ ~good)

\* parseCommands: after a read has failed no further command is executed,
\* whatever the last one was: nothing is changed, and no file is written.
FailedInputRunsNothing ==
    [][phase = "commands" /\ ~good => UNCHANGED <<exe, content, saved>>]_vars

\* Executable: see AddressesAgreeOf, for the executable that was built and for all
\* that it becomes.
AddressesAgree == exe.kind # "NONE" => AddressesAgreeOf(exe)

\* ELFCore: see SegmentsValidOf.
SegmentsValid == exe.kind = "ELF" => SegmentsValidOf(exe)
================================================================================
