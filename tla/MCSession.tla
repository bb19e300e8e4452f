------------------------------- MODULE MCSession -------------------------------
(***************************************************************************)
(* Files of each kind, whose headers say something sensible or not, and    *)
(* what a user may type. Offsets have five bits.                            *)
(***************************************************************************)
EXTENDS Session

Read(n, rest) == [n |-> n, fits |-> TRUE, rest |-> rest]
\* "99" does not fit: it is read as the largest number there is.
SmallDec == "0" :> Read(0, "") @@ "1" :> Read(1, "") @@ "6" :> Read(6, "")
            @@ "99" :> [n |-> INVALID_ADDR, fits |-> FALSE, rest |-> ""]
\* A word that begins with a hexadecimal digit is a number, too, when one is asked for.
SmallHex == SmallDec @@ "cl" :> Read(12, "l") @@ "dir_mv" :> Read(13, "ir_mv")
            @@ "e_add" :> Read(14, "_add") @@ "einfo" :> Read(14, "info")
            @@ "explist" :> Read(14, "xplist")

Words == (Commands \ {"fdump"}) \cup DOMAIN SmallDec \cup {"x"}
Key == {"cl", "dir_mv", "e_add", "secfdump", "rs", "rstrings", "fdump", "v-r"}
SmallInputs ==
    {<<>>} \cup {<<w>> : w \in Words} \cup {<<v, w>> : v, w \in Words}
    \cup {<<v, m, n>> \o t : v \in Key, m, n \in {"0", "1", "x", "99"}, t \in {<<"save", "q">>, <<"cl", "1">>, <<"einfo", "6">>}}

Wr(ptr, at, node, n, canAdd) ==
    [ptr |-> ptr, at |-> at, fields |-> 3, node |-> node, entries |-> n, loaded |-> n - (IF n > 1 THEN 1 ELSE 0), canAdd |-> canAdd]
PEOf(base, image, raws) ==
    [kind |-> "PE", size |-> 0, base |-> base, image |-> image, ep |-> 5, align |-> 2, raws |-> raws,
     wrappers |-> (0 :> Wr(raws # <<>>, 0, FALSE, 0, FALSE)) @@ (1 :> Wr(TRUE, 3, TRUE, 2, TRUE)) @@ (6 :> Wr(TRUE, 4, TRUE, 0, FALSE)),
     dataDirs |-> {0, 1}, sections |-> IF raws = <<>> THEN <<>> ELSE (0 :> TRUE) @@ (1 :> (base > 0)),
     resources |-> IF base = 0 THEN <<>> ELSE (1 :> 2) @@ (6 :> 1), strings |-> image, exports |-> 2, thunks |-> 3]
PEs == {PEOf(16, 9, (0 :> 0) @@ (1 :> 1) @@ (4 :> 8) @@ (5 :> 9)), PEOf(26, 9, (0 :> 0) @@ (8 :> 3)), PEOf(0, 0, <<>>)}
MZs == {[kind |-> "MZ", size |-> 0, cparhdr |-> h[1], cs |-> h[2], ip |-> 1, cp |-> h[3], cblp |-> h[4],
         wrappers |-> (0 :> Wr(TRUE, 0, FALSE, 0, FALSE))] : h \in {<<1, 0, 2, 3>>, <<1, 28, 2, 0>>, <<1, 0, 0, 0>>, <<0, 3, 2, 9>>}}
Segment(load, v, o, m, a) == [load |-> load, vaddr |-> v, offset |-> o, memsz |-> m, align |-> a]
ELFs == {[kind |-> "ELF", size |-> 0, entry |-> 20, phdrs |-> p, wrappers |-> <<>>] :
            p \in {<<>>, <<Segment(TRUE, 20, 0, 5, 4)>>, <<Segment(TRUE, 26, 8, 10, 1)>>,
                   <<Segment(TRUE, 18, 8, 8, 4), Segment(FALSE, 1, 0, 30, 8), Segment(TRUE, 10, 0, 8, 2)>>,
                   <<Segment(TRUE, 9, 0, 12, 4), Segment(TRUE, 16, 7, 2, 2)>>, <<Segment(TRUE, 29, 0, 1, 1)>>}}

File(magic, nt, size, limit) ==
    [exists |-> TRUE, readable |-> size # 9, size |-> size, limit |-> limit, magic |-> magic, nt |-> nt,
     ntEnd |-> 6, headersEnd |-> 8,
     elf |-> [phoff |-> 4, phnum |-> 2, shoff |-> limit % 2, shnum |-> 2, shstrndx |-> 1, strtab |-> 2, names |-> <<0, 9>>, texts |-> <<>>],
     as |-> ("PE" :> PEs @@ "MZ" :> MZs @@ "ELF" :> ELFs)]
SmallFiles ==
    {File("MZ", TRUE, 10, 20), File("MZ", TRUE, 7, 20), File("MZ", TRUE, 10, 5), File("MZ", FALSE, 3, 20), File("ZM", FALSE, 1, 20),
     File("ELF", FALSE, 12, 20), File("ELF", FALSE, 12, 21), File("ELF", FALSE, 5, 20), File("other", FALSE, 9, 1), File("MZ", TRUE, 0, 1),
     [exists |-> FALSE]}
================================================================================
