---------------------------- MODULE MCDirectories ----------------------------
(***************************************************************************)
(* Small files, each with the structures of some directories, and edits of *)
(* the fields that decide how many entries there are.                      *)
(***************************************************************************)
EXTENDS Directories
LOCAL INSTANCE SequencesExt
LOCAL INSTANCE Bitwise
LOCAL INSTANCE Functions
LOCAL INSTANCE TLC

\* The bytes of a number. @@ with nothing makes TLC evaluate a function once.
At(o, size, n) == [i \in Area(o, size) |-> Digit(n, i - o)] @@ <<>>
Of32(o, n) == At(o, 4, n)
Joined(parts) == FoldLeft(LAMBDA a, p : p @@ a, <<>>, parts)
NotZero(f) == Restrict(f, {o \in DOMAIN f : f[o] # 0}) @@ <<>>
Series(o, size, seq) == Joined([i \in DOMAIN seq |-> At(o + size * (i - 1), size, seq[i])])

\* A PE header at nt, with the address and the size of some directories.
Headers(nt, b, machine, dirs) ==
    LET optional == nt + 24
    IN Joined(<<Of32(24, 64), Of32(60, nt), At(nt + 4, 2, machine), At(optional, 2, IF b = 64 THEN 523 ELSE 267),
                Of32(optional + (IF b = 64 THEN 108 ELSE 92), 16)>>)
       @@ Joined([i \in DOMAIN dirs |->
                     Series(optional + (IF b = 64 THEN 112 ELSE 96) + 8 * dirs[i][1], 4, <<dirs[i][2], dirs[i][3]>>)])

File(headers, parts, size) == [bytes |-> NotZero(Joined(parts) @@ headers), len |-> size]

\* Three functions, the second forwarded; three names, two of the same ordinal.
Exports(len) ==
    File(Headers(64, 32, 332, <<<<0, 400, 40>>>>),
         <<Series(416, 4, <<1, 3, 3, 440, 452, 464>>), Series(440, 4, <<400, 472, 404>>),
           Series(452, 4, <<476, 477, 478>>), Series(464, 2, <<0, 1, 1>>), Series(472, 1, <<65, 46, 66, 0, 67>>)>>, len)

\* Three blocks; the last one is longer than the file.
Relocs(len, page) ==
    File(Headers(64, 32, 332, <<<<5, 400, 60>>>>),
         <<Series(400, 4, <<0, 12, 257, page, 14, 258, 0, 256, 40>>), Of32(426, 256), Of32(430, 40)>>, len)

\* Two exceptions and a part, in either machine.
Exceptions(b, machine) ==
    File(Headers(64, b, machine, <<<<3, 400, 30>>>>), <<Series(400, 4, <<1, 2, 3, 4, 5, 6, 7>>)>>, 428)

\* Callbacks, bound imports and debug information, each cut or ended.
Lists(b) ==
    File(Headers(64, b, 332, <<<<9, 400, 24>>, <<11, 440, 0>>, <<6, 464, 60>>>>),
         <<At(412, 4, 470), At(424, 4, 470), Series(440, 4, <<1, 16, 2, 24, 3>>), Series(470, 4, <<7, 9, 0, 5>>)>>, 515)

\* A Rich header with n components at o, masked by a key; the DOS header ends at from.
Key == <<1, 2, 3, 4>>
KeyNumber == 67305985
Rich(o, n, from, gap) ==
    LET sign == o + DansBegin + CompSize * n + gap
    IN File(Of32(24, from) @@ Headers(112, 32, 332, <<>>),
            <<Series(o, 1, [i \in 1..4 |-> DANS_HDR_MAGIC[i] ^^ Key[i]]), Series(sign, 1, RICH_HDR_MAGIC), Series(sign + 4, 1, Key)>>, 400)

SmallFiles == {
    Exports(480), Relocs(450, 0), Relocs(450, 5000),
    Exceptions(32, 332), Exceptions(64, 43620), Exceptions(32, 448), Lists(32), Lists(64),
    Rich(64, 1, 64, 0), Rich(68, 1, 64, 4), Rich(64, 2, 66, 0), Rich(4, 1, 62, 0), Rich(4, 1, 64, 0) }

\* The ordinals and the numbers of names and functions; a size and a page of a
\* block; the machine; the key of a Rich header.
SmallEdits ==
    {<<464, 2, 2>>, <<468, 2, 0>>, <<424, 4, 2>>, <<420, 4, 6>>, <<475, 1, 65>>, <<448, 4, 474>>,
     <<416, 4, 8>>, <<416, 4, 100>>, <<412, 4, 5000>>, <<404, 4, 0>>,
     <<68, 2, 43620>>, <<92, 4, 0>>, <<92, 4, KeyNumber>>}
==============================================================================
