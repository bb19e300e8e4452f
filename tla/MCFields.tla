------------------------------ MODULE MCFields ------------------------------
(***************************************************************************)
(* Small files: the headers, and one or two directories behind them, which *)
(* a file of the other bit mode would look for 16 bytes further.           *)
(***************************************************************************)
EXTENDS Fields

\* The bytes of a number. @@ with nothing makes TLC evaluate a function once.
At(o, size, n) == [i \in Area(o, size) |-> Digit(n, i - o)] @@ <<>>
Of32(o, n) == At(o, 4, n)
Joined(parts) == FoldLeft(LAMBDA a, p : p @@ a, <<>>, parts)
NotZero(f) == Restrict(f, {o \in DOMAIN f : f[o] # 0}) @@ <<>>

\* A member of a structure that begins at o.
In(w, b, o, name, n) ==
    LET struct == View(w, b).struct IN At(o + OffsetsIn(struct, <<name>>)[1], struct[Member(struct, name)][2], n)

Optional == 88
Headers(b, dirs) ==
    Joined(<<Of32(60, 64), At(68, 2, IF b = 64 THEN 34404 ELSE 332), At(Optional, 2, IF b = 64 THEN 523 ELSE 267),
             In("Optional", 32, Optional, "NumberOfRvaAndSizes", 16),
             In("Optional", 64, Optional, "NumberOfRvaAndSizes", 15)>>)
    @@ Joined([i \in DOMAIN dirs |-> Of32(Optional + (IF b = 64 THEN 112 ELSE 96) + 8 * dirs[i][1], dirs[i][2])])

File(b, dirs, parts, size) == [bytes |-> NotZero(Joined(parts) @@ Headers(b, dirs)), len |-> size]

Config == 400
LoadConfig(b) == <<
    In("LdConfig", b, Config, "Size", 280),
    In("LdConfig", b, Config, "SEHandlerTable", 690), In("LdConfig", b, Config, "SEHandlerCount", 2),
    In("LdConfig", b, Config, "GuardCFFunctionTable", 684), In("LdConfig", b, Config, "GuardCFFunctionCount", 3),
    In("LdConfig", b, Config, "GuardFlags", 268435456),
    In("LdConfig", b, Config, "GuardEHContinuationTable", 696), In("LdConfig", b, Config, "GuardEHContinuationCount", 1)>>

DebugFile(type, sig, size) ==
    File(32, <<<<6, 400>>, <<14, 460>>>>,
         <<In("Debug", 32, 400, "Type", type), In("Debug", 32, 400, "SizeOfData", size),
           In("Debug", 32, 400, "PointerToRawData", 440), At(440, 2, sig[1]), At(442, 2, sig[2])>>, 532)

SmallFiles == {
    \* the load configuration, where both bit modes look for it
    File(32, <<<<10, Config>>, <<12, Config>>>>, LoadConfig(32), 704),
    File(64, <<<<10, Config>>, <<8, Config>>>>, LoadConfig(64), 704),
    \* a certificate, and an import directory behind it that is cut
    File(32, <<<<4, 420>>, <<1, 480>>>>, <<Of32(420, 40)>>, 470),
    \* exports, TLS and bound imports, an exception and a delayed import
    File(32, <<<<0, 400>>, <<9, 440>>, <<11, 460>>>>, <<>>, 470),
    File(64, <<<<3, 400>>, <<13, 412>>, <<9, 430>>>>, <<>>, 500),
    \* an exception of another machine
    File(64, <<<<3, 400>>>>, <<At(68, 2, 43620)>>, 420),
    \* debug information of both kinds, and a CLR header
    DebugFile(2, CV_SIGNATURE_RSDS, 30),
    DebugFile(2, CV_SIGNATURE_NB10, 17) }

SmallEdits ==
    ({"LdConfig"} \X {"Size"} \X {2, 4, 94, 172}) \cup
    ({"LdConfig"} \X {"GuardFlags"} \X {536887296}) \cup
    ({"LdConfig"} \X {"SEHandlerCount"} \X {9}) \cup
    ({"Security"} \X {"dwLength"} \X {4, 10, 52, 53}) \cup
    ({"Debug"} \X {"Type", "SizeOfData"} \X {1, 24}) \cup
    ({"Optional"} \X {"Magic"} \X {523})
=============================================================================
