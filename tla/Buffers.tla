------------------------------- MODULE Buffers -------------------------------
(***************************************************************************)
(* A ByteBuffer that holds a file, a BufferView of a part of it, and the   *)
(* calls that read, write and resize them. A pointer is the number of a    *)
(* byte of the block that the buffer has allocated; the block is longer    *)
(* than the content by a padding.                                          *)
(***************************************************************************)
EXTENDS Bytes, Integers, Sequences

CONSTANTS
    Width,      \* bits of offset_t and bufsize_t
    ByteBits,   \* bits of a byte
    Chunk,      \* FILEVIEW_MAXSIZE
    MinBuf,     \* MINBUF of main, minBufSize of FileBuffer
    Memory,     \* the largest block that can be allocated
    Contents,   \* contents of files
    Texts,      \* texts, of printable characters
    Limits,     \* arguments fieldLimitLen
    Offsets,    \* arguments that are offsets
    Sizes,      \* arguments that are sizes; with an offset they do not wrap around
    ViewSizes,  \* sizes of views, which the user gives
    MaxCalls    \* bound on the number of calls

ASSUME BuffersAssumption ==
    /\ Width \in Nat /\ ByteBits \in Nat \ {0} /\ MaxCalls \in Nat
    /\ Chunk \in Nat \ {0} /\ MinBuf \in Nat /\ Memory > MinBuf

VARIABLES
    file,    \* content of the file
    mem,     \* the block: [0..n-1 -> byte]
    size,    \* contentSize; 0 before the file is loaded
    view,    \* the BufferView: its offset and its requested size
    last,    \* history: the last call, what it wrote and what it returned
    calls    \* history: number of calls

vars == <<file, mem, size, view, last, calls>>

Modulus == 2^Width
INVALID_ADDR == Modulus - 1
LLONG_MAX == Modulus \div 2 - 1
DEFAULT_PADDING == 2
Bytes == 0 .. 2^ByteBits-1
Printable == 1 .. 2^(ByteBits - 1)
NoPtr == -1
Shorter(a, b) == IF a < b THEN a ELSE b
Longer(a, b) == IF a < b THEN b ELSE a

-----------------------------------------------------------------------------
(* Access. A buffer is [ptr, size]: its getContent and getContentSize. *)

\* Mutant: the area may end one byte behind the content.
ContentAtEnd(b, offset, n) ==
    IF offset < b.size /\ b.ptr # NoPtr /\ (offset + n) % Modulus <= b.size + 1 THEN b.ptr + offset ELSE NoPtr

\* The sum of offset and size wraps around.
getContentAt(b, offset, n) ==
    IF /\ offset # INVALID_ADDR /\ n # 0 /\ b.ptr # NoPtr
       /\ offset < b.size /\ (offset + n) % Modulus <= b.size
    THEN b.ptr + offset ELSE NoPtr

Root == [ptr |-> IF size = 0 THEN NoPtr ELSE 0, size |-> size]

\* BufferView::getContentSize: the size is trimmed for each call.
ViewSize ==
    IF view.at > size THEN 0
    ELSE IF (view.at + view.size) % Modulus > size THEN size - view.at
    ELSE view.size
View == [ptr |-> getContentAt(Root, view.at, ViewSize), size |-> ViewSize]
ViewWraps == view.at + view.size >= Modulus

Buffer(name) == IF name = "view" THEN View ELSE Root

\* The offset of a pointer into the content.
getOffset(b, p) == IF b.ptr # NoPtr /\ p \in Area(b.ptr, b.size) THEN p - b.ptr ELSE INVALID_ADDR

Cell(p) == IF p \in DOMAIN mem THEN mem[p] ELSE 0

\* pe_util::getAsciiLen: up to a zero or to what is not printable; 0 when there
\* is no zero and one is asked for.
getAsciiLen(p, n, acceptNotTerminated) ==
    LET stop == CHOOSE i \in 0..n : (i < n => Cell(p + i) \notin Printable) /\ \A j \in 0..i-1 : Cell(p + j) \in Printable
    IN IF acceptNotTerminated \/ (stop < n /\ Cell(p + stop) = 0) THEN stop ELSE 0

getStringValue(b, offset, acceptNonTerminated) ==
    LET n == (b.size - offset) % Modulus
        p == getContentAt(b, offset, n)
    IN IF p = NoPtr THEN <<>>
       ELSE [i \in 1..getAsciiLen(p, n, acceptNonTerminated) |-> Cell(p + i - 1)]

-----------------------------------------------------------------------------
(* Writing *)

\* The call wrote bytes, a function on pointers, and returned ok.
Wrote(call, bytes, ok) ==
    /\ size > 0 /\ calls < MaxCalls /\ calls' = calls + 1
    /\ mem' = [p \in DOMAIN mem |-> IF p \in DOMAIN bytes THEN bytes[p] ELSE mem[p]]
    /\ last' = [call EXCEPT !.ok = ok, !.wrote = DOMAIN bytes]
    /\ UNCHANGED <<file, size, view>>
Call(op, name, at, text, limit) ==
    [op |-> op, buf |-> name, at |-> at, text |-> text, limit |-> limit, ok |-> FALSE, wrote |-> {}]
Nothing == [p \in {} |-> 0]

\* The bytes of a text, and the zeros behind it.
TextBytes(p, text, n) == [q \in Area(p, n) |-> IF q - p < Len(text) THEN text[q - p + 1] ELSE 0]

\* Mutant: the padding is not cleared.
TextOnly(p, text, srcSize, padding) == TextBytes(p, text, srcSize)

\* What setBufferedValue writes: memset of the area, and memcpy.
BufferedBytes(p, text, srcSize, padding) ==
    IF padding # 0 THEN TextBytes(p, text, srcSize + padding) ELSE TextBytes(p, text, srcSize)

\* setStringValue, setBufferedValue: no change, and FALSE, when the text is there.
setStringValue(name, offset, text) ==
    LET b == Buffer(name)
        n == Len(text) + 1
        p == getContentAt(b, offset, n)
        same == \A i \in 0..n-1 : Cell(p + i) = (IF i < Len(text) THEN text[i + 1] ELSE 0)
        call == Call("string", name, offset, text, 0)
    IN IF p = NoPtr \/ same THEN Wrote(call, Nothing, FALSE)
       ELSE Wrote(call, BufferedBytes(p, text, Len(text), 1), TRUE)

\* setTextValue: the field is cleared when it is in the buffer. The terminating
\* zero is written behind the bytes that were copied.
setTextValue(name, textPtr, text, limit) ==
    LET b       == Buffer(name)
        offset  == getOffset(b, textPtr)
        p       == getContentAt(b, offset, Len(text) + 1)
        same    == \A i \in 0..Len(text) : Cell(p + i) = (IF i < Len(text) THEN text[i + 1] ELSE 0)
        inField == limit # 0 /\ getContentAt(b, offset, limit) # NoPtr
        newLen  == IF inField THEN Shorter(Len(text) + 1, limit) ELSE Len(text) + 1
        cleared == IF inField THEN Longer(limit, newLen + 1) ELSE newLen + 1
        call    == Call("text", name, offset, text, IF inField THEN limit ELSE 0)
    IN IF p = NoPtr \/ same THEN Wrote(call, Nothing, FALSE)
       ELSE Wrote(call, TextBytes(p, SubSeq(text, 1, Shorter(newLen, Len(text))), cleared), TRUE)

\* setNumValue: a value is cut to the size; a size that no type has is refused.
setNumValue(name, offset, n, value) ==
    LET p      == getContentAt(Buffer(name), offset, n)
        digits == [q \in Area(p, n) |-> (value \div 2^(ByteBits * (q - p))) % 2^ByteBits]
        call   == Call("num", name, offset, <<>>, 0)
    IN IF p = NoPtr \/ n \notin {1, 2, 4, 8} \/ \A q \in DOMAIN digits : Cell(q) = digits[q]
       THEN Wrote(call, Nothing, FALSE) ELSE Wrote(call, digits, TRUE)

fillContent(name, filling) ==
    LET b == Buffer(name) IN
    IF b.ptr = NoPtr THEN Wrote(Call("fill", name, 0, <<>>, 0), Nothing, FALSE)
    ELSE Wrote(Call("fill", name, 0, <<>>, 0), [q \in Area(b.ptr, b.size) |-> filling], TRUE)

\* pasteBuffer of the view; memcpy of areas that overlap. Not of a view that has
\* wrapped around: memcpy would read behind the block.
pasteBuffer(offset, allowTrunc) ==
    LET whole == getContentAt(Root, offset, View.size)
        n     == IF whole = NoPtr THEN size - offset ELSE View.size
        p     == getContentAt(Root, offset, n)
        call  == Call("paste", "root", offset, <<>>, 0)
    IN /\ ~ViewWraps
       /\ IF View.ptr = NoPtr \/ size <= offset \/ (whole = NoPtr /\ ~allowTrunc) \/ p = NoPtr
          THEN Wrote(call, Nothing, FALSE)
          ELSE \E pasted \in Copies(mem, View.ptr, p, n) : Wrote(call, [q \in Area(p, n) |-> pasted[q]], TRUE)

\* substFragmentByFile: the fragment is cleared, and begins with what is loaded.
substFragmentByFile(name, offset, n, content) ==
    LET p    == getContentAt(Buffer(name), offset, n)
        call == Call("subst", name, offset, <<>>, 0)
    IN IF p = NoPtr THEN Wrote(call, Nothing, FALSE)
       ELSE Wrote(call, TextBytes(p, SubSeq(content, 1, Shorter(Len(content), n)), n), content # <<>>)

-----------------------------------------------------------------------------
(* Allocation *)

CanAllocate(n) == n > 0 /\ n < LLONG_MAX /\ n + DEFAULT_PADDING <= Memory

\* Mutant: what was the padding is not cleared.
ClearedBehindPadding == size + DEFAULT_PADDING
ClearedFrom == size

\* allocContent: realloc, and memset behind the content.
Allocated(n) ==
    [p \in 0 .. n+DEFAULT_PADDING-1 |-> IF p >= ClearedFrom THEN 0 ELSE mem[p]]

resize(n) ==
    /\ size > 0 /\ calls < MaxCalls /\ calls' = calls + 1
    /\ last' = [Call("resize", "root", 0, <<>>, 0) EXCEPT !.ok = n = size \/ CanAllocate(n)]
    /\ IF n # size /\ CanAllocate(n) THEN mem' = Allocated(n) /\ size' = n ELSE UNCHANGED <<mem, size>>
    /\ UNCHANGED <<file, view>>

BufferView(at, n) ==
    /\ size > 0 /\ calls < MaxCalls /\ calls' = calls + 1
    /\ view' = [at |-> at, size |-> n]
    /\ last' = Call("view", "view", 0, <<>>, 0)
    /\ UNCHANGED <<file, mem, size>>

-----------------------------------------------------------------------------
(* Loading *)

\* Loaded(n, got): a new buffer of n bytes, of which got come from the file.
Loaded(n, got) ==
    /\ size = 0 /\ size' = n
    /\ mem' = [p \in 0 .. n+DEFAULT_PADDING-1 |-> IF p < Shorter(got, n) THEN file[p + 1] ELSE 0]
    /\ UNCHANGED <<file, view, last, calls>>

\* main, tryLoading: the file is mapped, with sizes that the user gives until it
\* can be, and copied to a buffer of at least MinBuf bytes. The copy does not stop
\* at the end of the view, and reads on in the page that is mapped.
getMappableSize == Shorter(Len(file), Chunk)
Mapped(maxSize) == Shorter(getMappableSize, maxSize)
LoadView(maxSize) ==
    LET n == Longer(Mapped(maxSize), MinBuf)
    IN Mapped(maxSize) > 0 /\ CanAllocate(n) /\ Loaded(n, Len(file))

\* Mutant: one chunk is read.
FirstChunk(n) == Shorter(Shorter(n, Chunk), Len(file))

\* The loop of AbstractFileBuffer::read stops one byte before the end.
ReadSize(n) ==
    LET read[r \in 0..Len(file)] ==
            LET next == r + Shorter(Shorter(n - r, Chunk), Len(file) - r)
            IN IF r >= n - 1 \/ next = r THEN r ELSE read[next]
    IN read[0]

\* AbstractFileBuffer::read: the size is halved until it can be allocated.
AllocSize(n) ==
    LET size_of[k \in 0..n] == IF k = 0 \/ CanAllocate(k) THEN k ELSE size_of[k \div 2] IN size_of[n]
Read(allowTruncate) ==
    LET wanted == Longer(Len(file), MinBuf)
        n      == IF allowTruncate THEN AllocSize(wanted) ELSE wanted
    IN CanAllocate(n) /\ Loaded(n, ReadSize(n))

-----------------------------------------------------------------------------

Init ==
    /\ file \in Contents /\ size = 0 /\ mem = Nothing
    /\ view = [at |-> 0, size |-> INVALID_ADDR] /\ calls = 0
    /\ last = Call("none", "root", 0, <<>>, 0)

Load == (\E n \in Sizes : LoadView(n)) \/ (\E t \in BOOLEAN : Read(t))
Write ==
    \E name \in {"root", "view"} :
        \/ \E o \in Offsets, t \in Texts : setStringValue(name, o, t) \/ \E l \in Limits : setTextValue(name, o, t, l)
        \/ \E o \in Offsets, n \in Sizes :
              \/ \E v \in Bytes : setNumValue(name, o, n, v * (2^ByteBits + 1))
              \/ \E c \in Contents : substFragmentByFile(name, o, n, c)
        \/ \E v \in Bytes : fillContent(name, v)
Next ==
    \/ Load \/ Write
    \/ \E o \in Offsets : \E t \in BOOLEAN : pasteBuffer(o, t)
    \/ \E n \in Sizes : resize(n)
    \/ \E o \in Offsets, n \in ViewSizes : BufferView(o, n)

Spec == Init /\ [][Next]_vars

-----------------------------------------------------------------------------
(* Properties *)

\* AbstractByteBuffer, BufferView: a call on a buffer or on a view writes to the
\* bytes that are its content then, whatever it was when the view was made;
\* setTextValue to one more. Nothing is written behind the block, unless the end
\* of the view has wrapped around.
WritesConfined ==
    LET b == Buffer(last.buf) IN
    /\ last.wrote \subseteq Area(b.ptr, b.size) \cup (IF last.op = "text" THEN {b.ptr + b.size} ELSE {})
    /\ last.wrote \subseteq DOMAIN mem \/ (last.buf = "view" /\ ViewWraps)

\* setStringValue, setTextValue, getStringValue: the text that was set is read
\* back, up to the end of its field, whatever was there before.
TextReadBack ==
    last.op \in {"string", "text"} /\ last.ok /\ ~ViewWraps =>
        getStringValue(Buffer(last.buf), last.at, TRUE) =
            SubSeq(last.text, 1, IF last.limit = 0 THEN Len(last.text) ELSE Shorter(last.limit, Len(last.text)))

\* AbstractFileBuffer::read, main: the buffer begins with the file, all of it
\* that has room but perhaps the last byte of the buffer, and goes on with zeros.
LoadedIsPrefix ==
    calls = 0 => \A p \in 0..size-1 :
        \/ mem[p] = (IF p < Len(file) THEN file[p + 1] ELSE 0)
        \/ p = size - 1 /\ mem[p] = 0

\* ByteBuffer::resize: a buffer grows by zeros; what it has lost when it was cut
\* does not come back.
GrownIsZero ==
    [][size > 0 /\ size' > size => \A p \in size..size'-1 : mem'[p] = 0]_vars
=============================================================================
