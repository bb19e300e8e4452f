----------------------------- MODULE Buffers_proof -----------------------------
(***************************************************************************)
(* Proofs about Buffers, for a buffer of any size, any contents and texts, *)
(* and any number of calls.                                                *)
(***************************************************************************)
EXTENDS Buffers, FiniteSetTheorems, WellFoundedInduction, TLAPS

\* An argument that is an offset and one that is a size do not wrap around.
ArgumentsFit ==
    /\ Contents \subseteq Seq(Nat) /\ Texts \subseteq Seq(Printable)
    /\ Offsets \cup Sizes \cup Limits \cup ViewSizes \subseteq Nat
    /\ \A o \in Offsets : /\ \A n \in Sizes \cup Limits : o + n < Modulus
                          /\ \A t \in Texts : o + Len(t) + 1 < Modulus

-----------------------------------------------------------------------------
(* Numbers *)

LEMMA PowerOfTwo ==
    ASSUME NEW n \in Nat
    PROVE  2^n \in Nat \ {0}
<1>1. IsFiniteSet(1..n) /\ Cardinality(1..n) = n
  BY FS_Interval
<1>2. IsFiniteSet(SUBSET (1..n)) /\ Cardinality(SUBSET (1..n)) = 2^n
  BY <1>1, FS_SUBSET
<1>3. {} \in SUBSET (1..n)
  OBVIOUS
<1>4. Cardinality(SUBSET (1..n)) \in Nat /\ Cardinality(SUBSET (1..n)) # 0
  BY <1>2, <1>3, FS_CardinalityType, FS_EmptySet
<1> QED
  BY <1>2, <1>4

LEMMA Widths ==
    /\ Modulus \in Nat \ {0} /\ INVALID_ADDR = Modulus - 1
    /\ LLONG_MAX \in Int /\ LLONG_MAX < Modulus /\ 2 * LLONG_MAX < Modulus
<1>1. Modulus \in Nat \ {0}
  BY PowerOfTwo, BuffersAssumption DEF Modulus
<1> HIDE DEF Modulus
<1> QED
  BY <1>1 DEF INVALID_ADDR, LLONG_MAX

LEMMA LeastMember ==
    ASSUME NEW T, T \subseteq Nat, T # {}
    PROVE  \E m \in T : \A k \in T : m <= k
<1> DEFINE R == {ss \in Nat \X Nat : ss[1] < ss[2]}
<1>1. R = OpToRel(<, Nat)
  BY DEF OpToRel
<1>2. IsWellFoundedOn(R, Nat)
  BY <1>1, NatLessThanWellFounded
<1> HIDE DEF R
<1>3. PICK m \in T : \A k \in T : ~(<<k, m>> \in R)
  BY <1>2, WFMin
<1>4. ASSUME NEW k \in T
      PROVE  m <= k
  <2>1. k \in Nat /\ m \in Nat
    OBVIOUS
  <2>2. ~(k < m)
    BY <1>3, <2>1 DEF R
  <2> QED
    BY <2>1, <2>2
<1> QED
  BY <1>4

-----------------------------------------------------------------------------
(* Access *)

\* What getContentAt finds in a buffer, for an area that does not wrap around.
LEMMA Found ==
    ASSUME NEW b, b.size \in Nat, b.ptr \in Nat \cup {NoPtr}, NEW o \in Nat, NEW n \in Nat, o + n < Modulus,
           getContentAt(b, o, n) # NoPtr
    PROVE  /\ getContentAt(b, o, n) = b.ptr + o /\ b.ptr \in Nat
           /\ n # 0 /\ o + n <= b.size /\ o # INVALID_ADDR
<1>1. Modulus \in Nat \ {0} /\ o + n \in Nat
  BY Widths
<1> HIDE DEF Modulus
<1>2. (o + n) % Modulus = o + n
  BY <1>1
<1> QED
  BY <1>2 DEF getContentAt

BufInv ==
    /\ file \in Contents /\ calls \in Nat
    /\ size \in Nat /\ (size # 0 => size < LLONG_MAX /\ DOMAIN mem = 0..size+1)
    /\ view.at \in Nat /\ view.size \in Nat
    /\ size = 0 => last = Call("none", "root", 0, <<>>, 0)

LEMMA ViewIs ==
    ASSUME BufInv
    PROVE  /\ View.size \in Nat /\ View.ptr \in Nat \cup {NoPtr}
           /\ ~ViewWraps /\ View.ptr # NoPtr => View.ptr + View.size <= size
           /\ ~ViewWraps => View.size <= size
<1>1. Modulus \in Nat \ {0} /\ view.at \in Nat /\ view.size \in Nat /\ size \in Nat
  BY Widths DEF BufInv
<1> HIDE DEF Modulus
<1>2. ViewSize \in Nat /\ View.size = ViewSize /\ View.ptr = getContentAt(Root, view.at, ViewSize)
  BY <1>1 DEF ViewSize, View
<1>3. View.ptr # NoPtr => View.ptr = view.at /\ view.at < size
  BY <1>1, <1>2 DEF getContentAt, Root, NoPtr
<1>4. ASSUME ~ViewWraps
      PROVE  ViewSize <= size /\ (view.at < size => view.at + ViewSize <= size)
  <2>1. (view.at + view.size) % Modulus = view.at + view.size
    BY <1>1, <1>4 DEF ViewWraps
  <2> QED
    BY <1>1, <2>1 DEF ViewSize
<1> QED
  BY <1>1, <1>2, <1>3, <1>4

LEMMA BufferIs ==
    ASSUME BufInv, NEW name \in {"root", "view"}
    PROVE  /\ Buffer(name).size \in Nat /\ Buffer(name).ptr \in Nat \cup {NoPtr}
           /\ ~(name = "view" /\ ViewWraps) =>
                 /\ Buffer(name).size <= size
                 /\ Buffer(name).ptr # NoPtr => Buffer(name).ptr + Buffer(name).size <= size
<1>1. CASE name = "view"
  BY <1>1, ViewIs DEF Buffer
<1>2. CASE name = "root"
  <2>1. size \in Nat
    BY DEF BufInv
  <2> QED
    BY <1>2, <2>1 DEF Buffer, Root, NoPtr
<1> QED
  BY <1>1, <1>2

-----------------------------------------------------------------------------
(* Writing *)

\* What a call may write to: its area, and one byte more for setTextValue.
Room(b, op) == Area(b.ptr, b.size) \cup (IF op = "text" THEN {b.ptr + b.size} ELSE {})

LEMMA Writes ==
    ASSUME BufInv, NEW op, NEW name \in {"root", "view"}, NEW at, NEW text, NEW limit, NEW bytes, NEW ok,
           Wrote(Call(op, name, at, text, limit), bytes, ok),
           DOMAIN bytes # {} => Buffer(name).ptr # NoPtr /\ DOMAIN bytes \subseteq Room(Buffer(name), op)
    PROVE  BufInv' /\ WritesConfined' /\ calls' # 0 /\ UNCHANGED size
<1>1. /\ size > 0 /\ calls' = calls + 1 /\ UNCHANGED <<file, size, view>>
      /\ DOMAIN mem' = DOMAIN mem
      /\ last'.op = op /\ last'.buf = name /\ last'.wrote = DOMAIN bytes
  BY DEF Wrote, Call
<1>2. BufInv'
  BY <1>1 DEF BufInv
<1>3. Buffer(last.buf)' = Buffer(name) /\ ViewWraps' = ViewWraps
  BY <1>1 DEF Buffer, View, ViewSize, Root, getContentAt, ViewWraps
<1>4. last'.wrote \subseteq Room(Buffer(name), op)
  BY <1>1
<1>5. last'.wrote \subseteq DOMAIN mem \/ (name = "view" /\ ViewWraps)
  <2> SUFFICES ASSUME ~(name = "view" /\ ViewWraps), NEW q \in DOMAIN bytes
               PROVE  q \in 0..size+1
    BY <1>1 DEF BufInv
  <2> DEFINE b == Buffer(name)
  <2>1. b.size \in Nat /\ b.ptr \in Nat /\ b.ptr + b.size <= size /\ size \in Nat
    BY BufferIs DEF BufInv
  <2>2. q \in Area(b.ptr, b.size) \/ q = b.ptr + b.size
    BY DEF Room
  <2> HIDE DEF b
  <2> QED
    BY <2>1, <2>2 DEF Area
<1>6. WritesConfined'
  BY <1>1, <1>3, <1>4, <1>5 DEF WritesConfined, Room
<1>7. calls' # 0
  BY <1>1 DEF BufInv
<1> QED
  BY <1>1, <1>2, <1>6, <1>7

\* A call that writes nothing.
LEMMA WritesNothing ==
    ASSUME BufInv, NEW op, NEW name \in {"root", "view"}, NEW at, NEW text, NEW limit, NEW ok,
           Wrote(Call(op, name, at, text, limit), Nothing, ok)
    PROVE  BufInv' /\ WritesConfined' /\ calls' # 0 /\ UNCHANGED size
<1>1. DOMAIN Nothing = {}
  BY DEF Nothing
<1> QED
  BY <1>1, Writes

\* A call that writes an area that getContentAt has found.
LEMMA WritesFound ==
    ASSUME BufInv, NEW op, NEW name \in {"root", "view"}, NEW at, NEW text, NEW limit, NEW bytes, NEW ok,
           Wrote(Call(op, name, at, text, limit), bytes, ok),
           NEW o \in Nat, NEW n \in Nat, o + n < Modulus, getContentAt(Buffer(name), o, n) # NoPtr,
           DOMAIN bytes = Area(getContentAt(Buffer(name), o, n), n)
    PROVE  BufInv' /\ WritesConfined' /\ calls' # 0 /\ UNCHANGED size
<1> DEFINE b == Buffer(name)
<1>1. b.size \in Nat /\ b.ptr \in Nat \cup {NoPtr}
  BY BufferIs
<1>2. getContentAt(b, o, n) = b.ptr + o /\ b.ptr \in Nat /\ o + n <= b.size
  BY <1>1, Found
<1> HIDE DEF b
<1>3. DOMAIN bytes \subseteq Area(b.ptr, b.size)
  BY <1>1, <1>2 DEF Area, b
<1>4. b.ptr # NoPtr
  BY <1>2 DEF NoPtr
<1> QED
  BY <1>3, <1>4, Writes DEF Room, b

\* The text is read back when it was written with a zero behind it, or up to the
\* end of its field.
LEMMA TextSet ==
    ASSUME BufInv, NEW op, NEW name \in {"root", "view"}, NEW o \in Nat, NEW text \in Seq(Printable), NEW limit \in Nat,
           NEW bytes, NEW c \in Nat, NEW L \in Nat,
           o + Len(text) + 1 < Modulus,
           getContentAt(Buffer(name), o, Len(text) + 1) # NoPtr,
           L = (IF limit = 0 THEN Len(text) ELSE Shorter(limit, Len(text))), L < c,
           bytes = TextBytes(getContentAt(Buffer(name), o, Len(text) + 1), SubSeq(text, 1, L), c),
           Wrote(Call(op, name, o, text, limit), bytes, TRUE)
    PROVE  TextReadBack'
<1> SUFFICES ASSUME ~ViewWraps'
             PROVE  getStringValue(Buffer(name), o, TRUE)' = SubSeq(text, 1, L)
  <2>1. last'.op = op /\ last'.buf = name /\ last'.at = o /\ last'.text = text /\ last'.limit = limit
    BY DEF Wrote, Call
  <2>2. (name = last.buf)' /\ (o = last.at)'
    BY <2>1
  <2> QED
    BY <2>1, <2>2 DEF TextReadBack
<1>a. PICK b : b = Buffer(name)
  OBVIOUS
<1>b. PICK p : p = getContentAt(b, o, Len(text) + 1)
  OBVIOUS
<1>c. PICK n : n = b.size - o
  OBVIOUS
<1>1. /\ UNCHANGED <<size, view>> /\ size > 0
      /\ mem' = [q \in DOMAIN mem |-> IF q \in DOMAIN bytes THEN bytes[q] ELSE mem[q]]
  BY DEF Wrote
<1>2. Buffer(name)' = b /\ ~ViewWraps
  BY <1>a, <1>1 DEF Buffer, View, ViewSize, Root, getContentAt, ViewWraps
<1>3. Len(text) \in Nat /\ L <= Len(text)
  BY DEF Shorter
<1>4. b.size \in Nat /\ b.ptr \in Nat /\ p = b.ptr + o /\ o + Len(text) + 1 <= b.size /\ b.ptr + b.size <= size
  <2>1. b.size \in Nat /\ b.ptr \in Nat \cup {NoPtr} /\ (b.ptr # NoPtr => b.ptr + b.size <= size)
    BY <1>a, <1>2, BufferIs
  <2>2. p = b.ptr + o /\ b.ptr \in Nat /\ o + (Len(text) + 1) <= b.size
    <3>1. o + (Len(text) + 1) < Modulus /\ Len(text) + 1 \in Nat
      BY <1>3, Widths
    <3>2. getContentAt(b, o, Len(text) + 1) # NoPtr
      BY <1>a
    <3> QED
      BY <1>b, <2>1, <3>1, <3>2, Found
  <2>3. b.ptr # NoPtr
    BY <2>2 DEF NoPtr
  <2> QED
    BY <1>3, <2>1, <2>2, <2>3
<1>5. size \in Nat /\ size < LLONG_MAX /\ DOMAIN mem = 0..size+1
  BY <1>1 DEF BufInv
<1>6. n \in Nat /\ n < Modulus - 1 /\ L < n /\ n # 0 /\ b.size < Modulus - 1
  <2>1. b.size <= size /\ o + Len(text) + 1 <= b.size /\ b.size \in Nat
    BY <1>4, <1>5
  <2>2. n \in Nat /\ n <= b.size /\ L < n
    BY <1>c, <1>3, <2>1
  <2>3. b.size < Modulus - 1
    BY <1>5, <2>1, Widths
  <2> QED
    BY <2>1, <2>2, <2>3, Widths
<1>7. (b.size - o) % Modulus = n
  <2>1. Modulus \in Nat \ {0}
    BY Widths
  <2>2. n % Modulus = n
    BY <1>6, <2>1
  <2> QED
    BY <1>c, <2>2
<1>8. getContentAt(b, o, n) = p
  <2>1. o + n = b.size
    BY <1>c, <1>4
  <2>2. (o + n) % Modulus <= b.size
    <3>1. Modulus \in Nat \ {0} /\ b.size \in Nat /\ b.size < Modulus
      BY <1>4, <1>6, Widths
    <3> HIDE DEF Modulus
    <3> QED
      BY <2>1, <3>1
  <2>3. o # INVALID_ADDR /\ o < b.size /\ b.ptr # NoPtr
    BY <1>3, <1>4, <1>6, Widths DEF NoPtr
  <2> QED
    BY <1>4, <1>6, <2>2, <2>3 DEF getContentAt
<1>9. /\ \A i \in 0..L-1 : Cell(p + i)' = text[i + 1]
      /\ Cell(p + L)' = 0
  <2>1. bytes = TextBytes(p, SubSeq(text, 1, L), c)
    BY <1>a, <1>b
  <2>2. /\ DOMAIN bytes = p..p+c-1
        /\ \A q \in p..p+c-1 : bytes[q] = IF q - p < Len(SubSeq(text, 1, L)) THEN SubSeq(text, 1, L)[q - p + 1] ELSE 0
    BY <2>1 DEF TextBytes, Area
  <2>3. Len(SubSeq(text, 1, L)) = L /\ \A i \in 1..L : SubSeq(text, 1, L)[i] = text[i]
    BY <1>3
  <2>4. \A i \in 0..L : p + i \in 0..size+1 /\ p + i \in p..p+c-1 /\ (p + i) - p = i
    <3> SUFFICES ASSUME NEW i \in 0..L
                 PROVE  p + i \in 0..size+1 /\ p + i \in p..p+c-1 /\ (p + i) - p = i
      OBVIOUS
    <3>1. i \in Nat /\ i <= L /\ i <= c - 1 /\ p \in Nat
      BY <1>4
    <3>2. o + i <= b.size
      BY <1>3, <1>4, <3>1
    <3>3. b.ptr + (o + i) <= size
      BY <1>4, <1>5, <3>1, <3>2
    <3>4. p + i = b.ptr + (o + i)
      BY <1>4, <3>1
    <3> QED
      BY <1>5, <3>1, <3>3, <3>4
  <2>5. ASSUME NEW i \in 0..L
        PROVE  Cell(p + i)' = bytes[p + i]
    <3>1. p + i \in DOMAIN mem /\ p + i \in DOMAIN bytes
      BY <1>5, <2>2, <2>4
    <3>2. mem'[p + i] = bytes[p + i] /\ p + i \in DOMAIN mem'
      BY <1>1, <3>1
    <3> QED
      BY <3>2 DEF Cell
  <2>6. ASSUME NEW i \in 0..L-1
        PROVE  bytes[p + i] = text[i + 1]
    <3>1. i \in 0..L /\ i < L /\ i + 1 \in 1..L
      OBVIOUS
    <3>2. p + i \in p..p+c-1 /\ (p + i) - p = i
      BY <2>4, <3>1
    <3>3. bytes[p + i] = SubSeq(text, 1, L)[i + 1]
      BY <2>2, <2>3, <3>1, <3>2
    <3> QED
      BY <2>3, <3>1, <3>3
  <2>7. bytes[p + L] = 0
    <3>1. L \in 0..L
      OBVIOUS
    <3> QED
      BY <2>2, <2>3, <2>4, <3>1
  <2> QED
    BY <2>5, <2>6, <2>7
<1>10. \A i \in 0..L-1 : Cell(p + i)' \in Printable
  BY <1>3, <1>9
<1>11. getAsciiLen(p, n, TRUE)' = L
  <2> DEFINE Stops(i) == (i < n => Cell(p + i)' \notin Printable) /\ \A j \in 0..i-1 : Cell(p + j)' \in Printable
  <2>1. getAsciiLen(p, n, TRUE)' = CHOOSE i \in 0..n : Stops(i)
    BY DEF getAsciiLen
  <2>2. L \in 0..n /\ Stops(L)
    <3>1. 0 \notin Printable
      BY DEF Printable
    <3> QED
      BY <1>6, <1>9, <1>10, <3>1
  <2>3. ASSUME NEW i \in 0..n, Stops(i)
        PROVE  i = L
    <3>1. CASE i < L
      <4>1. i \in 0..L-1 /\ i < n
        BY <1>6, <3>1
      <4> QED
        BY <1>10, <2>3, <4>1
    <3>2. CASE i > L
      <4>1. L \in 0..i-1
        BY <3>2
      <4> QED
        BY <1>6, <2>2, <2>3, <4>1
    <3> QED
      BY <3>1, <3>2
  <2> HIDE DEF Stops
  <2> QED
    BY <2>1, <2>2, <2>3
<1>12. getStringValue(b, o, TRUE)' = [i \in 1..L |-> Cell(p + i - 1)']
  <2>1. p # NoPtr
    BY <1>4 DEF NoPtr
  <2> QED
    BY <1>7, <1>8, <1>11, <2>1 DEF getStringValue
<1>13. \A i \in 1..L : Cell(p + i - 1)' = text[i]
  <2> SUFFICES ASSUME NEW i \in 1..L
               PROVE  Cell(p + i - 1)' = text[i]
    OBVIOUS
  <2>1. i - 1 \in 0..L-1 /\ p + (i - 1) = p + i - 1 /\ (i - 1) + 1 = i
    BY <1>4
  <2>2. Cell(p + (i - 1))' = text[(i - 1) + 1]
    BY <1>9, <2>1
  <2> QED
    BY <2>1, <2>2
<1>14. SubSeq(text, 1, L) = [i \in 1..L |-> text[i]]
  BY <1>3
<1>15. getStringValue(b, o, TRUE)' = SubSeq(text, 1, L)
  BY <1>12, <1>13, <1>14
<1> QED
  BY <1>2, <1>15 DEF getStringValue

-----------------------------------------------------------------------------
(* Loading *)

\* The loop of read ends at the end of the file, or one byte before the end of the buffer.
LEMMA ReadsToTheEnd ==
    ASSUME Len(file) \in Nat, NEW n \in Nat
    PROVE  ReadSize(n) \in 0..Len(file) /\ (ReadSize(n) >= n - 1 \/ ReadSize(n) = Len(file))
<1>a. PICK L \in Nat : L = Len(file)
  OBVIOUS
<1> DEFINE next(r) == r + Shorter(Shorter(n - r, Chunk), L - r)
           Body(f, r) == IF r >= n - 1 \/ next(r) = r THEN r ELSE f[next(r)]
           read == CHOOSE f : f = [r \in 0..L |-> Body(f, r)]
<1>1. ReadSize(n) = read[0]
  BY <1>a DEF ReadSize
<1>2. ASSUME NEW r \in 0..L, ~(r >= n - 1), next(r) # r
      PROVE  next(r) \in r+1..L
  BY <1>2, BuffersAssumption DEF Shorter
<1>3. next(L) = L \/ L >= n - 1
  BY BuffersAssumption DEF Shorter
<1>4. ASSUME NEW r \in 0..L, ~(r >= n - 1), next(r) = r
      PROVE  r = L
  BY <1>4, BuffersAssumption DEF Shorter
<1> HIDE DEF next
\* There is such a function on the last m + 1 offsets, for every m.
<1>5. \E f : f = [r \in 0..L |-> Body(f, r)]
  <2> DEFINE Reads(m) == \E f : f = [r \in (L-m)..L |-> Body(f, r)]
             bad == {m \in 0..L : ~Reads(m)}
  <2> HIDE DEF Reads
  <2> SUFFICES ASSUME bad # {}
               PROVE  FALSE
    <3>1. bad = {} => Reads(L)
      OBVIOUS
    <3>2. L - L = 0
      OBVIOUS
    <3> QED
      BY <3>1, <3>2 DEF Reads
  <2>1. PICK m \in bad : \A k \in bad : m <= k
    <3>1. bad \subseteq Nat
      OBVIOUS
    <3> HIDE DEF bad
    <3> QED
      BY <3>1, LeastMember
  <2>2. m \in 0..L /\ ~Reads(m)
    OBVIOUS
  <2>3. CASE m = 0
    <3> DEFINE f == [r \in L..L |-> L]
    <3>1. \A r \in L..L : r = L /\ Body(f, r) = L
      BY <1>3
    <3>2. f = [r \in L..L |-> Body(f, r)]
      BY <3>1
    <3>3. L - 0 = L
      OBVIOUS
    <3> QED
      BY <2>2, <2>3, <3>2, <3>3 DEF Reads
  <2>4. CASE m # 0
    <3>1. m - 1 \in 0..L /\ m - 1 \notin bad
      BY <2>1, <2>2, <2>4
    <3>2. PICK f : f = [r \in (L-(m-1))..L |-> Body(f, r)]
      BY <3>1 DEF Reads
    <3>3. PICK s \in 0..L : s = L - m /\ s + 1 = L - (m - 1) /\ s < L
      BY <2>2, <2>4
    <3> DEFINE g == [r \in s..L |-> IF r = s THEN Body(f, s) ELSE f[r]]
    <3>4. \A r \in s+1..L : g[r] = f[r] /\ f[r] = Body(f, r)
      BY <3>2, <3>3
    <3>5. \A r \in s..L : ~(r >= n - 1) /\ next(r) # r => next(r) \in s+1..L
      BY <1>2, <3>3
    <3>6. \A r \in s..L : Body(g, r) = Body(f, r)
      BY <3>4, <3>5
    <3>7. ASSUME NEW r \in s..L
          PROVE  g[r] = Body(f, r)
      <4>1. CASE r = s
        BY <4>1
      <4>2. CASE r # s
        <5>1. r \in s+1..L
          BY <4>2
        <5> QED
          BY <3>4, <5>1
      <4> QED
        BY <4>1, <4>2
    <3> HIDE DEF Body
    <3>8. g = [r \in s..L |-> Body(g, r)]
      BY <3>6, <3>7
    <3> QED
      BY <2>2, <3>3, <3>8 DEF Reads
  <2> QED
    BY <2>3, <2>4
<1>6. read = [r \in 0..L |-> Body(read, r)]
  BY <1>5
<1> HIDE DEF read
<1>7. \A r \in 0..L : read[r] \in 0..L /\ (read[r] >= n - 1 \/ read[r] = L)
  <2> DEFINE Ends(x) == x \in 0..L /\ (x >= n - 1 \/ x = L)
             bad == {k \in 0..L : ~Ends(read[L - k])}
  <2> SUFFICES ASSUME bad # {}
               PROVE  FALSE
    <3> SUFFICES ASSUME NEW r \in 0..L
                 PROVE  Ends(read[r])
      OBVIOUS
    <3> HIDE DEF Ends
    <3>1. L - r \in 0..L /\ L - (L - r) = r
      OBVIOUS
    <3> QED
      BY <3>1
  <2>1. PICK k \in bad : \A j \in bad : k <= j
    <3>1. bad \subseteq Nat
      OBVIOUS
    <3> HIDE DEF bad
    <3> QED
      BY <3>1, LeastMember
  <2>2. PICK r \in 0..L : r = L - k
    BY <2>1
  <2>3. ~Ends(read[r])
    BY <2>1, <2>2
  <2>4. read[r] = IF r >= n - 1 \/ next(r) = r THEN r ELSE read[next(r)]
    BY <1>6
  <2>5. ~(r >= n - 1) /\ next(r) # r
    BY <1>4, <2>3, <2>4
  <2>6. next(r) \in r+1..L
    BY <1>2, <2>5
  <2>7. L - next(r) \in 0..L /\ L - next(r) < k /\ L - (L - next(r)) = next(r)
    BY <2>1, <2>2, <2>6
  <2>8. Ends(read[next(r)])
    <3> HIDE DEF Ends
    <3>1. L - next(r) \notin bad
      BY <2>1, <2>7
    <3> QED
      BY <2>7, <3>1
  <2> QED
    BY <2>3, <2>4, <2>5, <2>8
<1>8. 0 \in 0..L
  OBVIOUS
<1> QED
  BY <1>a, <1>1, <1>7, <1>8

\* The size that read asks for is halved to one that can be allocated, or to none.
LEMMA Halved ==
    ASSUME NEW n \in Nat
    PROVE  AllocSize(n) \in Nat
<1> DEFINE Stops(k) == k = 0 \/ CanAllocate(k)
           Body(f, k) == IF Stops(k) THEN k ELSE f[k \div 2]
           size_of == CHOOSE f : f = [k \in 0..n |-> Body(f, k)]
<1>1. AllocSize(n) = size_of[n]
  BY DEF AllocSize
<1>2. ASSUME NEW k \in 0..n, ~Stops(k)
      PROVE  k \div 2 \in 0..k-1
  <2>1. k \in Nat \ {0}
    BY <1>2
  <2> QED
    BY <2>1
<1>3. Stops(0)
  OBVIOUS
<1> HIDE DEF Stops
<1>4. \E f : f = [k \in 0..n |-> Body(f, k)]
  <2> DEFINE Sizes_(m) == \E f : f = [k \in 0..m |-> Body(f, k)]
             bad == {m \in 0..n : ~Sizes_(m)}
  <2> HIDE DEF Sizes_
  <2> SUFFICES ASSUME bad # {}
               PROVE  FALSE
    <3>1. bad = {} => Sizes_(n)
      OBVIOUS
    <3> QED
      BY <3>1 DEF Sizes_
  <2>1. PICK m \in bad : \A k \in bad : m <= k
    <3>1. bad \subseteq Nat
      OBVIOUS
    <3> HIDE DEF bad
    <3> QED
      BY <3>1, LeastMember
  <2>2. m \in 0..n /\ ~Sizes_(m)
    OBVIOUS
  <2>3. CASE m = 0
    <3> DEFINE f == [k \in 0..0 |-> 0]
    <3>1. \A k \in 0..0 : k = 0 /\ Body(f, k) = 0
      BY <1>3
    <3>2. f = [k \in 0..0 |-> Body(f, k)]
      BY <3>1
    <3> QED
      BY <2>2, <2>3, <3>2 DEF Sizes_
  <2>4. CASE m # 0
    <3>1. m - 1 \in 0..n /\ m - 1 \notin bad
      BY <2>1, <2>2, <2>4
    <3>2. PICK f : f = [k \in 0..m-1 |-> Body(f, k)]
      BY <3>1 DEF Sizes_
    <3> DEFINE g == [k \in 0..m |-> IF k = m THEN Body(f, m) ELSE f[k]]
    <3>3. \A k \in 0..m-1 : g[k] = f[k] /\ f[k] = Body(f, k)
      BY <2>2, <3>2
    <3>4. \A k \in 0..m : ~Stops(k) => k \div 2 \in 0..m-1
      <4> SUFFICES ASSUME NEW k \in 0..m, ~Stops(k)
                   PROVE  k \div 2 \in 0..m-1
        OBVIOUS
      <4>1. k \in 0..n /\ k \div 2 \in 0..k-1
        BY <1>2, <2>2
      <4> QED
        BY <2>2, <4>1
    <3>5. \A k \in 0..m : Body(g, k) = Body(f, k)
      BY <3>3, <3>4
    <3>6. ASSUME NEW k \in 0..m
          PROVE  g[k] = Body(f, k)
      <4>1. CASE k = m
        BY <4>1
      <4>2. CASE k # m
        <5>1. k \in 0..m-1
          BY <2>2, <4>2
        <5> QED
          BY <3>3, <5>1
      <4> QED
        BY <4>1, <4>2
    <3> HIDE DEF Body
    <3>7. g = [k \in 0..m |-> Body(g, k)]
      BY <3>5, <3>6
    <3> QED
      BY <2>2, <3>7 DEF Sizes_
  <2> QED
    BY <2>3, <2>4
<1>5. size_of = [k \in 0..n |-> Body(size_of, k)]
  BY <1>4
<1> HIDE DEF size_of
<1>6. \A k \in 0..n : size_of[k] \in Nat
  <2> DEFINE bad == {k \in 0..n : size_of[k] \notin Nat}
  <2> SUFFICES ASSUME bad # {}
               PROVE  FALSE
    OBVIOUS
  <2>1. PICK k \in bad : \A j \in bad : k <= j
    <3>1. bad \subseteq Nat
      OBVIOUS
    <3> HIDE DEF bad
    <3> QED
      BY <3>1, LeastMember
  <2>2. k \in 0..n /\ size_of[k] \notin Nat
    BY <2>1
  <2>3. size_of[k] = IF Stops(k) THEN k ELSE size_of[k \div 2]
    BY <1>5, <2>2
  <2>4. ~Stops(k)
    BY <2>2, <2>3
  <2>5. k \div 2 \in 0..n /\ k \div 2 < k
    <3>1. k \div 2 \in 0..k-1
      BY <1>2, <2>2, <2>4
    <3> QED
      BY <2>2, <3>1
  <2>6. k \div 2 \notin bad
    BY <2>1, <2>2, <2>5
  <2> QED
    BY <2>2, <2>3, <2>4, <2>5, <2>6
<1> QED
  BY <1>1, <1>6

-----------------------------------------------------------------------------
(* The steps *)

AllInv == BufInv /\ WritesConfined /\ TextReadBack /\ LoadedIsPrefix

\* A buffer that was filled by n bytes of the file is its begin, when it was filled to
\* the last byte but one or to the end of the file.
LEMMA LoadedStep ==
    ASSUME ArgumentsFit, BufInv, NEW n \in Nat, CanAllocate(n), NEW got \in Nat, Loaded(n, got),
           got >= n - 1 \/ got >= Len(file), got <= Len(file)
    PROVE  AllInv'
<1>1. /\ size = 0 /\ size' = n /\ n > 0 /\ n < LLONG_MAX /\ UNCHANGED <<file, view, last, calls>>
      /\ mem' = [p \in 0 .. n+DEFAULT_PADDING-1 |-> IF p < Shorter(got, n) THEN file[p + 1] ELSE 0]
  BY DEF Loaded, CanAllocate
<1>2. n+DEFAULT_PADDING-1 = n+1
  BY DEF DEFAULT_PADDING
<1>3. BufInv'
  BY <1>1, <1>2 DEF BufInv
<1>4. last' = Call("none", "root", 0, <<>>, 0)
  BY <1>1 DEF BufInv
<1>5. WritesConfined'
  BY <1>4 DEF WritesConfined, Call
<1>6. TextReadBack'
  BY <1>4 DEF TextReadBack, Call
<1>7. LoadedIsPrefix'
  <2> SUFFICES ASSUME NEW p \in 0..n-1
               PROVE  \/ mem'[p] = (IF p < Len(file) THEN file[p + 1] ELSE 0)
                      \/ p = n - 1 /\ mem'[p] = 0
    BY <1>1 DEF LoadedIsPrefix
  <2>1. Len(file) \in Nat
    BY DEF ArgumentsFit, BufInv
  <2>2. mem'[p] = IF p < Shorter(got, n) THEN file[p + 1] ELSE 0
    BY <1>1, <1>2
  <2>3. CASE p < got
    BY <2>1, <2>2, <2>3 DEF Shorter
  <2>4. CASE p >= got
    BY <2>1, <2>2, <2>4 DEF Shorter
  <2> QED
    BY <2>3, <2>4
<1> QED
  BY <1>3, <1>5, <1>6, <1>7 DEF AllInv

LEMMA LoadStep ==
    ASSUME ArgumentsFit, BufInv, Load
    PROVE  AllInv'
<1>1. Len(file) \in Nat /\ MinBuf \in Nat /\ Chunk \in Nat
  BY BuffersAssumption DEF ArgumentsFit, BufInv
<1>2. ASSUME NEW m \in Sizes, LoadView(m)
      PROVE  AllInv'
  <2>1. Longer(Mapped(m), MinBuf) \in Nat
    BY <1>1 DEF ArgumentsFit, Longer, Mapped, Shorter, getMappableSize
  <2> QED
    BY <1>1, <1>2, <2>1, LoadedStep DEF LoadView
<1>3. ASSUME NEW t \in BOOLEAN, Read(t)
      PROVE  AllInv'
  <2>1. Longer(Len(file), MinBuf) \in Nat
    BY <1>1 DEF Longer
  <2>2. PICK n \in Nat : CanAllocate(n) /\ Loaded(n, ReadSize(n))
    BY <1>3, <2>1, Halved DEF Read
  <2>3. ReadSize(n) \in Nat /\ ReadSize(n) <= Len(file) /\ (ReadSize(n) >= n - 1 \/ ReadSize(n) >= Len(file))
    BY <1>1, <2>2, ReadsToTheEnd
  <2> QED
    BY <2>2, <2>3, LoadedStep
<1> QED
  BY <1>2, <1>3 DEF Load

\* What a call has left when it wrote no text.
LEMMA Kept ==
    ASSUME BufInv' /\ WritesConfined' /\ calls' # 0, last'.op \notin {"string", "text"} \/ ~last'.ok
    PROVE  AllInv'
  BY DEF AllInv, TextReadBack, LoadedIsPrefix

LEMMA SetStringStep ==
    ASSUME ArgumentsFit, BufInv, NEW name \in {"root", "view"}, NEW o \in Offsets, NEW t \in Texts,
           setStringValue(name, o, t)
    PROVE  AllInv'
<1> DEFINE p == getContentAt(Buffer(name), o, Len(t) + 1)
           call == Call("string", name, o, t, 0)
           bytes == BufferedBytes(p, t, Len(t), 1)
<1>1. o \in Nat /\ t \in Seq(Printable) /\ Len(t) + 1 \in Nat /\ o + Len(t) + 1 < Modulus /\ o + (Len(t) + 1) < Modulus
  BY Widths DEF ArgumentsFit
<1>2. CASE Wrote(call, Nothing, FALSE)
  <2>1. BufInv' /\ WritesConfined' /\ calls' # 0
    BY <1>2, WritesNothing
  <2>2. ~last'.ok
    BY <1>2 DEF Wrote, Call
  <2> QED
    BY <2>1, <2>2, Kept
<1>3. CASE p # NoPtr /\ Wrote(call, bytes, TRUE)
  <2>1. bytes = TextBytes(p, t, Len(t) + 1) /\ DOMAIN bytes = Area(p, Len(t) + 1)
    BY DEF BufferedBytes, TextBytes
  <2>2. BufInv' /\ WritesConfined' /\ calls' # 0
    BY <1>1, <1>3, <2>1, WritesFound
  <2>3. SubSeq(t, 1, Len(t)) = t
    BY <1>1
  <2>4. TextReadBack'
    <3>1. Len(t) \in Nat /\ Len(t) < Len(t) + 1 /\ 0 \in Nat
      BY <1>1
    <3>2. bytes = TextBytes(p, SubSeq(t, 1, Len(t)), Len(t) + 1)
      BY <2>1, <2>3
    <3> HIDE DEF bytes
    <3> QED
      BY <1>1, <1>3, <3>1, <3>2, TextSet
  <2> QED
    BY <2>2, <2>4 DEF AllInv, LoadedIsPrefix
<1> QED
  BY <1>2, <1>3 DEF setStringValue

LEMMA SetTextStep ==
    ASSUME ArgumentsFit, BufInv, NEW name \in {"root", "view"}, NEW ptr \in Offsets, NEW t \in Texts, NEW limit \in Limits,
           setTextValue(name, ptr, t, limit)
    PROVE  AllInv'
<1>a. PICK b : b = Buffer(name)
  OBVIOUS
<1>b. PICK o : o = getOffset(b, ptr)
  OBVIOUS
<1>c. PICK p : p = getContentAt(b, o, Len(t) + 1)
  OBVIOUS
<1>d. PICK inField \in BOOLEAN : inField = (limit # 0 /\ getContentAt(b, o, limit) # NoPtr)
  OBVIOUS
<1>e. PICK newLen : newLen = IF inField THEN Shorter(Len(t) + 1, limit) ELSE Len(t) + 1
  OBVIOUS
<1>f. PICK cleared : cleared = IF inField THEN Longer(limit, newLen + 1) ELSE newLen + 1
  OBVIOUS
<1>g. PICK field : field = IF inField THEN limit ELSE 0
  OBVIOUS
<1>h. PICK L : L = Shorter(newLen, Len(t))
  OBVIOUS
<1> DEFINE call == Call("text", name, o, t, field)
           bytes == TextBytes(p, SubSeq(t, 1, L), cleared)
<1>1. ptr \in Nat /\ limit \in Nat /\ t \in Seq(Printable) /\ Len(t) \in Nat
      /\ ptr + limit < Modulus /\ ptr + Len(t) + 1 < Modulus
  BY DEF ArgumentsFit
<1>2. Wrote(call, Nothing, FALSE) \/ (p # NoPtr /\ Wrote(call, bytes, TRUE))
  BY <1>a, <1>b, <1>c, <1>d, <1>e, <1>f, <1>g, <1>h DEF setTextValue
<1>3. CASE Wrote(call, Nothing, FALSE)
  <2>1. BufInv' /\ WritesConfined' /\ calls' # 0
    BY <1>3, WritesNothing
  <2>2. ~last'.ok
    BY <1>3 DEF Wrote, Call
  <2> QED
    BY <2>1, <2>2, Kept
<1>4. CASE p # NoPtr /\ Wrote(call, bytes, TRUE)
  <2>1. b.size \in Nat /\ b.ptr \in Nat \cup {NoPtr}
    BY <1>a, BufferIs
  <2>2. o \in Nat /\ o <= ptr
    <3>1. o # INVALID_ADDR
      BY <1>c, <1>4 DEF getContentAt
    <3>2. b.ptr \in Nat /\ o = ptr - b.ptr /\ ptr >= b.ptr
      BY <1>b, <1>1, <2>1, <3>1 DEF getOffset, Area
    <3> QED
      BY <1>1, <3>2
  <2>3. o + limit < Modulus /\ o + (Len(t) + 1) < Modulus /\ o + Len(t) + 1 < Modulus /\ Len(t) + 1 \in Nat
    BY <1>1, <2>2, Widths
  <2>4. p = b.ptr + o /\ b.ptr \in Nat /\ o + (Len(t) + 1) <= b.size
    BY <1>c, <1>4, <2>1, <2>2, <2>3, Found
  <2>5. inField => o + limit <= b.size /\ limit # 0
    BY <1>d, <1>1, <2>1, <2>2, <2>3, Found
  <2>6. /\ newLen \in Nat /\ newLen <= Len(t) + 1 /\ (inField => newLen <= limit)
        /\ cleared \in Nat /\ cleared >= newLen + 1 /\ (cleared = newLen + 1 \/ (inField /\ cleared = limit))
    BY <1>1, <1>e, <1>f DEF Shorter, Longer
  <2>7. L \in Nat /\ L < cleared /\ field \in Nat
        /\ L = (IF field = 0 THEN Len(t) ELSE Shorter(field, Len(t)))
    BY <1>1, <1>e, <1>g, <1>h, <2>5, <2>6 DEF Shorter
  <2>8. o + cleared <= b.size + 1
    BY <1>1, <2>1, <2>2, <2>4, <2>5, <2>6
  <2>9. DOMAIN bytes = Area(p, cleared)
    BY DEF TextBytes
  <2>10. DOMAIN bytes \subseteq Room(b, "text")
    <3> SUFFICES ASSUME NEW q \in Area(p, cleared)
                 PROVE  q \in Area(b.ptr, b.size) \/ q = b.ptr + b.size
      BY <2>9 DEF Room
    <3>1. q \in Int /\ p <= q /\ q <= p + cleared - 1 /\ p \in Nat
      BY <2>2, <2>4, <2>6 DEF Area
    <3>2. b.ptr <= q
      BY <2>2, <2>4, <3>1
    <3>3. q <= b.ptr + b.size
      <4>1. o + cleared \in Nat /\ p + cleared - 1 = b.ptr + (o + cleared) - 1
        BY <2>2, <2>4, <2>6
      <4>2. b.ptr + (o + cleared) - 1 <= b.ptr + b.size
        BY <2>1, <2>4, <2>8, <4>1
      <4> QED
        BY <2>1, <2>4, <3>1, <4>1, <4>2
    <3> QED
      BY <2>1, <2>4, <3>1, <3>2, <3>3 DEF Area
  <2>11. b.ptr # NoPtr
    BY <2>4 DEF NoPtr
  <2> HIDE DEF bytes
  <2>12. BufInv' /\ WritesConfined' /\ calls' # 0
    BY <1>a, <1>4, <2>10, <2>11, Writes
  <2>13. TextReadBack'
    <3>1. bytes = TextBytes(getContentAt(Buffer(name), o, Len(t) + 1), SubSeq(t, 1, L), cleared)
      BY <1>a, <1>c DEF bytes
    <3>2. getContentAt(Buffer(name), o, Len(t) + 1) # NoPtr
      BY <1>a, <1>c, <1>4
    <3> QED
      BY <1>1, <1>4, <2>2, <2>3, <2>6, <2>7, <3>1, <3>2, TextSet
  <2> QED
    BY <2>12, <2>13 DEF AllInv, LoadedIsPrefix
<1> QED
  BY <1>2, <1>3, <1>4

LEMMA SetNumStep ==
    ASSUME ArgumentsFit, BufInv, NEW name \in {"root", "view"}, NEW o \in Offsets, NEW n \in Sizes, NEW value,
           setNumValue(name, o, n, value)
    PROVE  AllInv'
<1> DEFINE p == getContentAt(Buffer(name), o, n)
           call == Call("num", name, o, <<>>, 0)
           digits == [q \in Area(p, n) |-> (value \div 2^(ByteBits * (q - p))) % 2^ByteBits]
<1>1. o \in Nat /\ n \in Nat /\ o + n < Modulus
  BY DEF ArgumentsFit
<1>2. Wrote(call, Nothing, FALSE) \/ (p # NoPtr /\ Wrote(call, digits, TRUE))
  BY DEF setNumValue
<1>3. BufInv' /\ WritesConfined' /\ calls' # 0
  <2>1. CASE Wrote(call, Nothing, FALSE)
    BY <2>1, WritesNothing
  <2>2. CASE p # NoPtr /\ Wrote(call, digits, TRUE)
    <3>1. DOMAIN digits = Area(p, n)
      OBVIOUS
    <3> HIDE DEF digits
    <3> QED
      BY <1>1, <2>2, <3>1, WritesFound
  <2> QED
    BY <1>2, <2>1, <2>2
<1>4. last'.op = "num"
  BY <1>2 DEF Wrote, Call
<1> QED
  BY <1>3, <1>4, Kept

LEMMA FillStep ==
    ASSUME BufInv, NEW name \in {"root", "view"}, NEW filling, fillContent(name, filling)
    PROVE  AllInv'
<1> DEFINE b == Buffer(name)
           call == Call("fill", name, 0, <<>>, 0)
           bytes == [q \in Area(b.ptr, b.size) |-> filling]
<1>1. Wrote(call, Nothing, FALSE) \/ (b.ptr # NoPtr /\ Wrote(call, bytes, TRUE))
  BY DEF fillContent
<1>2. BufInv' /\ WritesConfined' /\ calls' # 0
  <2>1. CASE Wrote(call, Nothing, FALSE)
    BY <2>1, WritesNothing
  <2>2. CASE b.ptr # NoPtr /\ Wrote(call, bytes, TRUE)
    <3>1. DOMAIN bytes \subseteq Room(b, "fill")
      BY DEF Room
    <3> HIDE DEF bytes
    <3> QED
      BY <2>2, <3>1, Writes
  <2> QED
    BY <1>1, <2>1, <2>2
<1>3. last'.op = "fill"
  BY <1>1 DEF Wrote, Call
<1> QED
  BY <1>2, <1>3, Kept

LEMMA SubstStep ==
    ASSUME ArgumentsFit, BufInv, NEW name \in {"root", "view"}, NEW o \in Offsets, NEW n \in Sizes, NEW content,
           substFragmentByFile(name, o, n, content)
    PROVE  AllInv'
<1> DEFINE p == getContentAt(Buffer(name), o, n)
           call == Call("subst", name, o, <<>>, 0)
           bytes == TextBytes(p, SubSeq(content, 1, Shorter(Len(content), n)), n)
<1>1. o \in Nat /\ n \in Nat /\ o + n < Modulus
  BY DEF ArgumentsFit
<1>2. Wrote(call, Nothing, FALSE) \/ (p # NoPtr /\ Wrote(call, bytes, content # <<>>))
  BY DEF substFragmentByFile
<1>3. BufInv' /\ WritesConfined' /\ calls' # 0
  <2>1. CASE Wrote(call, Nothing, FALSE)
    BY <2>1, WritesNothing
  <2>2. CASE p # NoPtr /\ Wrote(call, bytes, content # <<>>)
    <3>1. DOMAIN bytes = Area(p, n)
      BY DEF TextBytes
    <3> HIDE DEF bytes
    <3> QED
      BY <1>1, <2>2, <3>1, WritesFound
  <2> QED
    BY <1>2, <2>1, <2>2
<1>4. last'.op = "subst"
  BY <1>2 DEF Wrote, Call
<1> QED
  BY <1>3, <1>4, Kept

\* What is pasted ends in the buffer, since neither the view nor the sum wraps around.
LEMMA PasteStep ==
    ASSUME ArgumentsFit, BufInv, NEW o \in Offsets, NEW allowTrunc \in BOOLEAN, pasteBuffer(o, allowTrunc)
    PROVE  AllInv'
<1>a. PICK whole : whole = getContentAt(Root, o, View.size)
  OBVIOUS
<1>b. PICK n : n = IF whole = NoPtr THEN size - o ELSE View.size
  OBVIOUS
<1>c. PICK p : p = getContentAt(Root, o, n)
  OBVIOUS
<1> DEFINE call == Call("paste", "root", o, <<>>, 0)
           Bytes_(pasted) == [q \in Area(p, n) |-> pasted[q]]
<1>1. /\ ~ViewWraps
      /\ \/ Wrote(call, Nothing, FALSE)
         \/ View.ptr # NoPtr /\ size > o /\ p # NoPtr /\ \E pasted \in Copies(mem, View.ptr, p, n) : Wrote(call, Bytes_(pasted), TRUE)
  <2>1. size \in Nat /\ o \in Nat
    BY DEF ArgumentsFit, BufInv
  <2>2. /\ ~ViewWraps
        /\ IF View.ptr = NoPtr \/ size <= o \/ (whole = NoPtr /\ ~allowTrunc) \/ p = NoPtr
           THEN Wrote(call, Nothing, FALSE)
           ELSE \E pasted \in Copies(mem, View.ptr, p, n) : Wrote(call, Bytes_(pasted), TRUE)
    BY <1>a, <1>b, <1>c, Zenon DEF pasteBuffer
  <2>3. size <= o \/ size > o
    BY <2>1
  <2> HIDE DEF call, Bytes_
  <2> QED
    BY <2>2, <2>3, Zenon
<1>2. BufInv' /\ WritesConfined' /\ calls' # 0 /\ last'.op = "paste"
  <2>1. CASE Wrote(call, Nothing, FALSE)
    <3>1. last'.op = "paste"
      BY <2>1 DEF Wrote, Call
    <3> QED
      BY <2>1, <3>1, WritesNothing
  <2>2. CASE View.ptr # NoPtr /\ size > o /\ p # NoPtr /\ \E pasted \in Copies(mem, View.ptr, p, n) : Wrote(call, Bytes_(pasted), TRUE)
    <3>1. PICK pasted : Wrote(call, Bytes_(pasted), TRUE)
      BY <2>2
    <3>2. size \in Nat /\ o \in Nat /\ View.size \in Nat /\ View.size <= size /\ o < size /\ size < LLONG_MAX
      <4>1. size \in Nat /\ o \in Nat /\ o < size
        BY <2>2 DEF ArgumentsFit, BufInv
      <4>2. size < LLONG_MAX
        BY <4>1 DEF BufInv
      <4>3. View.size \in Nat /\ View.size <= size
        BY <1>1, ViewIs
      <4> QED
        BY <4>1, <4>2, <4>3
    <3>3. n \in Nat /\ o + n < Modulus
      BY <1>b, <3>2, Widths
    <3>4. DOMAIN Bytes_(pasted) = Area(p, n) /\ p = getContentAt(Buffer("root"), o, n) /\ p # NoPtr
      BY <1>c, <2>2 DEF Buffer
    <3> HIDE DEF Bytes_
    <3>5. BufInv' /\ WritesConfined' /\ calls' # 0
      BY <3>1, <3>2, <3>3, <3>4, WritesFound
    <3>6. last'.op = "paste"
      BY <3>1 DEF Wrote, Call
    <3> QED
      BY <3>5, <3>6
  <2> QED
    BY <1>1, <2>1, <2>2
<1> QED
  BY <1>2, Kept

LEMMA ResizeStep ==
    ASSUME BufInv, NEW n \in Nat, resize(n)
    PROVE  AllInv' /\ (size' > size => \A p \in size..size'-1 : mem'[p] = 0)
<1>1. /\ size > 0 /\ calls' = calls + 1 /\ UNCHANGED <<file, view>>
      /\ last'.op = "resize" /\ last'.wrote = {}
  BY DEF resize, Call
<1>2. CASE UNCHANGED <<mem, size>>
  <2>1. BufInv' /\ calls' # 0
    BY <1>1, <1>2 DEF BufInv
  <2>2. WritesConfined'
    BY <1>1 DEF WritesConfined
  <2>3. ~(size' > size)
    BY <1>2 DEF BufInv
  <2> QED
    BY <1>1, <2>1, <2>2, <2>3, Kept
<1>3. CASE CanAllocate(n) /\ mem' = Allocated(n) /\ size' = n
  <2>1. n > 0 /\ n < LLONG_MAX /\ n+DEFAULT_PADDING-1 = n+1
    BY <1>3 DEF CanAllocate, DEFAULT_PADDING
  <2>2. mem' = [p \in 0..n+1 |-> IF p >= size THEN 0 ELSE mem[p]]
    BY <1>3, <2>1 DEF Allocated, ClearedFrom
  <2>3. BufInv' /\ calls' # 0
    BY <1>1, <1>3, <2>1, <2>2 DEF BufInv
  <2>4. WritesConfined'
    BY <1>1 DEF WritesConfined
  <2>5. \A p \in size..size'-1 : mem'[p] = 0
    BY <1>3, <2>2 DEF BufInv
  <2> QED
    BY <1>1, <2>3, <2>4, <2>5, Kept
<1> QED
  BY <1>2, <1>3 DEF resize

LEMMA ViewStep ==
    ASSUME BufInv, NEW at \in Nat, NEW n \in Nat, BufferView(at, n)
    PROVE  AllInv'
<1>1. size > 0 /\ calls' = calls + 1 /\ view' = [at |-> at, size |-> n] /\ UNCHANGED <<file, mem, size>>
      /\ last'.op = "view" /\ last'.wrote = {}
  BY DEF BufferView, Call
<1>2. BufInv' /\ calls' # 0
  BY <1>1 DEF BufInv
<1>3. WritesConfined'
  BY <1>1 DEF WritesConfined
<1> QED
  BY <1>1, <1>2, <1>3, Kept

LEMMA WriteStep ==
    ASSUME ArgumentsFit, BufInv, Write
    PROVE  AllInv' /\ UNCHANGED size
<1>1. AllInv'
  BY SetStringStep, SetTextStep, SetNumStep, SubstStep, FillStep DEF Write
<1>2. \A call, bytes, ok : Wrote(call, bytes, ok) => UNCHANGED size
  BY DEF Wrote
<1>3. UNCHANGED size
  <2>1. ASSUME NEW name, NEW o, NEW t, setStringValue(name, o, t)
        PROVE  UNCHANGED size
    BY <1>2, <2>1 DEF setStringValue
  <2>2. ASSUME NEW name, NEW o, NEW t, NEW l, setTextValue(name, o, t, l)
        PROVE  UNCHANGED size
    BY <1>2, <2>2 DEF setTextValue
  <2>3. ASSUME NEW name, NEW o, NEW n, NEW v, setNumValue(name, o, n, v)
        PROVE  UNCHANGED size
    BY <1>2, <2>3 DEF setNumValue
  <2>4. ASSUME NEW name, NEW o, NEW n, NEW c, substFragmentByFile(name, o, n, c)
        PROVE  UNCHANGED size
    BY <1>2, <2>4 DEF substFragmentByFile
  <2>5. ASSUME NEW name, NEW v, fillContent(name, v)
        PROVE  UNCHANGED size
    BY <1>2, <2>5 DEF fillContent
  <2> QED
    BY <2>1, <2>2, <2>3, <2>4, <2>5 DEF Write
<1> QED
  BY <1>1, <1>3

-----------------------------------------------------------------------------
(* The theorems *)

\* What [Next]_vars does to the invariant, and to a buffer that grows.
Grows == size > 0 /\ size' > size => \A p \in size..size'-1 : mem'[p] = 0

LEMMA BuffersStep ==
    ASSUME ArgumentsFit, AllInv, [Next]_vars
    PROVE  AllInv' /\ Grows
<1>1. BufInv /\ size \in Nat
  BY DEF AllInv, BufInv
<1>2. CASE Load
  <2>1. ~(size > 0)
    BY <1>1, <1>2 DEF Load, LoadView, Read, Loaded
  <2> QED
    BY <1>1, <1>2, <2>1, LoadStep DEF Grows
<1>3. CASE Write
  BY <1>1, <1>3, WriteStep DEF Grows
<1>4. ASSUME NEW o \in Offsets, NEW t \in BOOLEAN, pasteBuffer(o, t)
      PROVE  AllInv' /\ Grows
  <2>1. UNCHANGED size
    BY <1>4 DEF pasteBuffer, Wrote
  <2> QED
    BY <1>1, <1>4, <2>1, PasteStep DEF Grows
<1>5. ASSUME NEW n \in Sizes, resize(n)
      PROVE  AllInv' /\ Grows
  BY <1>1, <1>5, ResizeStep DEF Grows, ArgumentsFit
<1>6. ASSUME NEW o \in Offsets, NEW n \in ViewSizes, BufferView(o, n)
      PROVE  AllInv' /\ Grows
  <2>1. UNCHANGED size
    BY <1>6 DEF BufferView
  <2>2. AllInv'
    BY <1>1, <1>6, ViewStep DEF ArgumentsFit
  <2> QED
    BY <1>1, <2>1, <2>2 DEF Grows
<1>7. CASE UNCHANGED vars
  <2>1. BufInv' /\ WritesConfined' /\ LoadedIsPrefix'
    BY <1>7 DEF vars, AllInv, BufInv, WritesConfined, LoadedIsPrefix, Buffer, View, ViewSize, Root, getContentAt, ViewWraps
  <2>2. Buffer(last.buf)' = Buffer(last.buf) /\ ViewWraps' = ViewWraps
    BY <1>7 DEF vars, Buffer, View, ViewSize, Root, getContentAt, ViewWraps
  <2>3. \A b, o : getStringValue(b, o, TRUE)' = getStringValue(b, o, TRUE)
    BY <1>7 DEF vars, getStringValue, getContentAt, getAsciiLen, Cell
  <2>4. TextReadBack'
    BY <1>7, <2>2, <2>3 DEF vars, AllInv, TextReadBack
  <2> QED
    BY <1>1, <1>7, <2>1, <2>4 DEF vars, Grows, AllInv
<1> QED
  BY <1>2, <1>3, <1>4, <1>5, <1>6, <1>7 DEF Next

LEMMA BuffersInit ==
    ASSUME ArgumentsFit, Init
    PROVE  AllInv
<1>1. INVALID_ADDR \in Nat
  BY Widths
<1>2. BufInv
  BY <1>1 DEF Init, BufInv
<1>3. last = Call("none", "root", 0, <<>>, 0) /\ size = 0
  BY DEF Init
<1>4. WritesConfined /\ TextReadBack
  BY <1>3 DEF WritesConfined, TextReadBack, Call
<1>5. LoadedIsPrefix
  BY <1>3 DEF LoadedIsPrefix
<1> QED
  BY <1>2, <1>4, <1>5 DEF AllInv

\* Whatever is loaded, written and resized, the block is the content and its padding,
\* and what the last call did is within the bounds that the properties name.
THEOREM BuffersInvariant ==
    ASSUME ArgumentsFit
    PROVE  Spec => []AllInv
<1>1. Init => AllInv
  BY BuffersInit
<1>2. AllInv /\ [Next]_vars => AllInv'
  BY BuffersStep
<1> QED
  BY <1>1, <1>2, PTL DEF Spec

\* AbstractByteBuffer, BufferView: a call writes to what is the content of its buffer
\* or view then, and setTextValue to one byte more; never behind the block, unless the
\* end of the view has wrapped around.
THEOREM WritesInBounds ==
    ASSUME ArgumentsFit
    PROVE  Spec => []WritesConfined
<1>1. AllInv => WritesConfined
  BY DEF AllInv
<1> QED
  BY <1>1, BuffersInvariant, PTL

\* setStringValue, setTextValue: the text that was set is read back by getStringValue.
THEOREM TextsReadBack ==
    ASSUME ArgumentsFit
    PROVE  Spec => []TextReadBack
<1>1. AllInv => TextReadBack
  BY DEF AllInv
<1> QED
  BY <1>1, BuffersInvariant, PTL

\* AbstractFileBuffer::read, main: the buffer begins with the file, but perhaps for the
\* last byte of the buffer.
THEOREM FileIsLoaded ==
    ASSUME ArgumentsFit
    PROVE  Spec => []LoadedIsPrefix
<1>1. AllInv => LoadedIsPrefix
  BY DEF AllInv
<1> QED
  BY <1>1, BuffersInvariant, PTL

\* ByteBuffer::resize: a buffer grows by zeros.
THEOREM GrowsByZeros ==
    ASSUME ArgumentsFit
    PROVE  Spec => GrownIsZero
<1>1. Init => AllInv
  BY BuffersInit
<1>2. AllInv /\ [Next]_vars => AllInv' /\ [Grows]_vars
  BY BuffersStep
<1>3. [Grows]_vars => [size > 0 /\ size' > size => \A p \in size..size'-1 : mem'[p] = 0]_vars
  BY DEF Grows
<1> QED
  BY <1>1, <1>2, <1>3, PTL DEF Spec, GrownIsZero
================================================================================
