----------------------------- MODULE Fields_proof -----------------------------
(***************************************************************************)
(* What the wrappers show of the C structures, for every file, edit and    *)
(* length: the size of a field is that of its member, the fields that are  *)
(* listed are those that were declared, no entry of a table is lost or     *)
(* kept, and a certificate that is taken for whole is in the file.         *)
(***************************************************************************)
EXTENDS Fields, FiniteSetTheorems, WellFoundedInduction, TLAPS

-----------------------------------------------------------------------------
(* Induction *)

\* A set of numbers that is not empty has a least one.
LEMMA LeastNumber ==
    ASSUME NEW T, T \subseteq Nat, T # {}
    PROVE  \E m \in T : \A k \in T : m <= k
<1> DEFINE R == {ss \in Nat \X Nat : ss[1] < ss[2]}
<1>1. R = OpToRel(<, Nat)
  BY DEF OpToRel
<1>2. IsWellFoundedOn(R, Nat)
  BY <1>1, NatLessThanWellFounded
<1> HIDE DEF R
<1>3. PICK m \in T : \A k \in T : ~(<<k, m>> \in R)
  BY <1>2, WFMin
<1>4. ASSUME NEW k \in T
      PROVE  m <= k
  <2>1. k \in Nat /\ m \in Nat
    OBVIOUS
  <2>2. ~(k < m)
    BY <1>3, <2>1 DEF R
  <2> QED
    BY <2>1, <2>2
<1> QED
  BY <1>4

\* A set that holds 0, and with each number the next one, holds all up to n.
LEMMA Climb ==
    ASSUME NEW n \in Nat, NEW S, 0 \in S, \A k \in 0..n : k < n /\ k \in S => k + 1 \in S
    PROVE  \A k \in 0..n : k \in S
<1> DEFINE T == {k \in 0..n : k \notin S}
<1>1. T \subseteq Nat
  OBVIOUS
<1> SUFFICES ASSUME T # {}
             PROVE  FALSE
  OBVIOUS
<1>2. PICK m \in T : \A k \in T : m <= k
  <2> HIDE DEF T
  <2> QED
    BY <1>1, LeastNumber
<1>3. m \in 0..n /\ m \notin S /\ m # 0
  OBVIOUS
<1>4. m - 1 \in 0..n /\ m - 1 < n /\ m - 1 \in S
  BY <1>2, <1>3
<1> QED
  BY <1>3, <1>4

\* What is made from x by n steps, each of them a function on D.
Steps(f, n, x, g) == f[0] = x /\ \A k \in 1..n : f[k] = g[k][f[k-1]]

LEMMA Iterated ==
    ASSUME NEW n \in Nat, NEW D, NEW x \in D, NEW g \in [1..n -> [D -> D]]
    PROVE  \E f \in [0..n -> D] : Steps(f, n, x, g)
<1> DEFINE Made(m) == \E f \in [0..m -> D] : Steps(f, m, x, g)
           S == {m \in 0..n : Made(m)}
<1>1. Made(0)
  <2> DEFINE f == [k \in 0..0 |-> x]
  <2>1. f \in [0..0 -> D] /\ Steps(f, 0, x, g)
    BY DEF Steps
  <2> QED
    BY <2>1
<1>2. ASSUME NEW m \in 0..n, m < n, Made(m)
      PROVE  Made(m + 1)
  <2>1. PICK f \in [0..m -> D] : Steps(f, m, x, g)
    BY <1>2
  <2> DEFINE h == [k \in 0..m+1 |-> IF k = m + 1 THEN g[m+1][f[m]] ELSE f[k]]
  <2>2. m + 1 \in 1..n /\ m \in 0..m /\ g[m+1] \in [D -> D]
    BY <1>2
  <2>3. \A k \in 0..m+1 : k = m + 1 \/ k \in 0..m
    BY <1>2
  <2>4. h \in [0..m+1 -> D]
    BY <2>2, <2>3
  <2>5. \A k \in 0..m : h[k] = f[k]
    BY <1>2
  <2>6. h[m+1] = g[m+1][h[m]]
    BY <1>2, <2>2, <2>5
  <2> HIDE DEF h
  <2>7. ASSUME NEW k \in 1..m+1
        PROVE  h[k] = g[k][h[k-1]]
    <3>1. CASE k = m + 1
      BY <2>6, <3>1, <1>2
    <3>2. CASE k # m + 1
      <4>1. k \in 1..m /\ k \in 0..m /\ k - 1 \in 0..m
        BY <3>2, <1>2
      <4> QED
        BY <2>1, <2>5, <4>1 DEF Steps
    <3> QED
      BY <3>1, <3>2
  <2>8. h[0] = x
    BY <2>1, <2>5, <1>2 DEF Steps
  <2>9. Steps(h, m + 1, x, g)
    BY <2>7, <2>8 DEF Steps
  <2> QED
    BY <2>4, <2>9
<1> HIDE DEF Made
<1>3. 0 \in S /\ \A k \in 0..n : k < n /\ k \in S => k + 1 \in S
  BY <1>1, <1>2
<1> HIDE DEF S
<1>4. \A k \in 0..n : k \in S
  BY <1>3, Climb
<1>5. n \in S
  BY <1>4
<1> QED
  BY <1>5 DEF S, Made

\* The first number that is not in a set, or the limit.
LEMMA FirstStop ==
    ASSUME NEW max \in Nat, NEW Bad
    PROVE  \E n \in 0..max : (n < max => n \in Bad) /\ \A i \in 0..n-1 : i \notin Bad
<1> DEFINE T == {k \in 0..max : k = max \/ k \in Bad}
<1>1. T \subseteq Nat /\ max \in T
  OBVIOUS
<1>2. PICK n \in T : \A k \in T : n <= k
  <2> HIDE DEF T
  <2> QED
    BY <1>1, LeastNumber
<1>3. n \in 0..max /\ (n < max => n \in Bad)
  OBVIOUS
<1>4. \A i \in 0..n-1 : i \notin Bad
  BY <1>2, <1>3
<1> QED
  BY <1>3, <1>4

-----------------------------------------------------------------------------
(* Numbers and structures *)

\* A file of bytes.
Content(p) == p.len \in Nat /\ \A o \in DOMAIN p.bytes : p.bytes[o] \in Nat

LEMMA ByteNat ==
    ASSUME NEW p, Content(p), NEW o
    PROVE  Byte(p, o) \in Nat
  BY DEF Content, Byte

LEMMA NumNat ==
    ASSUME NEW p, Content(p), NEW at, NEW size \in Nat
    PROVE  Num(p, at, size) \in Nat
<1> DEFINE Next1(h, i) == IF h < 2^22 THEN Byte(p, at + size - i) + 256 * h ELSE Huge
           Body(f, i) == IF i = 0 THEN 0 ELSE IF f[i-1] < 2^22 THEN Byte(p, at + size - i) + 256 * f[i-1] ELSE Huge
           high == CHOOSE f : f = [i \in 0..size |-> Body(f, i)]
           g == [i \in 1..size |-> [h \in Nat |-> Next1(h, i)]]
<1>1. Num(p, at, size) = high[size]
  BY DEF Num
<1>2. \A h \in Nat, i \in 1..size : Next1(h, i) \in Nat
  <2>1. \A i \in 1..size : Byte(p, at + size - i) \in Nat
    BY ByteNat
  <2>2. Huge \in Nat
    BY DEF Huge
  <2> QED
    BY <2>1, <2>2
<1>3. g \in [1..size -> [Nat -> Nat]]
  <2> HIDE DEF Next1
  <2> QED
    BY <1>2
<1>4. PICK f \in [0..size -> Nat] : Steps(f, size, 0, g)
  <2> HIDE DEF g
  <2>1. 0 \in Nat
    OBVIOUS
  <2> QED
    BY <1>3, <2>1, Iterated
<1>5. ASSUME NEW i \in 0..size
      PROVE  f[i] = Body(f, i)
  <2>1. CASE i = 0
    BY <1>4, <2>1 DEF Steps
  <2>2. CASE i # 0
    <3>1. i \in 1..size /\ i - 1 \in 0..size /\ f[i-1] \in Nat
      BY <2>2
    <3>2. f[i] = g[i][f[i-1]]
      BY <1>4, <3>1 DEF Steps
    <3> QED
      BY <2>2, <3>1, <3>2
  <2> QED
    BY <2>1, <2>2
<1>6. f = [i \in 0..size |-> Body(f, i)]
  <2> HIDE DEF Body
  <2> QED
    BY <1>5
<1>7. high = [i \in 0..size |-> Body(high, i)]
  <2> HIDE DEF Body
  <2> QED
    BY <1>6
<1> HIDE DEF high
<1> DEFINE S == {i \in 0..size : high[i] \in Nat}
<1>8. 0 \in S
  BY <1>7
<1>9. ASSUME NEW i \in 0..size, i < size, i \in S
      PROVE  i + 1 \in S
  <2>1. i + 1 \in 1..size /\ (i + 1) - 1 = i /\ high[i] \in Nat
    BY <1>9
  <2>2. high[i+1] = Next1(high[i], i + 1)
    BY <1>7, <2>1
  <2>3. Next1(high[i], i + 1) \in Nat
    BY <1>2, <2>1
  <2> HIDE DEF Next1
  <2> QED
    BY <2>1, <2>2, <2>3
<1>10. \A i \in 0..size : i \in S
  <2> HIDE DEF S
  <2> QED
    BY <1>8, <1>9, Climb
<1>11. size \in S
  BY <1>10
<1> QED
  BY <1>1, <1>11

\* Sizes of members are added up one by one.
Sums(f, struct, n) == f[0] = 0 /\ \A k \in 1..n : f[k] = f[k-1] + struct[k][2]

LEMMA SumIs ==
    ASSUME NEW struct, NEW n \in Nat, \A k \in 1..n : struct[k][2] \in Nat
    PROVE  \E f : SizeOfMembers(struct, n) = f[n] /\ Sums(f, struct, n)
<1> DEFINE Body(f, i) == IF i = 0 THEN 0 ELSE f[i-1] + struct[i][2]
           sum == CHOOSE f : f = [i \in 0..n |-> Body(f, i)]
           g == [i \in 1..n |-> [h \in Nat |-> h + struct[i][2]]]
<1>1. SizeOfMembers(struct, n) = sum[n]
  BY DEF SizeOfMembers
<1>2. g \in [1..n -> [Nat -> Nat]]
  OBVIOUS
<1>3. PICK f \in [0..n -> Nat] : Steps(f, n, 0, g)
  <2> HIDE DEF g
  <2>1. 0 \in Nat
    OBVIOUS
  <2> QED
    BY <1>2, <2>1, Iterated
<1>4. ASSUME NEW i \in 0..n
      PROVE  f[i] = Body(f, i)
  <2>1. CASE i = 0
    BY <1>3, <2>1 DEF Steps
  <2>2. CASE i # 0
    <3>1. i \in 1..n /\ i - 1 \in 0..n /\ f[i-1] \in Nat
      BY <2>2
    <3>2. f[i] = g[i][f[i-1]]
      BY <1>3, <3>1 DEF Steps
    <3> QED
      BY <2>2, <3>1, <3>2
  <2> QED
    BY <2>1, <2>2
<1>5. f = [i \in 0..n |-> Body(f, i)]
  <2> HIDE DEF Body
  <2> QED
    BY <1>4
<1>6. sum = [i \in 0..n |-> Body(sum, i)]
  <2> HIDE DEF Body
  <2> QED
    BY <1>5
<1> HIDE DEF sum
<1>7. Sums(sum, struct, n)
  BY <1>6 DEF Sums
<1> QED
  BY <1>1, <1>7

-----------------------------------------------------------------------------
(* Structures *)

\* Members of the same size.
Sized(T, size) == T \X {size}

\* n names of T, all different.
Named(names, n, T) ==
    /\ n \in Nat /\ names \in Seq(T) /\ Len(names) = n
    /\ \A i, j \in 1..n : names[i] = names[j] => i = j

\* A structure of n members that are in M, each with its own name.
Row(s, n, M) == n \in Nat /\ s \in Seq(M) /\ Len(s) = n
Struct(s, n, M) ==
    /\ Row(s, n, M)
    /\ \A m \in M : m[2] \in Nat \ {0}
    /\ \A i, j \in 1..n : s[i][1] = s[j][1] => i = j

LEMMA StructOf ==
    ASSUME NEW T, NEW n, NEW names, Named(names, n, T), NEW size \in Nat \ {0}
    PROVE  Struct(Of(size, names), n, Sized(T, size))
<1>1. n \in Nat /\ names \in Seq(T) /\ Len(names) = n /\ \A i \in 1..n : names[i] \in T
  BY DEF Named
<1>2. PICK s : s = Of(size, names)
  OBVIOUS
<1>3. s \in [1..n -> Sized(T, size)] /\ \A i \in 1..n : s[i] = <<names[i], size>>
  BY <1>1, <1>2 DEF Of, Sized
<1>4. s \in Seq(Sized(T, size)) /\ Len(s) = n
  BY <1>1, <1>3
<1>5. \A i, j \in 1..n : s[i][1] = s[j][1] => i = j
  BY <1>3 DEF Named
<1>6. \A m \in Sized(T, size) : m[2] \in Nat \ {0}
  BY DEF Sized
<1> QED
  BY <1>1, <1>2, <1>4, <1>5, <1>6 DEF Struct, Row

\* A function on 1..n.
IsList(z, n) == DOMAIN z = 1..n /\ z = [i \in DOMAIN z |-> z[i]]

LEMMA RowIs ==
    ASSUME NEW z, NEW n, NEW T, Row(z, n, T)
    PROVE  IsList(z, n) /\ <<>> \o z = z /\ \A i \in 1..n : z[i] \in T
<1>1. z \in Seq(T) /\ Len(z) = n
  BY DEF Row
<1>2. DOMAIN z = 1..n /\ z = [i \in DOMAIN z |-> z[i]]
  BY <1>1
<1> QED
  BY <1>1, <1>2 DEF IsList

LEMMA IsRow ==
    ASSUME NEW z, NEW n \in Nat, NEW T, IsList(z, n), \A i \in 1..n : z[i] \in T
    PROVE  Row(z, n, T)
<1>1. z \in [1..n -> T]
  BY DEF IsList
<1>2. z \in Seq(T) /\ Len(z) = n
  BY <1>1
<1> QED
  BY <1>2 DEF Row

LEMMA SameLists ==
    ASSUME NEW y, NEW z, NEW n, IsList(y, n), IsList(z, n), \A i \in 1..n : y[i] = z[i]
    PROVE  y = z
  BY DEF IsList

IsJoin(u, s, t) == u = s \o t

\* n members as s has them, then k members as t has them.
Joined(u, s, n, M, t, k, L) ==
    /\ Row(u, n + k, M \cup L)
    /\ \A i \in 1..n : u[i] = s[i] /\ s[i] \in M
    /\ \A i \in 1..k : u[n+i] = t[i] /\ t[i] \in L

LEMMA RowJoined ==
    ASSUME NEW s, NEW t, NEW u, NEW n, NEW k, NEW M, NEW L, Row(s, n, M), Row(t, k, L), IsJoin(u, s, t)
    PROVE  Joined(u, s, n, M, t, k, L)
<1>1. s \in Seq(M) /\ t \in Seq(L) /\ n \in Nat /\ k \in Nat /\ Len(s) = n /\ Len(t) = k
  BY DEF Row
<1> DEFINE D == M \cup L
<1>2. s \in Seq(D) /\ t \in Seq(D)
  BY <1>1
<1>3. (\A i \in 1..n : s[i] \in M) /\ (\A i \in 1..k : t[i] \in L)
  BY <1>1
<1> HIDE DEF D
<1>4. /\ s \o t \in Seq(D) /\ Len(s \o t) = n + k
      /\ \A i \in 1..n : (s \o t)[i] = s[i]
      /\ \A i \in 1..k : (s \o t)[n+i] = t[i]
  BY <1>1, <1>2
<1>5. u = s \o t
  BY DEF IsJoin
<1>6. Row(u, n + k, D)
  BY <1>1, <1>4, <1>5 DEF Row
<1>7. (\A i \in 1..n : u[i] = s[i]) /\ (\A i \in 1..k : u[n+i] = t[i])
  BY <1>4, <1>5
<1> QED
  BY <1>3, <1>6, <1>7 DEF D, Joined

\* No name in both.
Apart(M, L) == \A a \in M : \A b \in L : a[1] # b[1]

LEMMA StructJoined ==
    ASSUME NEW s, NEW t, NEW n, NEW k, NEW M, NEW L, Struct(s, n, M), Struct(t, k, L), Apart(M, L)
    PROVE  Struct(s \o t, n + k, M \cup L)
<1>1. Row(s, n, M) /\ Row(t, k, L) /\ n \in Nat /\ k \in Nat
  BY DEF Struct, Row
<1>2. PICK u : u = s \o t /\ IsJoin(u, s, t)
  BY DEF IsJoin
<1>3. /\ Row(u, n + k, M \cup L)
      /\ \A i \in 1..n : u[i] = s[i] /\ s[i] \in M
      /\ \A i \in 1..k : u[n+i] = t[i] /\ t[i] \in L
  <2>1. Joined(u, s, n, M, t, k, L)
    BY <1>1, <1>2, RowJoined
  <2> QED
    BY <2>1 DEF Joined
<1>4. ASSUME NEW i \in 1..n+k, NEW j \in 1..n+k, u[i][1] = u[j][1]
      PROVE  i = j
  <2>1. \A h \in 1..n+k : h \in 1..n \/ (h - n \in 1..k /\ h = n + (h - n))
    BY <1>1
  <2>2. CASE i \in 1..n /\ j \in 1..n
    BY <1>3, <1>4, <2>2 DEF Struct
  <2>3. CASE i \notin 1..n /\ j \notin 1..n
    <3>1. PICK x \in 1..k, y \in 1..k : i = n + x /\ j = n + y
      BY <2>1, <2>3
    <3>2. t[x][1] = t[y][1]
      BY <1>3, <1>4, <3>1
    <3>3. x = y
      BY <3>2 DEF Struct
    <3> QED
      BY <3>1, <3>3
  <2>4. CASE i \in 1..n /\ j \notin 1..n
    <3>1. PICK y \in 1..k : j = n + y
      BY <2>1, <2>4
    <3>2. u[i] \in M /\ u[j] \in L
      BY <1>3, <2>4, <3>1
    <3> QED
      BY <1>4, <3>2 DEF Apart
  <2>5. CASE i \notin 1..n /\ j \in 1..n
    <3>1. PICK x \in 1..k : i = n + x
      BY <2>1, <2>5
    <3>2. u[j] \in M /\ u[i] \in L
      BY <1>3, <2>5, <3>1
    <3> QED
      BY <1>4, <3>2 DEF Apart
  <2> QED
    BY <2>2, <2>3, <2>4, <2>5
<1>5. \A m \in M \cup L : m[2] \in Nat \ {0}
  BY DEF Struct
<1> QED
  BY <1>1, <1>2, <1>3, <1>4, <1>5 DEF Struct

IMAGE_DOS_HEADERMembers ==
         Sized({"e_magic", "e_cblp", "e_cp", "e_crlc", "e_cparhdr", "e_minalloc", "e_maxalloc", "e_ss", "e_sp",
                   "e_csum", "e_ip", "e_cs", "e_lfarlc", "e_ovno"}, 2)
    \cup Sized({"e_res"}, 8)
    \cup Sized({"e_oemid", "e_oeminfo"}, 2)
    \cup Sized({"e_res2"}, 20)
    \cup Sized({"e_lfanew"}, 4)

LEMMA IMAGE_DOS_HEADERStruct == Struct(IMAGE_DOS_HEADER, 19, IMAGE_DOS_HEADERMembers)
<1> DEFINE N1 == <<"e_magic", "e_cblp", "e_cp", "e_crlc", "e_cparhdr", "e_minalloc", "e_maxalloc", "e_ss", "e_sp",
                    "e_csum", "e_ip", "e_cs", "e_lfarlc", "e_ovno">>
           M1 == Sized({"e_magic", "e_cblp", "e_cp", "e_crlc", "e_cparhdr", "e_minalloc", "e_maxalloc", "e_ss",
                         "e_sp", "e_csum", "e_ip", "e_cs", "e_lfarlc", "e_ovno"}, 2)
           N2 == <<"e_res">>
           M2 == Sized({"e_res"}, 8)
           N3 == <<"e_oemid", "e_oeminfo">>
           M3 == Sized({"e_oemid", "e_oeminfo"}, 2)
           N4 == <<"e_res2">>
           M4 == Sized({"e_res2"}, 20)
           N5 == <<"e_lfanew">>
           M5 == Sized({"e_lfanew"}, 4)
<1>1. Named(N1, 14, {"e_magic", "e_cblp", "e_cp", "e_crlc", "e_cparhdr", "e_minalloc", "e_maxalloc",
            "e_ss", "e_sp", "e_csum", "e_ip", "e_cs", "e_lfarlc", "e_ovno"})
  BY DEF Named
<1>2. Named(N2, 1, {"e_res"})
  BY DEF Named
<1>3. Named(N3, 2, {"e_oemid", "e_oeminfo"})
  BY DEF Named
<1>4. Named(N4, 1, {"e_res2"})
  BY DEF Named
<1>5. Named(N5, 1, {"e_lfanew"})
  BY DEF Named
<1> HIDE DEF N1, N2, N3, N4, N5
<1>6. Struct(Of(2, N1), 14, M1)
  BY <1>1, StructOf
<1>7. Struct(Of(8, N2), 1, M2)
  BY <1>2, StructOf
<1>8. Struct(Of(2, N3), 2, M3)
  BY <1>3, StructOf
<1>9. Struct(Of(20, N4), 1, M4)
  BY <1>4, StructOf
<1>10. Struct(Of(4, N5), 1, M5)
  BY <1>5, StructOf
<1> HIDE DEF M1, M2, M3, M4, M5
<1>11. Apart(M1, M2)
  BY DEF Apart, Sized, M1, M2
<1>12. Struct(Of(2, N1) \o Of(8, N2), 15, M1 \cup M2)
  BY <1>6, <1>7, <1>11, StructJoined
<1>13. Apart(M1 \cup M2, M3)
  BY DEF Apart, Sized, M1, M2, M3
<1>14. Struct(Of(2, N1) \o Of(8, N2) \o Of(2, N3), 17, M1 \cup M2 \cup M3)
  BY <1>12, <1>8, <1>13, StructJoined
<1>15. Apart(M1 \cup M2 \cup M3, M4)
  BY DEF Apart, Sized, M1, M2, M3, M4
<1>16. Struct(Of(2, N1) \o Of(8, N2) \o Of(2, N3) \o Of(20, N4), 18, M1 \cup M2 \cup M3 \cup M4)
  BY <1>14, <1>9, <1>15, StructJoined
<1>17. Apart(M1 \cup M2 \cup M3 \cup M4, M5)
  BY DEF Apart, Sized, M1, M2, M3, M4, M5
<1>18. Struct(Of(2, N1) \o Of(8, N2) \o Of(2, N3) \o Of(20, N4) \o Of(4, N5), 19, M1 \cup M2 \cup M3 \cup M4 \cup M5)
  BY <1>16, <1>10, <1>17, StructJoined
<1> QED
  BY <1>18 DEF IMAGE_DOS_HEADER, IMAGE_DOS_HEADERMembers, N1, N2, N3, N4, N5, M1, M2, M3, M4, M5

IMAGE_FILE_HEADERMembers ==
         Sized({"Machine", "NumberOfSections"}, 2)
    \cup Sized({"TimeDateStamp", "PointerToSymbolTable", "NumberOfSymbols"}, 4)
    \cup Sized({"SizeOfOptionalHeader", "Characteristics"}, 2)

LEMMA IMAGE_FILE_HEADERStruct == Struct(IMAGE_FILE_HEADER, 7, IMAGE_FILE_HEADERMembers)
<1> DEFINE N1 == <<"Machine", "NumberOfSections">>
           M1 == Sized({"Machine", "NumberOfSections"}, 2)
           N2 == <<"TimeDateStamp", "PointerToSymbolTable", "NumberOfSymbols">>
           M2 == Sized({"TimeDateStamp", "PointerToSymbolTable", "NumberOfSymbols"}, 4)
           N3 == <<"SizeOfOptionalHeader", "Characteristics">>
           M3 == Sized({"SizeOfOptionalHeader", "Characteristics"}, 2)
<1>1. Named(N1, 2, {"Machine", "NumberOfSections"})
  BY DEF Named
<1>2. Named(N2, 3, {"TimeDateStamp", "PointerToSymbolTable", "NumberOfSymbols"})
  BY DEF Named
<1>3. Named(N3, 2, {"SizeOfOptionalHeader", "Characteristics"})
  BY DEF Named
<1> HIDE DEF N1, N2, N3
<1>4. Struct(Of(2, N1), 2, M1)
  BY <1>1, StructOf
<1>5. Struct(Of(4, N2), 3, M2)
  BY <1>2, StructOf
<1>6. Struct(Of(2, N3), 2, M3)
  BY <1>3, StructOf
<1> HIDE DEF M1, M2, M3
<1>7. Apart(M1, M2)
  BY DEF Apart, Sized, M1, M2
<1>8. Struct(Of(2, N1) \o Of(4, N2), 5, M1 \cup M2)
  BY <1>4, <1>5, <1>7, StructJoined
<1>9. Apart(M1 \cup M2, M3)
  BY DEF Apart, Sized, M1, M2, M3
<1>10. Struct(Of(2, N1) \o Of(4, N2) \o Of(2, N3), 7, M1 \cup M2 \cup M3)
  BY <1>8, <1>6, <1>9, StructJoined
<1> QED
  BY <1>10 DEF IMAGE_FILE_HEADER, IMAGE_FILE_HEADERMembers, N1, N2, N3, M1, M2, M3

OptionalBeginMembers ==
         Sized({"Magic"}, 2)
    \cup Sized({"MajorLinkerVersion", "MinorLinkerVersion"}, 1)
    \cup Sized({"SizeOfCode", "SizeOfInitializedData", "SizeOfUninitializedData", "AddressOfEntryPoint",
                   "BaseOfCode"}, 4)

LEMMA OptionalBeginStruct == Struct(OptionalBegin, 8, OptionalBeginMembers)
<1> DEFINE N1 == <<"Magic">>
           M1 == Sized({"Magic"}, 2)
           N2 == <<"MajorLinkerVersion", "MinorLinkerVersion">>
           M2 == Sized({"MajorLinkerVersion", "MinorLinkerVersion"}, 1)
           N3 == <<"SizeOfCode", "SizeOfInitializedData", "SizeOfUninitializedData", "AddressOfEntryPoint",
                    "BaseOfCode">>
           M3 == Sized({"SizeOfCode", "SizeOfInitializedData", "SizeOfUninitializedData", "AddressOfEntryPoint",
                         "BaseOfCode"}, 4)
<1>1. Named(N1, 1, {"Magic"})
  BY DEF Named
<1>2. Named(N2, 2, {"MajorLinkerVersion", "MinorLinkerVersion"})
  BY DEF Named
<1>3. Named(N3, 5, {"SizeOfCode", "SizeOfInitializedData", "SizeOfUninitializedData",
            "AddressOfEntryPoint", "BaseOfCode"})
  BY DEF Named
<1> HIDE DEF N1, N2, N3
<1>4. Struct(Of(2, N1), 1, M1)
  BY <1>1, StructOf
<1>5. Struct(Of(1, N2), 2, M2)
  BY <1>2, StructOf
<1>6. Struct(Of(4, N3), 5, M3)
  BY <1>3, StructOf
<1> HIDE DEF M1, M2, M3
<1>7. Apart(M1, M2)
  BY DEF Apart, Sized, M1, M2
<1>8. Struct(Of(2, N1) \o Of(1, N2), 3, M1 \cup M2)
  BY <1>4, <1>5, <1>7, StructJoined
<1>9. Apart(M1 \cup M2, M3)
  BY DEF Apart, Sized, M1, M2, M3
<1>10. Struct(Of(2, N1) \o Of(1, N2) \o Of(4, N3), 8, M1 \cup M2 \cup M3)
  BY <1>8, <1>6, <1>9, StructJoined
<1> QED
  BY <1>10 DEF OptionalBegin, OptionalBeginMembers, N1, N2, N3, M1, M2, M3

OptionalMiddleMembers ==
         Sized({"SectionAlignment", "FileAlignment"}, 4)
    \cup Sized({"MajorOperatingSystemVersion", "MinorOperatingSystemVersion", "MajorImageVersion",
                   "MinorImageVersion", "MajorSubsystemVersion", "MinorSubsystemVersion"}, 2)
    \cup Sized({"Win32VersionValue", "SizeOfImage", "SizeOfHeaders", "CheckSum"}, 4)
    \cup Sized({"Subsystem", "DllCharacteristics"}, 2)

LEMMA OptionalMiddleStruct == Struct(OptionalMiddle, 14, OptionalMiddleMembers)
<1> DEFINE N1 == <<"SectionAlignment", "FileAlignment">>
           M1 == Sized({"SectionAlignment", "FileAlignment"}, 4)
           N2 == <<"MajorOperatingSystemVersion", "MinorOperatingSystemVersion", "MajorImageVersion",
                    "MinorImageVersion", "MajorSubsystemVersion", "MinorSubsystemVersion">>
           M2 == Sized({"MajorOperatingSystemVersion", "MinorOperatingSystemVersion", "MajorImageVersion",
                         "MinorImageVersion", "MajorSubsystemVersion", "MinorSubsystemVersion"}, 2)
           N3 == <<"Win32VersionValue", "SizeOfImage", "SizeOfHeaders", "CheckSum">>
           M3 == Sized({"Win32VersionValue", "SizeOfImage", "SizeOfHeaders", "CheckSum"}, 4)
           N4 == <<"Subsystem", "DllCharacteristics">>
           M4 == Sized({"Subsystem", "DllCharacteristics"}, 2)
<1>1. Named(N1, 2, {"SectionAlignment", "FileAlignment"})
  BY DEF Named
<1>2. Named(N2, 6, {"MajorOperatingSystemVersion", "MinorOperatingSystemVersion", "MajorImageVersion",
            "MinorImageVersion", "MajorSubsystemVersion", "MinorSubsystemVersion"})
  BY DEF Named
<1>3. Named(N3, 4, {"Win32VersionValue", "SizeOfImage", "SizeOfHeaders", "CheckSum"})
  BY DEF Named
<1>4. Named(N4, 2, {"Subsystem", "DllCharacteristics"})
  BY DEF Named
<1> HIDE DEF N1, N2, N3, N4
<1>5. Struct(Of(4, N1), 2, M1)
  BY <1>1, StructOf
<1>6. Struct(Of(2, N2), 6, M2)
  BY <1>2, StructOf
<1>7. Struct(Of(4, N3), 4, M3)
  BY <1>3, StructOf
<1>8. Struct(Of(2, N4), 2, M4)
  BY <1>4, StructOf
<1> HIDE DEF M1, M2, M3, M4
<1>9. Apart(M1, M2)
  BY DEF Apart, Sized, M1, M2
<1>10. Struct(Of(4, N1) \o Of(2, N2), 8, M1 \cup M2)
  BY <1>5, <1>6, <1>9, StructJoined
<1>11. Apart(M1 \cup M2, M3)
  BY DEF Apart, Sized, M1, M2, M3
<1>12. Struct(Of(4, N1) \o Of(2, N2) \o Of(4, N3), 12, M1 \cup M2 \cup M3)
  BY <1>10, <1>7, <1>11, StructJoined
<1>13. Apart(M1 \cup M2 \cup M3, M4)
  BY DEF Apart, Sized, M1, M2, M3, M4
<1>14. Struct(Of(4, N1) \o Of(2, N2) \o Of(4, N3) \o Of(2, N4), 14, M1 \cup M2 \cup M3 \cup M4)
  BY <1>12, <1>8, <1>13, StructJoined
<1> QED
  BY <1>14 DEF OptionalMiddle, OptionalMiddleMembers, N1, N2, N3, N4, M1, M2, M3, M4

OptionalEndMembers ==
         Sized({"LoaderFlags", "NumberOfRvaAndSizes"}, 4)
    \cup Sized({"DataDirectory"}, 128)

LEMMA OptionalEndStruct == Struct(OptionalEnd, 3, OptionalEndMembers)
<1> DEFINE N1 == <<"LoaderFlags", "NumberOfRvaAndSizes">>
           M1 == Sized({"LoaderFlags", "NumberOfRvaAndSizes"}, 4)
           N2 == <<"DataDirectory">>
           M2 == Sized({"DataDirectory"}, 128)
<1>1. Named(N1, 2, {"LoaderFlags", "NumberOfRvaAndSizes"})
  BY DEF Named
<1>2. Named(N2, 1, {"DataDirectory"})
  BY DEF Named
<1> HIDE DEF N1, N2
<1>3. Struct(Of(4, N1), 2, M1)
  BY <1>1, StructOf
<1>4. Struct(Of(128, N2), 1, M2)
  BY <1>2, StructOf
<1> HIDE DEF M1, M2
<1>5. Apart(M1, M2)
  BY DEF Apart, Sized, M1, M2
<1>6. Struct(Of(4, N1) \o Of(128, N2), 3, M1 \cup M2)
  BY <1>3, <1>4, <1>5, StructJoined
<1> QED
  BY <1>6 DEF OptionalEnd, OptionalEndMembers, N1, N2, M1, M2

IMAGE_OPTIONAL_HEADER32Members ==
         OptionalBeginMembers
    \cup Sized({"BaseOfData", "ImageBase"}, 4)
    \cup OptionalMiddleMembers
    \cup Sized({"SizeOfStackReserve", "SizeOfStackCommit", "SizeOfHeapReserve", "SizeOfHeapCommit"}, 4)
    \cup OptionalEndMembers

LEMMA IMAGE_OPTIONAL_HEADER32Struct == Struct(IMAGE_OPTIONAL_HEADER32, 31, IMAGE_OPTIONAL_HEADER32Members)
<1> DEFINE M1 == OptionalBeginMembers
           N2 == <<"BaseOfData", "ImageBase">>
           M2 == Sized({"BaseOfData", "ImageBase"}, 4)
           M3 == OptionalMiddleMembers
           N4 == <<"SizeOfStackReserve", "SizeOfStackCommit", "SizeOfHeapReserve", "SizeOfHeapCommit">>
           M4 == Sized({"SizeOfStackReserve", "SizeOfStackCommit", "SizeOfHeapReserve", "SizeOfHeapCommit"}, 4)
           M5 == OptionalEndMembers
<1>1. Named(N2, 2, {"BaseOfData", "ImageBase"})
  BY DEF Named
<1>2. Named(N4, 4, {"SizeOfStackReserve", "SizeOfStackCommit", "SizeOfHeapReserve", "SizeOfHeapCommit"})
  BY DEF Named
<1> HIDE DEF N2, N4
<1>3. Struct(OptionalBegin, 8, M1)
  BY OptionalBeginStruct
<1>4. Struct(Of(4, N2), 2, M2)
  BY <1>1, StructOf
<1>5. Struct(OptionalMiddle, 14, M3)
  BY OptionalMiddleStruct
<1>6. Struct(Of(4, N4), 4, M4)
  BY <1>2, StructOf
<1>7. Struct(OptionalEnd, 3, M5)
  BY OptionalEndStruct
<1> HIDE DEF M1, M2, M3, M4, M5
<1>8. Apart(M1, M2)
  BY DEF Apart, Sized, M1, OptionalBeginMembers, M2
<1>9. Struct(OptionalBegin \o Of(4, N2), 10, M1 \cup M2)
  BY <1>3, <1>4, <1>8, StructJoined
<1>10. Apart(M1 \cup M2, M3)
  BY DEF Apart, Sized, M1, OptionalBeginMembers, M2, M3, OptionalMiddleMembers
<1>11. Struct(OptionalBegin \o Of(4, N2) \o OptionalMiddle, 24, M1 \cup M2 \cup M3)
  BY <1>9, <1>5, <1>10, StructJoined
<1>12. Apart(M1 \cup M2 \cup M3, M4)
  BY DEF Apart, Sized, M1, OptionalBeginMembers, M2, M3, OptionalMiddleMembers, M4
<1>13. Struct(OptionalBegin \o Of(4, N2) \o OptionalMiddle \o Of(4, N4), 28, M1 \cup M2 \cup M3 \cup M4)
  BY <1>11, <1>6, <1>12, StructJoined
<1>14. Apart(M1 \cup M2 \cup M3 \cup M4, M5)
  BY DEF Apart, Sized, M1, OptionalBeginMembers, M2, M3, OptionalMiddleMembers, M4, M5, OptionalEndMembers
<1>15. Struct(OptionalBegin \o Of(4, N2) \o OptionalMiddle \o Of(4, N4) \o OptionalEnd, 31, M1 \cup M2 \cup M3 \cup M4 \cup M5)
  BY <1>13, <1>7, <1>14, StructJoined
<1> QED
  BY <1>15 DEF IMAGE_OPTIONAL_HEADER32, IMAGE_OPTIONAL_HEADER32Members, N2, N4, M1, M2, M3, M4, M5, StackAndHeap

IMAGE_OPTIONAL_HEADER64Members ==
         OptionalBeginMembers
    \cup Sized({"ImageBase"}, 8)
    \cup OptionalMiddleMembers
    \cup Sized({"SizeOfStackReserve", "SizeOfStackCommit", "SizeOfHeapReserve", "SizeOfHeapCommit"}, 8)
    \cup OptionalEndMembers

LEMMA IMAGE_OPTIONAL_HEADER64Struct == Struct(IMAGE_OPTIONAL_HEADER64, 30, IMAGE_OPTIONAL_HEADER64Members)
<1> DEFINE M1 == OptionalBeginMembers
           N2 == <<"ImageBase">>
           M2 == Sized({"ImageBase"}, 8)
           M3 == OptionalMiddleMembers
           N4 == <<"SizeOfStackReserve", "SizeOfStackCommit", "SizeOfHeapReserve", "SizeOfHeapCommit">>
           M4 == Sized({"SizeOfStackReserve", "SizeOfStackCommit", "SizeOfHeapReserve", "SizeOfHeapCommit"}, 8)
           M5 == OptionalEndMembers
<1>1. Named(N2, 1, {"ImageBase"})
  BY DEF Named
<1>2. Named(N4, 4, {"SizeOfStackReserve", "SizeOfStackCommit", "SizeOfHeapReserve", "SizeOfHeapCommit"})
  BY DEF Named
<1> HIDE DEF N2, N4
<1>3. Struct(OptionalBegin, 8, M1)
  BY OptionalBeginStruct
<1>4. Struct(Of(8, N2), 1, M2)
  BY <1>1, StructOf
<1>5. Struct(OptionalMiddle, 14, M3)
  BY OptionalMiddleStruct
<1>6. Struct(Of(8, N4), 4, M4)
  BY <1>2, StructOf
<1>7. Struct(OptionalEnd, 3, M5)
  BY OptionalEndStruct
<1> HIDE DEF M1, M2, M3, M4, M5
<1>8. Apart(M1, M2)
  BY DEF Apart, Sized, M1, OptionalBeginMembers, M2
<1>9. Struct(OptionalBegin \o Of(8, N2), 9, M1 \cup M2)
  BY <1>3, <1>4, <1>8, StructJoined
<1>10. Apart(M1 \cup M2, M3)
  BY DEF Apart, Sized, M1, OptionalBeginMembers, M2, M3, OptionalMiddleMembers
<1>11. Struct(OptionalBegin \o Of(8, N2) \o OptionalMiddle, 23, M1 \cup M2 \cup M3)
  BY <1>9, <1>5, <1>10, StructJoined
<1>12. Apart(M1 \cup M2 \cup M3, M4)
  BY DEF Apart, Sized, M1, OptionalBeginMembers, M2, M3, OptionalMiddleMembers, M4
<1>13. Struct(OptionalBegin \o Of(8, N2) \o OptionalMiddle \o Of(8, N4), 27, M1 \cup M2 \cup M3 \cup M4)
  BY <1>11, <1>6, <1>12, StructJoined
<1>14. Apart(M1 \cup M2 \cup M3 \cup M4, M5)
  BY DEF Apart, Sized, M1, OptionalBeginMembers, M2, M3, OptionalMiddleMembers, M4, M5, OptionalEndMembers
<1>15. Struct(OptionalBegin \o Of(8, N2) \o OptionalMiddle \o Of(8, N4) \o OptionalEnd, 30, M1 \cup M2 \cup M3 \cup M4 \cup M5)
  BY <1>13, <1>7, <1>14, StructJoined
<1> QED
  BY <1>15 DEF IMAGE_OPTIONAL_HEADER64, IMAGE_OPTIONAL_HEADER64Members, N2, N4, M1, M2, M3, M4, M5, StackAndHeap

IMAGE_EXPORT_DIRECTORYMembers ==
         Sized({"Characteristics", "TimeDateStamp"}, 4)
    \cup Sized({"MajorVersion", "MinorVersion"}, 2)
    \cup Sized({"Name", "Base", "NumberOfFunctions", "NumberOfNames", "AddressOfFunctions", "AddressOfNames",
                   "AddressOfNameOrdinals"}, 4)

LEMMA IMAGE_EXPORT_DIRECTORYStruct == Struct(IMAGE_EXPORT_DIRECTORY, 11, IMAGE_EXPORT_DIRECTORYMembers)
<1> DEFINE N1 == <<"Characteristics", "TimeDateStamp">>
           M1 == Sized({"Characteristics", "TimeDateStamp"}, 4)
           N2 == <<"MajorVersion", "MinorVersion">>
           M2 == Sized({"MajorVersion", "MinorVersion"}, 2)
           N3 == <<"Name", "Base", "NumberOfFunctions", "NumberOfNames", "AddressOfFunctions", "AddressOfNames",
                    "AddressOfNameOrdinals">>
           M3 == Sized({"Name", "Base", "NumberOfFunctions", "NumberOfNames", "AddressOfFunctions", "AddressOfNames",
                         "AddressOfNameOrdinals"}, 4)
<1>1. Named(N1, 2, {"Characteristics", "TimeDateStamp"})
  BY DEF Named
<1>2. Named(N2, 2, {"MajorVersion", "MinorVersion"})
  BY DEF Named
<1>3. Named(N3, 7, {"Name", "Base", "NumberOfFunctions", "NumberOfNames", "AddressOfFunctions",
            "AddressOfNames", "AddressOfNameOrdinals"})
  BY DEF Named
<1> HIDE DEF N1, N2, N3
<1>4. Struct(Of(4, N1), 2, M1)
  BY <1>1, StructOf
<1>5. Struct(Of(2, N2), 2, M2)
  BY <1>2, StructOf
<1>6. Struct(Of(4, N3), 7, M3)
  BY <1>3, StructOf
<1> HIDE DEF M1, M2, M3
<1>7. Apart(M1, M2)
  BY DEF Apart, Sized, M1, M2
<1>8. Struct(Of(4, N1) \o Of(2, N2), 4, M1 \cup M2)
  BY <1>4, <1>5, <1>7, StructJoined
<1>9. Apart(M1 \cup M2, M3)
  BY DEF Apart, Sized, M1, M2, M3
<1>10. Struct(Of(4, N1) \o Of(2, N2) \o Of(4, N3), 11, M1 \cup M2 \cup M3)
  BY <1>8, <1>6, <1>9, StructJoined
<1> QED
  BY <1>10 DEF IMAGE_EXPORT_DIRECTORY, IMAGE_EXPORT_DIRECTORYMembers, N1, N2, N3, M1, M2, M3

IMAGE_IMPORT_DESCRIPTORMembers ==
    Sized({"OriginalFirstThunk", "TimeDateStamp", "ForwarderChain", "Name", "FirstThunk"}, 4)

LEMMA IMAGE_IMPORT_DESCRIPTORStruct == Struct(IMAGE_IMPORT_DESCRIPTOR, 5, IMAGE_IMPORT_DESCRIPTORMembers)
<1> DEFINE N1 == <<"OriginalFirstThunk", "TimeDateStamp", "ForwarderChain", "Name", "FirstThunk">>
           M1 == Sized({"OriginalFirstThunk", "TimeDateStamp", "ForwarderChain", "Name", "FirstThunk"}, 4)
<1>1. Named(N1, 5, {"OriginalFirstThunk", "TimeDateStamp", "ForwarderChain", "Name", "FirstThunk"})
  BY DEF Named
<1> HIDE DEF N1
<1>2. Struct(Of(4, N1), 5, M1)
  BY <1>1, StructOf
<1> QED
  BY <1>2 DEF IMAGE_IMPORT_DESCRIPTOR, IMAGE_IMPORT_DESCRIPTORMembers, N1

IMAGE_BOUND_IMPORT_DESCRIPTORMembers ==
         Sized({"TimeDateStamp"}, 4)
    \cup Sized({"OffsetModuleName", "NumberOfModuleForwarderRefs"}, 2)

LEMMA IMAGE_BOUND_IMPORT_DESCRIPTORStruct == Struct(IMAGE_BOUND_IMPORT_DESCRIPTOR, 3, IMAGE_BOUND_IMPORT_DESCRIPTORMembers)
<1> DEFINE N1 == <<"TimeDateStamp">>
           M1 == Sized({"TimeDateStamp"}, 4)
           N2 == <<"OffsetModuleName", "NumberOfModuleForwarderRefs">>
           M2 == Sized({"OffsetModuleName", "NumberOfModuleForwarderRefs"}, 2)
<1>1. Named(N1, 1, {"TimeDateStamp"})
  BY DEF Named
<1>2. Named(N2, 2, {"OffsetModuleName", "NumberOfModuleForwarderRefs"})
  BY DEF Named
<1> HIDE DEF N1, N2
<1>3. Struct(Of(4, N1), 1, M1)
  BY <1>1, StructOf
<1>4. Struct(Of(2, N2), 2, M2)
  BY <1>2, StructOf
<1> HIDE DEF M1, M2
<1>5. Apart(M1, M2)
  BY DEF Apart, Sized, M1, M2
<1>6. Struct(Of(4, N1) \o Of(2, N2), 3, M1 \cup M2)
  BY <1>3, <1>4, <1>5, StructJoined
<1> QED
  BY <1>6 DEF IMAGE_BOUND_IMPORT_DESCRIPTOR, IMAGE_BOUND_IMPORT_DESCRIPTORMembers, N1, N2, M1, M2

IMAGE_DELAY_LOADMembers ==
    Sized({"grAttrs", "szName", "phmod", "pIAT", "pINT", "pBoundIAT", "pUnloadIAT", "dwTimestamp"}, 4)

LEMMA IMAGE_DELAY_LOADStruct == Struct(IMAGE_DELAY_LOAD, 8, IMAGE_DELAY_LOADMembers)
<1> DEFINE N1 == <<"grAttrs", "szName", "phmod", "pIAT", "pINT", "pBoundIAT", "pUnloadIAT", "dwTimestamp">>
           M1 == Sized({"grAttrs", "szName", "phmod", "pIAT", "pINT", "pBoundIAT", "pUnloadIAT", "dwTimestamp"}, 4)
<1>1. Named(N1, 8, {"grAttrs", "szName", "phmod", "pIAT", "pINT", "pBoundIAT", "pUnloadIAT", "dwTimestamp"})
  BY DEF Named
<1> HIDE DEF N1
<1>2. Struct(Of(4, N1), 8, M1)
  BY <1>1, StructOf
<1> QED
  BY <1>2 DEF IMAGE_DELAY_LOAD, IMAGE_DELAY_LOADMembers, N1

IMAGE_IA64_RUNTIME_FUNCTION_ENTRYMembers ==
    Sized({"BeginAddress", "EndAddress", "UnwindInfoAddress"}, 4)

LEMMA IMAGE_IA64_RUNTIME_FUNCTION_ENTRYStruct == Struct(IMAGE_IA64_RUNTIME_FUNCTION_ENTRY, 3, IMAGE_IA64_RUNTIME_FUNCTION_ENTRYMembers)
<1> DEFINE N1 == <<"BeginAddress", "EndAddress", "UnwindInfoAddress">>
           M1 == Sized({"BeginAddress", "EndAddress", "UnwindInfoAddress"}, 4)
<1>1. Named(N1, 3, {"BeginAddress", "EndAddress", "UnwindInfoAddress"})
  BY DEF Named
<1> HIDE DEF N1
<1>2. Struct(Of(4, N1), 3, M1)
  BY <1>1, StructOf
<1> QED
  BY <1>2 DEF IMAGE_IA64_RUNTIME_FUNCTION_ENTRY, IMAGE_IA64_RUNTIME_FUNCTION_ENTRYMembers, N1

ARM_EXCEPT_RECORDMembers ==
    Sized({"Start", "Xdata"}, 4)

LEMMA ARM_EXCEPT_RECORDStruct == Struct(ARM_EXCEPT_RECORD, 2, ARM_EXCEPT_RECORDMembers)
<1> DEFINE N1 == <<"Start", "Xdata">>
           M1 == Sized({"Start", "Xdata"}, 4)
<1>1. Named(N1, 2, {"Start", "Xdata"})
  BY DEF Named
<1> HIDE DEF N1
<1>2. Struct(Of(4, N1), 2, M1)
  BY <1>1, StructOf
<1> QED
  BY <1>2 DEF ARM_EXCEPT_RECORD, ARM_EXCEPT_RECORDMembers, N1

IMAGE_DEBUG_DIRECTORYMembers ==
         Sized({"Characteristics", "TimeDateStamp"}, 4)
    \cup Sized({"MajorVersion", "MinorVersion"}, 2)
    \cup Sized({"Type", "SizeOfData", "AddressOfRawData", "PointerToRawData"}, 4)

LEMMA IMAGE_DEBUG_DIRECTORYStruct == Struct(IMAGE_DEBUG_DIRECTORY, 8, IMAGE_DEBUG_DIRECTORYMembers)
<1> DEFINE N1 == <<"Characteristics", "TimeDateStamp">>
           M1 == Sized({"Characteristics", "TimeDateStamp"}, 4)
           N2 == <<"MajorVersion", "MinorVersion">>
           M2 == Sized({"MajorVersion", "MinorVersion"}, 2)
           N3 == <<"Type", "SizeOfData", "AddressOfRawData", "PointerToRawData">>
           M3 == Sized({"Type", "SizeOfData", "AddressOfRawData", "PointerToRawData"}, 4)
<1>1. Named(N1, 2, {"Characteristics", "TimeDateStamp"})
  BY DEF Named
<1>2. Named(N2, 2, {"MajorVersion", "MinorVersion"})
  BY DEF Named
<1>3. Named(N3, 4, {"Type", "SizeOfData", "AddressOfRawData", "PointerToRawData"})
  BY DEF Named
<1> HIDE DEF N1, N2, N3
<1>4. Struct(Of(4, N1), 2, M1)
  BY <1>1, StructOf
<1>5. Struct(Of(2, N2), 2, M2)
  BY <1>2, StructOf
<1>6. Struct(Of(4, N3), 4, M3)
  BY <1>3, StructOf
<1> HIDE DEF M1, M2, M3
<1>7. Apart(M1, M2)
  BY DEF Apart, Sized, M1, M2
<1>8. Struct(Of(4, N1) \o Of(2, N2), 4, M1 \cup M2)
  BY <1>4, <1>5, <1>7, StructJoined
<1>9. Apart(M1 \cup M2, M3)
  BY DEF Apart, Sized, M1, M2, M3
<1>10. Struct(Of(4, N1) \o Of(2, N2) \o Of(4, N3), 8, M1 \cup M2 \cup M3)
  BY <1>8, <1>6, <1>9, StructJoined
<1> QED
  BY <1>10 DEF IMAGE_DEBUG_DIRECTORY, IMAGE_DEBUG_DIRECTORYMembers, N1, N2, N3, M1, M2, M3

DEBUG_RSDSIMembers ==
         Sized({"dwSig"}, 4)
    \cup Sized({"guidSig"}, 16)
    \cup Sized({"age"}, 4)
    \cup Sized({"szPdb"}, 1)

LEMMA DEBUG_RSDSIStruct == Struct(DEBUG_RSDSI, 4, DEBUG_RSDSIMembers)
<1> DEFINE N1 == <<"dwSig">>
           M1 == Sized({"dwSig"}, 4)
           N2 == <<"guidSig">>
           M2 == Sized({"guidSig"}, 16)
           N3 == <<"age">>
           M3 == Sized({"age"}, 4)
           N4 == <<"szPdb">>
           M4 == Sized({"szPdb"}, 1)
<1>1. Named(N1, 1, {"dwSig"})
  BY DEF Named
<1>2. Named(N2, 1, {"guidSig"})
  BY DEF Named
<1>3. Named(N3, 1, {"age"})
  BY DEF Named
<1>4. Named(N4, 1, {"szPdb"})
  BY DEF Named
<1> HIDE DEF N1, N2, N3, N4
<1>5. Struct(Of(4, N1), 1, M1)
  BY <1>1, StructOf
<1>6. Struct(Of(16, N2), 1, M2)
  BY <1>2, StructOf
<1>7. Struct(Of(4, N3), 1, M3)
  BY <1>3, StructOf
<1>8. Struct(Of(1, N4), 1, M4)
  BY <1>4, StructOf
<1> HIDE DEF M1, M2, M3, M4
<1>9. Apart(M1, M2)
  BY DEF Apart, Sized, M1, M2
<1>10. Struct(Of(4, N1) \o Of(16, N2), 2, M1 \cup M2)
  BY <1>5, <1>6, <1>9, StructJoined
<1>11. Apart(M1 \cup M2, M3)
  BY DEF Apart, Sized, M1, M2, M3
<1>12. Struct(Of(4, N1) \o Of(16, N2) \o Of(4, N3), 3, M1 \cup M2 \cup M3)
  BY <1>10, <1>7, <1>11, StructJoined
<1>13. Apart(M1 \cup M2 \cup M3, M4)
  BY DEF Apart, Sized, M1, M2, M3, M4
<1>14. Struct(Of(4, N1) \o Of(16, N2) \o Of(4, N3) \o Of(1, N4), 4, M1 \cup M2 \cup M3 \cup M4)
  BY <1>12, <1>8, <1>13, StructJoined
<1> QED
  BY <1>14 DEF DEBUG_RSDSI, DEBUG_RSDSIMembers, N1, N2, N3, N4, M1, M2, M3, M4

DEBUG_NB10Members ==
         Sized({"CvSignature", "Offset", "Signature", "Age"}, 4)
    \cup Sized({"PdbFileName"}, 1)

LEMMA DEBUG_NB10Struct == Struct(DEBUG_NB10, 5, DEBUG_NB10Members)
<1> DEFINE N1 == <<"CvSignature", "Offset", "Signature", "Age">>
           M1 == Sized({"CvSignature", "Offset", "Signature", "Age"}, 4)
           N2 == <<"PdbFileName">>
           M2 == Sized({"PdbFileName"}, 1)
<1>1. Named(N1, 4, {"CvSignature", "Offset", "Signature", "Age"})
  BY DEF Named
<1>2. Named(N2, 1, {"PdbFileName"})
  BY DEF Named
<1> HIDE DEF N1, N2
<1>3. Struct(Of(4, N1), 4, M1)
  BY <1>1, StructOf
<1>4. Struct(Of(1, N2), 1, M2)
  BY <1>2, StructOf
<1> HIDE DEF M1, M2
<1>5. Apart(M1, M2)
  BY DEF Apart, Sized, M1, M2
<1>6. Struct(Of(4, N1) \o Of(1, N2), 5, M1 \cup M2)
  BY <1>3, <1>4, <1>5, StructJoined
<1> QED
  BY <1>6 DEF DEBUG_NB10, DEBUG_NB10Members, N1, N2, M1, M2

IMAGE_TLS_DIRECTORYMembers(b) ==
         Sized({"StartAddressOfRawData", "EndAddressOfRawData", "AddressOfIndex", "AddressOfCallBacks"}, Wide(b))
    \cup Sized({"SizeOfZeroFill", "Characteristics"}, 4)

LEMMA IMAGE_TLS_DIRECTORYStruct ==
    ASSUME NEW b \in Modes
    PROVE  Struct(IMAGE_TLS_DIRECTORY(b), 6, IMAGE_TLS_DIRECTORYMembers(b))
<1> DEFINE N1 == <<"StartAddressOfRawData", "EndAddressOfRawData", "AddressOfIndex", "AddressOfCallBacks">>
           M1 == Sized({"StartAddressOfRawData", "EndAddressOfRawData", "AddressOfIndex", "AddressOfCallBacks"}, Wide(b))
           N2 == <<"SizeOfZeroFill", "Characteristics">>
           M2 == Sized({"SizeOfZeroFill", "Characteristics"}, 4)
<1>1. Wide(b) \in Nat \ {0}
  BY DEF Wide
<1>2. Named(N1, 4, {"StartAddressOfRawData", "EndAddressOfRawData", "AddressOfIndex", "AddressOfCallBacks"})
  BY DEF Named
<1>3. Named(N2, 2, {"SizeOfZeroFill", "Characteristics"})
  BY DEF Named
<1> HIDE DEF N1, N2
<1>4. Struct(Of(Wide(b), N1), 4, M1)
  BY <1>2, <1>1, StructOf
<1>5. Struct(Of(4, N2), 2, M2)
  BY <1>3, StructOf
<1> HIDE DEF M1, M2
<1>6. Apart(M1, M2)
  BY DEF Apart, Sized, M1, M2
<1>7. Struct(Of(Wide(b), N1) \o Of(4, N2), 6, M1 \cup M2)
  BY <1>4, <1>5, <1>6, StructJoined
<1> QED
  BY <1>7 DEF IMAGE_TLS_DIRECTORY, IMAGE_TLS_DIRECTORYMembers, N1, N2, M1, M2

IMAGE_COR20_HEADERMembers ==
         Sized({"cb"}, 4)
    \cup Sized({"MajorRuntimeVersion", "MinorRuntimeVersion"}, 2)
    \cup Sized({"MetaData.VirtualAddress", "MetaData.Size", "Flags", "EntryPointRVA", "Resources.VirtualAddress",
                   "Resources.Size", "StrongNameSignature.VirtualAddress", "StrongNameSignature.Size",
                   "CodeManagerTable.VirtualAddress", "CodeManagerTable.Size",
                   "VTableFixups.VirtualAddress", "VTableFixups.Size",
                   "ExportAddressTableJumps.VirtualAddress", "ExportAddressTableJumps.Size",
                   "ManagedNativeHeader.VirtualAddress", "ManagedNativeHeader.Size"}, 4)

LEMMA IMAGE_COR20_HEADERStruct == Struct(IMAGE_COR20_HEADER, 19, IMAGE_COR20_HEADERMembers)
<1> DEFINE N1 == <<"cb">>
           M1 == Sized({"cb"}, 4)
           N2 == <<"MajorRuntimeVersion", "MinorRuntimeVersion">>
           M2 == Sized({"MajorRuntimeVersion", "MinorRuntimeVersion"}, 2)
           N3 == <<"MetaData.VirtualAddress", "MetaData.Size", "Flags", "EntryPointRVA", "Resources.VirtualAddress",
                    "Resources.Size", "StrongNameSignature.VirtualAddress", "StrongNameSignature.Size",
                    "CodeManagerTable.VirtualAddress", "CodeManagerTable.Size",
                    "VTableFixups.VirtualAddress", "VTableFixups.Size",
                    "ExportAddressTableJumps.VirtualAddress", "ExportAddressTableJumps.Size",
                    "ManagedNativeHeader.VirtualAddress", "ManagedNativeHeader.Size">>
           M3 == Sized({"MetaData.VirtualAddress", "MetaData.Size", "Flags", "EntryPointRVA",
                         "Resources.VirtualAddress", "Resources.Size",
                         "StrongNameSignature.VirtualAddress", "StrongNameSignature.Size",
                         "CodeManagerTable.VirtualAddress", "CodeManagerTable.Size",
                         "VTableFixups.VirtualAddress", "VTableFixups.Size",
                         "ExportAddressTableJumps.VirtualAddress", "ExportAddressTableJumps.Size",
                         "ManagedNativeHeader.VirtualAddress", "ManagedNativeHeader.Size"}, 4)
<1>1. Named(N1, 1, {"cb"})
  BY DEF Named
<1>2. Named(N2, 2, {"MajorRuntimeVersion", "MinorRuntimeVersion"})
  BY DEF Named
<1>3. Named(N3, 16, {"MetaData.VirtualAddress", "MetaData.Size", "Flags", "EntryPointRVA",
            "Resources.VirtualAddress", "Resources.Size", "StrongNameSignature.VirtualAddress",
            "StrongNameSignature.Size", "CodeManagerTable.VirtualAddress", "CodeManagerTable.Size",
            "VTableFixups.VirtualAddress", "VTableFixups.Size", "ExportAddressTableJumps.VirtualAddress",
            "ExportAddressTableJumps.Size", "ManagedNativeHeader.VirtualAddress",
            "ManagedNativeHeader.Size"})
  BY DEF Named
<1> HIDE DEF N1, N2, N3
<1>4. Struct(Of(4, N1), 1, M1)
  BY <1>1, StructOf
<1>5. Struct(Of(2, N2), 2, M2)
  BY <1>2, StructOf
<1>6. Struct(Of(4, N3), 16, M3)
  BY <1>3, StructOf
<1> HIDE DEF M1, M2, M3
<1>7. Apart(M1, M2)
  BY DEF Apart, Sized, M1, M2
<1>8. Struct(Of(4, N1) \o Of(2, N2), 3, M1 \cup M2)
  BY <1>4, <1>5, <1>7, StructJoined
<1>9. Apart(M1 \cup M2, M3)
  BY DEF Apart, Sized, M1, M2, M3
<1>10. Struct(Of(4, N1) \o Of(2, N2) \o Of(4, N3), 19, M1 \cup M2 \cup M3)
  BY <1>8, <1>6, <1>9, StructJoined
<1> QED
  BY <1>10 DEF IMAGE_COR20_HEADER, IMAGE_COR20_HEADERMembers, N1, N2, N3, M1, M2, M3

LoadConfigBeginMembers ==
         Sized({"Size", "TimeDateStamp"}, 4)
    \cup Sized({"MajorVersion", "MinorVersion"}, 2)
    \cup Sized({"GlobalFlagsClear", "GlobalFlagsSet", "CriticalSectionDefaultTimeout"}, 4)

LEMMA LoadConfigBeginStruct == Struct(LoadConfigBegin, 7, LoadConfigBeginMembers)
<1> DEFINE N1 == <<"Size", "TimeDateStamp">>
           M1 == Sized({"Size", "TimeDateStamp"}, 4)
           N2 == <<"MajorVersion", "MinorVersion">>
           M2 == Sized({"MajorVersion", "MinorVersion"}, 2)
           N3 == <<"GlobalFlagsClear", "GlobalFlagsSet", "CriticalSectionDefaultTimeout">>
           M3 == Sized({"GlobalFlagsClear", "GlobalFlagsSet", "CriticalSectionDefaultTimeout"}, 4)
<1>1. Named(N1, 2, {"Size", "TimeDateStamp"})
  BY DEF Named
<1>2. Named(N2, 2, {"MajorVersion", "MinorVersion"})
  BY DEF Named
<1>3. Named(N3, 3, {"GlobalFlagsClear", "GlobalFlagsSet", "CriticalSectionDefaultTimeout"})
  BY DEF Named
<1> HIDE DEF N1, N2, N3
<1>4. Struct(Of(4, N1), 2, M1)
  BY <1>1, StructOf
<1>5. Struct(Of(2, N2), 2, M2)
  BY <1>2, StructOf
<1>6. Struct(Of(4, N3), 3, M3)
  BY <1>3, StructOf
<1> HIDE DEF M1, M2, M3
<1>7. Apart(M1, M2)
  BY DEF Apart, Sized, M1, M2
<1>8. Struct(Of(4, N1) \o Of(2, N2), 4, M1 \cup M2)
  BY <1>4, <1>5, <1>7, StructJoined
<1>9. Apart(M1 \cup M2, M3)
  BY DEF Apart, Sized, M1, M2, M3
<1>10. Struct(Of(4, N1) \o Of(2, N2) \o Of(4, N3), 7, M1 \cup M2 \cup M3)
  BY <1>8, <1>6, <1>9, StructJoined
<1> QED
  BY <1>10 DEF LoadConfigBegin, LoadConfigBeginMembers, N1, N2, N3, M1, M2, M3

LoadConfigEndMembers(b) ==
         Sized({"CSDVersion", "DependentLoadFlags"}, 2)
    \cup Sized({"EditList", "SecurityCookie", "SEHandlerTable", "SEHandlerCount", "GuardCFCheckFunctionPointer",
                   "GuardCFDispatchFunctionPointer", "GuardCFFunctionTable", "GuardCFFunctionCount"}, Wide(b))
    \cup Sized({"GuardFlags"}, 4)
    \cup Sized({"CodeIntegrity.Flags", "CodeIntegrity.Catalog"}, 2)
    \cup Sized({"CodeIntegrity.CatalogOffset", "CodeIntegrity.Reserved"}, 4)
    \cup Sized({"GuardAddressTakenIatEntryTable", "GuardAddressTakenIatEntryCount", "GuardLongJumpTargetTable",
                   "GuardLongJumpTargetCount", "DynamicValueRelocTable", "CHPEMetadataPointer",
                   "GuardRFFailureRoutine", "GuardRFFailureRoutineFunctionPointer"}, Wide(b))
    \cup Sized({"DynamicValueRelocTableOffset"}, 4)
    \cup Sized({"DynamicValueRelocTableSection", "Reserved2"}, 2)
    \cup Sized({"GuardRFVerifyStackPointerFunctionPointer"}, Wide(b))
    \cup Sized({"HotPatchTableOffset", "Reserved3"}, 4)
    \cup Sized({"EnclaveConfigurationPointer", "VolatileMetadataPointer", "GuardEHContinuationTable",
                   "GuardEHContinuationCount"}, Wide(b))

LEMMA LoadConfigEndStruct ==
    ASSUME NEW b \in Modes
    PROVE  Struct(LoadConfigEnd(b), 33, LoadConfigEndMembers(b))
<1> DEFINE N1 == <<"CSDVersion", "DependentLoadFlags">>
           M1 == Sized({"CSDVersion", "DependentLoadFlags"}, 2)
           N2 == <<"EditList", "SecurityCookie", "SEHandlerTable", "SEHandlerCount", "GuardCFCheckFunctionPointer",
                    "GuardCFDispatchFunctionPointer", "GuardCFFunctionTable", "GuardCFFunctionCount">>
           M2 == Sized({"EditList", "SecurityCookie", "SEHandlerTable", "SEHandlerCount",
                         "GuardCFCheckFunctionPointer", "GuardCFDispatchFunctionPointer",
                         "GuardCFFunctionTable", "GuardCFFunctionCount"}, Wide(b))
           N3 == <<"GuardFlags">>
           M3 == Sized({"GuardFlags"}, 4)
           N4 == <<"CodeIntegrity.Flags", "CodeIntegrity.Catalog">>
           M4 == Sized({"CodeIntegrity.Flags", "CodeIntegrity.Catalog"}, 2)
           N5 == <<"CodeIntegrity.CatalogOffset", "CodeIntegrity.Reserved">>
           M5 == Sized({"CodeIntegrity.CatalogOffset", "CodeIntegrity.Reserved"}, 4)
           N6 == <<"GuardAddressTakenIatEntryTable", "GuardAddressTakenIatEntryCount", "GuardLongJumpTargetTable",
                    "GuardLongJumpTargetCount", "DynamicValueRelocTable", "CHPEMetadataPointer",
                    "GuardRFFailureRoutine", "GuardRFFailureRoutineFunctionPointer">>
           M6 == Sized({"GuardAddressTakenIatEntryTable", "GuardAddressTakenIatEntryCount",
                         "GuardLongJumpTargetTable", "GuardLongJumpTargetCount", "DynamicValueRelocTable",
                         "CHPEMetadataPointer", "GuardRFFailureRoutine",
                         "GuardRFFailureRoutineFunctionPointer"}, Wide(b))
           N7 == <<"DynamicValueRelocTableOffset">>
           M7 == Sized({"DynamicValueRelocTableOffset"}, 4)
           N8 == <<"DynamicValueRelocTableSection", "Reserved2">>
           M8 == Sized({"DynamicValueRelocTableSection", "Reserved2"}, 2)
           N9 == <<"GuardRFVerifyStackPointerFunctionPointer">>
           M9 == Sized({"GuardRFVerifyStackPointerFunctionPointer"}, Wide(b))
           N10 == <<"HotPatchTableOffset", "Reserved3">>
           M10 == Sized({"HotPatchTableOffset", "Reserved3"}, 4)
           N11 == <<"EnclaveConfigurationPointer", "VolatileMetadataPointer", "GuardEHContinuationTable",
                    "GuardEHContinuationCount">>
           M11 == Sized({"EnclaveConfigurationPointer", "VolatileMetadataPointer", "GuardEHContinuationTable",
                         "GuardEHContinuationCount"}, Wide(b))
<1>1. Wide(b) \in Nat \ {0}
  BY DEF Wide
<1>2. Named(N1, 2, {"CSDVersion", "DependentLoadFlags"})
  BY DEF Named
<1>3. Named(N2, 8, {"EditList", "SecurityCookie", "SEHandlerTable", "SEHandlerCount",
            "GuardCFCheckFunctionPointer", "GuardCFDispatchFunctionPointer", "GuardCFFunctionTable",
            "GuardCFFunctionCount"})
  BY DEF Named
<1>4. Named(N3, 1, {"GuardFlags"})
  BY DEF Named
<1>5. Named(N4, 2, {"CodeIntegrity.Flags", "CodeIntegrity.Catalog"})
  BY DEF Named
<1>6. Named(N5, 2, {"CodeIntegrity.CatalogOffset", "CodeIntegrity.Reserved"})
  BY DEF Named
<1>7. Named(N6, 8, {"GuardAddressTakenIatEntryTable", "GuardAddressTakenIatEntryCount",
            "GuardLongJumpTargetTable", "GuardLongJumpTargetCount", "DynamicValueRelocTable",
            "CHPEMetadataPointer", "GuardRFFailureRoutine", "GuardRFFailureRoutineFunctionPointer"})
  BY DEF Named
<1>8. Named(N7, 1, {"DynamicValueRelocTableOffset"})
  BY DEF Named
<1>9. Named(N8, 2, {"DynamicValueRelocTableSection", "Reserved2"})
  BY DEF Named
<1>10. Named(N9, 1, {"GuardRFVerifyStackPointerFunctionPointer"})
  BY DEF Named
<1>11. Named(N10, 2, {"HotPatchTableOffset", "Reserved3"})
  BY DEF Named
<1>12. Named(N11, 4, {"EnclaveConfigurationPointer", "VolatileMetadataPointer", "GuardEHContinuationTable",
            "GuardEHContinuationCount"})
  BY DEF Named
<1> HIDE DEF N1, N2, N3, N4, N5, N6, N7, N8, N9, N10, N11
<1>13. Struct(Of(2, N1), 2, M1)
  BY <1>2, StructOf
<1>14. Struct(Of(Wide(b), N2), 8, M2)
  BY <1>3, <1>1, StructOf
<1>15. Struct(Of(4, N3), 1, M3)
  BY <1>4, StructOf
<1>16. Struct(Of(2, N4), 2, M4)
  BY <1>5, StructOf
<1>17. Struct(Of(4, N5), 2, M5)
  BY <1>6, StructOf
<1>18. Struct(Of(Wide(b), N6), 8, M6)
  BY <1>7, <1>1, StructOf
<1>19. Struct(Of(4, N7), 1, M7)
  BY <1>8, StructOf
<1>20. Struct(Of(2, N8), 2, M8)
  BY <1>9, StructOf
<1>21. Struct(Of(Wide(b), N9), 1, M9)
  BY <1>10, <1>1, StructOf
<1>22. Struct(Of(4, N10), 2, M10)
  BY <1>11, StructOf
<1>23. Struct(Of(Wide(b), N11), 4, M11)
  BY <1>12, <1>1, StructOf
<1> HIDE DEF M1, M2, M3, M4, M5, M6, M7, M8, M9, M10, M11
<1>24. Apart(M1, M2)
  BY DEF Apart, Sized, M1, M2
<1>25. Struct(Of(2, N1) \o Of(Wide(b), N2), 10, M1 \cup M2)
  BY <1>13, <1>14, <1>24, StructJoined
<1>26. Apart(M1 \cup M2, M3)
  BY DEF Apart, Sized, M1, M2, M3
<1>27. Struct(Of(2, N1) \o Of(Wide(b), N2) \o Of(4, N3), 11, M1 \cup M2 \cup M3)
  BY <1>25, <1>15, <1>26, StructJoined
<1>28. Apart(M1 \cup M2 \cup M3, M4)
  BY DEF Apart, Sized, M1, M2, M3, M4
<1>29. Struct(Of(2, N1) \o Of(Wide(b), N2) \o Of(4, N3) \o Of(2, N4), 13, M1 \cup M2 \cup M3 \cup M4)
  BY <1>27, <1>16, <1>28, StructJoined
<1>30. Apart(M1 \cup M2 \cup M3 \cup M4, M5)
  BY DEF Apart, Sized, M1, M2, M3, M4, M5
<1>31. Struct(Of(2, N1) \o Of(Wide(b), N2) \o Of(4, N3) \o Of(2, N4) \o Of(4, N5), 15, M1 \cup M2 \cup M3 \cup M4 \cup M5)
  BY <1>29, <1>17, <1>30, StructJoined
<1>32. Apart(M1 \cup M2 \cup M3 \cup M4 \cup M5, M6)
  BY DEF Apart, Sized, M1, M2, M3, M4, M5, M6
<1>33. Struct(Of(2, N1) \o Of(Wide(b), N2) \o Of(4, N3) \o Of(2, N4) \o Of(4, N5) \o Of(Wide(b), N6), 23, M1 \cup M2 \cup M3 \cup M4 \cup M5 \cup M6)
  BY <1>31, <1>18, <1>32, StructJoined
<1>34. Apart(M1 \cup M2 \cup M3 \cup M4 \cup M5 \cup M6, M7)
  BY DEF Apart, Sized, M1, M2, M3, M4, M5, M6, M7
<1>35. Struct(Of(2, N1) \o Of(Wide(b), N2) \o Of(4, N3) \o Of(2, N4) \o Of(4, N5) \o Of(Wide(b), N6) \o Of(4, N7), 24, M1 \cup M2 \cup M3 \cup M4 \cup M5 \cup M6 \cup M7)
  BY <1>33, <1>19, <1>34, StructJoined
<1>36. Apart(M1 \cup M2 \cup M3 \cup M4 \cup M5 \cup M6 \cup M7, M8)
  BY DEF Apart, Sized, M1, M2, M3, M4, M5, M6, M7, M8
<1>37. Struct(Of(2, N1) \o Of(Wide(b), N2) \o Of(4, N3) \o Of(2, N4) \o Of(4, N5) \o Of(Wide(b), N6) \o Of(4, N7) \o Of(2, N8), 26, M1 \cup M2 \cup M3 \cup M4 \cup M5 \cup M6 \cup M7 \cup M8)
  BY <1>35, <1>20, <1>36, StructJoined
<1>38. Apart(M1 \cup M2 \cup M3 \cup M4 \cup M5 \cup M6 \cup M7 \cup M8, M9)
  BY DEF Apart, Sized, M1, M2, M3, M4, M5, M6, M7, M8, M9
<1>39. Struct(Of(2, N1) \o Of(Wide(b), N2) \o Of(4, N3) \o Of(2, N4) \o Of(4, N5) \o Of(Wide(b), N6) \o Of(4, N7) \o Of(2, N8) \o Of(Wide(b), N9), 27, M1 \cup M2 \cup M3 \cup M4 \cup M5 \cup M6 \cup M7 \cup M8 \cup M9)
  BY <1>37, <1>21, <1>38, StructJoined
<1>40. Apart(M1 \cup M2 \cup M3 \cup M4 \cup M5 \cup M6 \cup M7 \cup M8 \cup M9, M10)
  BY DEF Apart, Sized, M1, M2, M3, M4, M5, M6, M7, M8, M9, M10
<1>41. Struct(Of(2, N1) \o Of(Wide(b), N2) \o Of(4, N3) \o Of(2, N4) \o Of(4, N5) \o Of(Wide(b), N6) \o Of(4, N7) \o Of(2, N8) \o Of(Wide(b), N9) \o Of(4, N10), 29, M1 \cup M2 \cup M3 \cup M4 \cup M5 \cup M6 \cup M7 \cup M8 \cup M9 \cup M10)
  BY <1>39, <1>22, <1>40, StructJoined
<1>42. Apart(M1 \cup M2 \cup M3 \cup M4 \cup M5 \cup M6 \cup M7 \cup M8 \cup M9 \cup M10, M11)
  BY DEF Apart, Sized, M1, M2, M3, M4, M5, M6, M7, M8, M9, M10, M11
<1>43. Struct(Of(2, N1) \o Of(Wide(b), N2) \o Of(4, N3) \o Of(2, N4) \o Of(4, N5) \o Of(Wide(b), N6) \o Of(4, N7) \o Of(2, N8) \o Of(Wide(b), N9) \o Of(4, N10) \o Of(Wide(b), N11), 33, M1 \cup M2 \cup M3 \cup M4 \cup M5 \cup M6 \cup M7 \cup M8 \cup M9 \cup M10 \cup M11)
  BY <1>41, <1>23, <1>42, StructJoined
<1> QED
  BY <1>43 DEF LoadConfigEnd, LoadConfigEndMembers, N1, N2, N3, N4, N5, N6, N7, N8, N9, N10, N11, M1, M2, M3, M4, M5, M6, M7, M8, M9, M10, M11

IMAGE_LOAD_CONFIG_DIRECTORY32Members ==
         LoadConfigBeginMembers
    \cup Sized({"DeCommitFreeBlockThreshold", "DeCommitTotalFreeThreshold", "LockPrefixTable",
                   "MaximumAllocationSize", "VirtualMemoryThreshold"}, 4)
    \cup Sized({"ProcessHeapFlags", "ProcessAffinityMask"}, 4)
    \cup LoadConfigEndMembers(32)

LEMMA IMAGE_LOAD_CONFIG_DIRECTORY32Struct == Struct(IMAGE_LOAD_CONFIG_DIRECTORY32, 47, IMAGE_LOAD_CONFIG_DIRECTORY32Members)
<1> DEFINE M1 == LoadConfigBeginMembers
           N2 == <<"DeCommitFreeBlockThreshold", "DeCommitTotalFreeThreshold", "LockPrefixTable",
                    "MaximumAllocationSize", "VirtualMemoryThreshold">>
           M2 == Sized({"DeCommitFreeBlockThreshold", "DeCommitTotalFreeThreshold", "LockPrefixTable",
                         "MaximumAllocationSize", "VirtualMemoryThreshold"}, 4)
           N3 == <<"ProcessHeapFlags", "ProcessAffinityMask">>
           M3 == Sized({"ProcessHeapFlags", "ProcessAffinityMask"}, 4)
           M4 == LoadConfigEndMembers(32)
<1>1. Named(N2, 5, {"DeCommitFreeBlockThreshold", "DeCommitTotalFreeThreshold", "LockPrefixTable",
            "MaximumAllocationSize", "VirtualMemoryThreshold"})
  BY DEF Named
<1>2. Named(N3, 2, {"ProcessHeapFlags", "ProcessAffinityMask"})
  BY DEF Named
<1> HIDE DEF N2, N3
<1>3. Struct(LoadConfigBegin, 7, M1)
  BY LoadConfigBeginStruct
<1>4. Struct(Of(4, N2), 5, M2)
  BY <1>1, StructOf
<1>5. Struct(Of(4, N3), 2, M3)
  BY <1>2, StructOf
<1>6. Struct(LoadConfigEnd(32), 33, M4)
  BY LoadConfigEndStruct DEF Modes
<1> HIDE DEF M1, M2, M3, M4
<1>7. Apart(M1, M2)
  BY DEF Apart, Sized, M1, LoadConfigBeginMembers, M2
<1>8. Struct(LoadConfigBegin \o Of(4, N2), 12, M1 \cup M2)
  BY <1>3, <1>4, <1>7, StructJoined
<1>9. Apart(M1 \cup M2, M3)
  BY DEF Apart, Sized, M1, LoadConfigBeginMembers, M2, M3
<1>10. Struct(LoadConfigBegin \o Of(4, N2) \o Of(4, N3), 14, M1 \cup M2 \cup M3)
  BY <1>8, <1>5, <1>9, StructJoined
<1>11. Apart(M1 \cup M2 \cup M3, M4)
  BY DEF Apart, Sized, M1, LoadConfigBeginMembers, M2, M3, M4, LoadConfigEndMembers
<1>12. Struct(LoadConfigBegin \o Of(4, N2) \o Of(4, N3) \o LoadConfigEnd(32), 47, M1 \cup M2 \cup M3 \cup M4)
  BY <1>10, <1>6, <1>11, StructJoined
<1> QED
  BY <1>12 DEF IMAGE_LOAD_CONFIG_DIRECTORY32, IMAGE_LOAD_CONFIG_DIRECTORY32Members, N2, N3, M1, M2, M3, M4, LoadConfigLimits

IMAGE_LOAD_CONFIG_DIRECTORY64Members ==
         LoadConfigBeginMembers
    \cup Sized({"DeCommitFreeBlockThreshold", "DeCommitTotalFreeThreshold", "LockPrefixTable",
                   "MaximumAllocationSize", "VirtualMemoryThreshold"}, 8)
    \cup Sized({"ProcessAffinityMask"}, 8)
    \cup Sized({"ProcessHeapFlags"}, 4)
    \cup LoadConfigEndMembers(64)

LEMMA IMAGE_LOAD_CONFIG_DIRECTORY64Struct == Struct(IMAGE_LOAD_CONFIG_DIRECTORY64, 47, IMAGE_LOAD_CONFIG_DIRECTORY64Members)
<1> DEFINE M1 == LoadConfigBeginMembers
           N2 == <<"DeCommitFreeBlockThreshold", "DeCommitTotalFreeThreshold", "LockPrefixTable",
                    "MaximumAllocationSize", "VirtualMemoryThreshold">>
           M2 == Sized({"DeCommitFreeBlockThreshold", "DeCommitTotalFreeThreshold", "LockPrefixTable",
                         "MaximumAllocationSize", "VirtualMemoryThreshold"}, 8)
           N3 == <<"ProcessAffinityMask">>
           M3 == Sized({"ProcessAffinityMask"}, 8)
           N4 == <<"ProcessHeapFlags">>
           M4 == Sized({"ProcessHeapFlags"}, 4)
           M5 == LoadConfigEndMembers(64)
<1>1. Named(N2, 5, {"DeCommitFreeBlockThreshold", "DeCommitTotalFreeThreshold", "LockPrefixTable",
            "MaximumAllocationSize", "VirtualMemoryThreshold"})
  BY DEF Named
<1>2. Named(N3, 1, {"ProcessAffinityMask"})
  BY DEF Named
<1>3. Named(N4, 1, {"ProcessHeapFlags"})
  BY DEF Named
<1> HIDE DEF N2, N3, N4
<1>4. Struct(LoadConfigBegin, 7, M1)
  BY LoadConfigBeginStruct
<1>5. Struct(Of(8, N2), 5, M2)
  BY <1>1, StructOf
<1>6. Struct(Of(8, N3), 1, M3)
  BY <1>2, StructOf
<1>7. Struct(Of(4, N4), 1, M4)
  BY <1>3, StructOf
<1>8. Struct(LoadConfigEnd(64), 33, M5)
  BY LoadConfigEndStruct DEF Modes
<1> HIDE DEF M1, M2, M3, M4, M5
<1>9. Apart(M1, M2)
  BY DEF Apart, Sized, M1, LoadConfigBeginMembers, M2
<1>10. Struct(LoadConfigBegin \o Of(8, N2), 12, M1 \cup M2)
  BY <1>4, <1>5, <1>9, StructJoined
<1>11. Apart(M1 \cup M2, M3)
  BY DEF Apart, Sized, M1, LoadConfigBeginMembers, M2, M3
<1>12. Struct(LoadConfigBegin \o Of(8, N2) \o Of(8, N3), 13, M1 \cup M2 \cup M3)
  BY <1>10, <1>6, <1>11, StructJoined
<1>13. Apart(M1 \cup M2 \cup M3, M4)
  BY DEF Apart, Sized, M1, LoadConfigBeginMembers, M2, M3, M4
<1>14. Struct(LoadConfigBegin \o Of(8, N2) \o Of(8, N3) \o Of(4, N4), 14, M1 \cup M2 \cup M3 \cup M4)
  BY <1>12, <1>7, <1>13, StructJoined
<1>15. Apart(M1 \cup M2 \cup M3 \cup M4, M5)
  BY DEF Apart, Sized, M1, LoadConfigBeginMembers, M2, M3, M4, M5, LoadConfigEndMembers
<1>16. Struct(LoadConfigBegin \o Of(8, N2) \o Of(8, N3) \o Of(4, N4) \o LoadConfigEnd(64), 47, M1 \cup M2 \cup M3 \cup M4 \cup M5)
  BY <1>14, <1>8, <1>15, StructJoined
<1> QED
  BY <1>16 DEF IMAGE_LOAD_CONFIG_DIRECTORY64, IMAGE_LOAD_CONFIG_DIRECTORY64Members, N2, N3, N4, M1, M2, M3, M4, M5, LoadConfigLimits

-----------------------------------------------------------------------------
(* Offsets of members *)

\* Each member adds its size.
LEMMA SumNext ==
    ASSUME NEW s, NEW k \in Nat, \A i \in 1..k+1 : s[i][2] \in Nat
    PROVE  /\ SizeOfMembers(s, 0) = 0 /\ SizeOfMembers(s, k) \in Nat
           /\ SizeOfMembers(s, k + 1) = SizeOfMembers(s, k) + s[k+1][2]
<1>1. SizeOfMembers(s, 0) = 0
  <2>1. PICK f : SizeOfMembers(s, 0) = f[0] /\ Sums(f, s, 0)
    BY SumIs
  <2> QED
    BY <2>1 DEF Sums
<1>2. PICK f : SizeOfMembers(s, k) = f[k] /\ Sums(f, s, k)
  <2>1. \A i \in 1..k : s[i][2] \in Nat
    OBVIOUS
  <2> QED
    BY <2>1, SumIs
<1>3. PICK g : SizeOfMembers(s, k + 1) = g[k+1] /\ Sums(g, s, k + 1)
  <2>1. k + 1 \in Nat
    OBVIOUS
  <2> QED
    BY <2>1, SumIs
<1> DEFINE S == {i \in 0..k : f[i] = g[i] /\ f[i] \in Nat}
<1>4. 0 \in S
  BY <1>2, <1>3 DEF Sums
<1>5. ASSUME NEW i \in 0..k, i < k, i \in S
      PROVE  i + 1 \in S
  <2>1. i + 1 \in 1..k /\ i + 1 \in 1..k+1 /\ (i + 1) - 1 = i
    BY <1>5
  <2>2. f[i+1] = f[i] + s[i+1][2] /\ g[i+1] = g[i] + s[i+1][2]
    BY <1>2, <1>3, <2>1 DEF Sums
  <2> QED
    BY <1>5, <2>1, <2>2
<1>6. \A i \in 0..k : i \in S
  <2> HIDE DEF S
  <2> QED
    BY <1>4, <1>5, Climb
<1>7. f[k] = g[k] /\ f[k] \in Nat
  BY <1>6
<1>8. g[k+1] = g[k] + s[k+1][2]
  <2>1. k + 1 \in 1..k+1 /\ (k + 1) - 1 = k
    OBVIOUS
  <2> QED
    BY <1>3, <2>1 DEF Sums
<1> QED
  BY <1>1, <1>2, <1>3, <1>7, <1>8

\* Where the members of a structure begin, and where the last one ends.
Offsets(g, s, n) ==
    /\ g \in [0..n -> Nat] /\ g[0] = 0
    /\ \A k \in 1..n : g[k] = g[k-1] + s[k][2]
    /\ \A i, j \in 0..n : i < j => g[i] < g[j]

LEMMA OffsetsOf ==
    ASSUME NEW s, NEW n, NEW M, Struct(s, n, M)
    PROVE  \E g : Offsets(g, s, n) /\ \A k \in 0..n : SizeOfMembers(s, k) = g[k]
<1>1. n \in Nat /\ s \in Seq(M) /\ Len(s) = n /\ \A i \in 1..n : s[i][2] \in Nat \ {0}
  BY DEF Struct, Row
<1> DEFINE g == [k \in 0..n |-> SizeOfMembers(s, k)]
<1>2. SizeOfMembers(s, 0) = 0
  <2>1. PICK f : SizeOfMembers(s, 0) = f[0] /\ Sums(f, s, 0)
    BY SumIs
  <2> QED
    BY <2>1 DEF Sums
<1>3. ASSUME NEW k \in 0..n, k < n
      PROVE  SizeOfMembers(s, k) \in Nat /\ SizeOfMembers(s, k + 1) = SizeOfMembers(s, k) + s[k+1][2]
  <2>1. k \in Nat /\ \A i \in 1..k+1 : s[i][2] \in Nat
    BY <1>1, <1>3
  <2> QED
    BY <2>1, SumNext
<1>4. ASSUME NEW k \in 0..n
      PROVE  g[k] \in Nat
  <2>1. CASE k = 0
    BY <1>2, <2>1
  <2>2. CASE k # 0
    <3>1. PICK i \in 0..n : i < n /\ i + 1 = k /\ i + 1 \in 1..n
      <4>1. k - 1 \in 0..n /\ k - 1 < n /\ (k - 1) + 1 = k /\ k \in 1..n
        BY <1>1, <2>2
      <4> QED
        BY <4>1
    <3> QED
      BY <1>1, <1>3, <3>1
  <2> QED
    BY <2>1, <2>2
<1>5. \A k \in 0..n : k < n => g[k+1] = g[k] + s[k+1][2]
  BY <1>1, <1>3
<1>6. g \in [0..n -> Nat] /\ g[0] = 0
  BY <1>1, <1>2, <1>4
<1>7. \A k \in 0..n : SizeOfMembers(s, k) = g[k]
  OBVIOUS
<1> HIDE DEF g
<1>8. \A k \in 1..n : g[k] = g[k-1] + s[k][2]
  <2>1. \A k \in 1..n : k - 1 \in 0..n /\ k - 1 < n /\ (k - 1) + 1 = k
    BY <1>1
  <2> QED
    BY <1>5, <2>1
<1>9. ASSUME NEW i \in 0..n
      PROVE  \A j \in 0..n : i < j => g[i] < g[j]
  <2> DEFINE S == {j \in 0..n : i < j => g[i] < g[j]}
  <2>1. 0 \in S
    BY <1>1
  <2>2. ASSUME NEW j \in 0..n, j < n, j \in S
        PROVE  j + 1 \in S
    <3>1. j + 1 \in 0..n /\ j + 1 \in 1..n
      BY <1>1, <2>2
    <3>2. g[j+1] = g[j] + s[j+1][2] /\ s[j+1][2] \in Nat \ {0} /\ g[j] \in Nat /\ g[i] \in Nat
      BY <1>1, <1>5, <1>6, <2>2, <3>1
    <3>3. g[j] < g[j+1]
      BY <3>2
    <3>4. i < j + 1 => i = j \/ i < j
      BY <1>1
    <3>5. i < j + 1 => g[i] < g[j+1]
      BY <1>6, <2>2, <3>1, <3>2, <3>3, <3>4
    <3> QED
      BY <3>1, <3>5
  <2>3. \A j \in 0..n : j \in S
    <3> HIDE DEF S
    <3> QED
      BY <1>1, <2>1, <2>2, Climb
  <2> QED
    BY <2>3
<1>10. Offsets(g, s, n)
  BY <1>6, <1>8, <1>9 DEF Offsets
<1> QED
  BY <1>7, <1>10

-----------------------------------------------------------------------------
(* What a wrapper shows of a structure *)

ShowsOf(v, s, names) == v = Shows(s, names, OffsetsIn(s, names))

Delta(s, name) == IF name = "" THEN NoPtr ELSE SizeOfMembers(s, Member(s, name) - 1)
Width(s, name) == IF name = "" THEN 0 ELSE s[Member(s, name)][2]

Shown(v, s, n, names, c) ==
    /\ Len(v.names) = c /\ DOMAIN v.names = 1..c /\ DOMAIN v.delta = 1..c /\ v.size = SizeOfMembers(s, n)
    /\ \A f \in 1..c : v.names[f] = names[f] /\ v.sizes[f] = Width(s, names[f]) /\ v.delta[f] = Delta(s, names[f])

LEMMA ShowsSame ==
    ASSUME NEW s, NEW n, NEW M, Row(s, n, M), NEW names, NEW c, NEW T, Row(names, c, T), NEW v, ShowsOf(v, s, names)
    PROVE  Shown(v, s, n, names, c)
<1>1. s \in Seq(M) /\ Len(s) = n /\ names \in Seq(T) /\ Len(names) = c /\ c \in Nat /\ DOMAIN names = 1..c
  BY DEF Row
<1>2. <<>> \o s = s /\ <<>> \o names = names
  BY <1>1
<1> DEFINE D(f) == Delta(s, names[f])
           Z(f) == Width(s, names[f])
           d == [f \in DOMAIN names |-> D(f)]
           z == [f \in DOMAIN names |-> Z(f)]
<1>3. OffsetsIn(s, names) = <<>> \o d
  BY <1>2 DEF OffsetsIn, Delta
<1>4. v.names = <<>> \o names /\ v.delta = OffsetsIn(s, names) /\ v.size = SizeOfMembers(s, Len(s)) /\ v.sizes = <<>> \o z
  BY DEF ShowsOf, Shows, Width
<1>5. \A f \in 1..c : d[f] = D(f) /\ z[f] = Z(f)
  <2> HIDE DEF D, Z
  <2> QED
    BY <1>1
<1>6. <<>> \o d = d /\ <<>> \o z = z
  <2> DEFINE A == {D(f) : f \in DOMAIN names}
             B == {Z(f) : f \in DOMAIN names}
  <2>1. d \in [1..c -> A] /\ z \in [1..c -> B]
    <3> HIDE DEF D, Z
    <3> QED
      BY <1>1
  <2> HIDE DEF d, z, A, B
  <2>2. d \in Seq(A) /\ z \in Seq(B)
    BY <1>1, <2>1
  <2> QED
    BY <2>2
<1>7. DOMAIN d = 1..c
  BY <1>1
<1> HIDE DEF d, z
<1>8. v.names = names /\ v.delta = d /\ v.size = SizeOfMembers(s, n) /\ v.sizes = z
  BY <1>1, <1>2, <1>3, <1>4, <1>6
<1> QED
  BY <1>1, <1>5, <1>7, <1>8 DEF Shown

\* A field that is the k-th member.
IsField(v, f, s, k) == v.names[f] = s[k][1] /\ v.sizes[f] = s[k][2] /\ v.delta[f] = SizeOfMembers(s, k - 1)

\* The name of the k-th member, and of no other.
OwnName(s, n, k, name) == s[k][1] = name /\ \A i \in 1..n : s[i][1] = name => i = k

LEMMA FieldAt ==
    ASSUME NEW s, NEW n, NEW M, Row(s, n, M), NEW names, NEW c, NEW v, Shown(v, s, n, names, c),
           NEW f \in 1..c, NEW k \in 1..n, OwnName(s, n, k, names[f]), names[f] # ""
    PROVE  IsField(v, f, s, k)
<1>1. DOMAIN s = 1..n
  BY RowIs DEF IsList
<1>2. Member(s, names[f]) = k
  BY <1>1 DEF OwnName, Member
<1>3. v.names[f] = names[f] /\ v.sizes[f] = Width(s, names[f]) /\ v.delta[f] = Delta(s, names[f])
  BY DEF Shown
<1>4. s[k][1] = names[f]
  BY DEF OwnName
<1> QED
  BY <1>2, <1>3, <1>4 DEF IsField, Width, Delta

LEMMA FieldIs ==
    ASSUME NEW s, NEW n, NEW M, Struct(s, n, M), NEW names, NEW c, NEW T, Row(names, c, T), NEW v, ShowsOf(v, s, names),
           NEW f \in 1..c, NEW k \in 1..n, names[f] = s[k][1], names[f] # ""
    PROVE  IsField(v, f, s, k)
<1>1. Row(s, n, M)
  BY DEF Struct
<1>2. Shown(v, s, n, names, c)
  BY <1>1, ShowsSame
<1>3. OwnName(s, n, k, names[f])
  BY DEF OwnName, Struct
<1> QED
  BY <1>1, <1>2, <1>3, FieldAt

\* A wrapper that shows every member: each field ends where the next one begins,
\* and the last one where the structure ends.
Whole(v, n, M) ==
    /\ n \in Nat \ {0} /\ Len(v.names) = n /\ DOMAIN v.names = 1..n /\ DOMAIN v.delta = 1..n
    /\ v.size \in Nat /\ v.delta[1] = 0
    /\ \A f \in 1..n :
          /\ v.delta[f] \in Nat /\ v.delta[f] < v.size /\ v.sizes[f] \in Nat
          /\ \E m \in M : v.names[f] = m[1] /\ v.sizes[f] = m[2]
    /\ \A f \in 1..n-1 : v.delta[f+1] = v.delta[f] + v.sizes[f]
    /\ v.delta[n] + v.sizes[n] = v.size
    /\ \A f, g \in 1..n : f < g => v.delta[f] < v.delta[g]

HasNames(M) == \A m \in M : m[1] # ""

FirstsOf(M) == {m[1] : m \in M}

LEMMA NamesRow ==
    ASSUME NEW s, NEW n, NEW M, Struct(s, n, M)
    PROVE  Row(Names(s), n, FirstsOf(M)) /\ \A i \in 1..n : Names(s)[i] = s[i][1] /\ s[i] \in M
<1>1. s \in Seq(M) /\ Len(s) = n /\ n \in Nat /\ DOMAIN s = 1..n /\ \A i \in 1..n : s[i] \in M
  BY DEF Struct, Row
<1>2. \A i \in 1..n : s[i][1] \in FirstsOf(M)
  BY <1>1 DEF FirstsOf
<1> DEFINE z == [i \in DOMAIN s |-> s[i][1]]
<1>3. z \in [1..n -> FirstsOf(M)] /\ \A i \in 1..n : z[i] = s[i][1]
  BY <1>1, <1>2
<1>4. Names(s) = <<>> \o z
  BY DEF Names
<1> HIDE DEF z
<1>5. z \in Seq(FirstsOf(M)) /\ Len(z) = n
  BY <1>1, <1>3
<1>6. Names(s) = z
  BY <1>4, <1>5
<1> QED
  BY <1>1, <1>3, <1>5, <1>6 DEF Row

LEMMA WholeView ==
    ASSUME NEW s, NEW n, NEW M, Struct(s, n, M), n # 0, HasNames(M), NEW v, ShowsOf(v, s, Names(s))
    PROVE  Whole(v, n, M)
<1>1. Row(Names(s), n, FirstsOf(M)) /\ \A i \in 1..n : Names(s)[i] = s[i][1] /\ s[i] \in M
  BY NamesRow
<1>2. PICK g : Offsets(g, s, n) /\ \A k \in 0..n : SizeOfMembers(s, k) = g[k]
  BY OffsetsOf
<1>3. Len(v.names) = n /\ DOMAIN v.names = 1..n /\ DOMAIN v.delta = 1..n /\ v.size = SizeOfMembers(s, n)
  <2>1. Row(s, n, M)
    BY DEF Struct
  <2>2. Shown(v, s, n, Names(s), n)
    BY <1>1, <2>1, ShowsSame
  <2> QED
    BY <2>2 DEF Shown
<1>n. n \in Nat /\ n \in 0..n
  BY DEF Struct, Row
<1>4. \A f \in 1..n : v.names[f] = s[f][1] /\ v.sizes[f] = s[f][2] /\ v.delta[f] = SizeOfMembers(s, f - 1)
  <2> SUFFICES ASSUME NEW f \in 1..n
               PROVE  IsField(v, f, s, f)
    BY DEF IsField
  <2>1. Names(s)[f] = s[f][1] /\ Names(s)[f] # ""
    BY <1>1 DEF HasNames
  <2> QED
    BY <1>1, <2>1, FieldIs
<1>5. \A f \in 1..n : v.delta[f] = g[f-1] /\ v.names[f] = s[f][1] /\ v.sizes[f] = s[f][2]
  <2>1. \A f \in 1..n : f - 1 \in 0..n
    BY <1>n
  <2> QED
    BY <1>2, <1>4, <2>1
<1>6. v.size = g[n] /\ v.size \in Nat
  BY <1>2, <1>3, <1>n DEF Offsets
<1>7. \A f \in 1..n : g[f-1] \in Nat /\ g[f-1] < g[n] /\ g[f] = g[f-1] + s[f][2]
  <2>1. \A f \in 1..n : f - 1 \in 0..n /\ f - 1 < n
    BY <1>n
  <2> QED
    BY <1>2, <1>n, <2>1 DEF Offsets
<1>8. \A f \in 1..n : v.delta[f] \in Nat /\ v.delta[f] < v.size
  BY <1>5, <1>6, <1>7
<1>9. \A f \in 1..n-1 : v.delta[f+1] = v.delta[f] + v.sizes[f]
  <2>1. \A f \in 1..n-1 : f \in 1..n /\ f + 1 \in 1..n /\ (f + 1) - 1 = f
    BY <1>n
  <2> QED
    BY <1>5, <1>7, <2>1
<1>10. n \in 1..n /\ 1 \in 1..n
  BY <1>n
<1>11. v.delta[n] + v.sizes[n] = v.size
  BY <1>5, <1>6, <1>7, <1>10
<1>12. v.delta[1] = 0
  BY <1>2, <1>5, <1>10 DEF Offsets
<1>13. \A f, h \in 1..n : f < h => v.delta[f] < v.delta[h]
  <2>1. \A f, h \in 1..n : f < h => f - 1 \in 0..n /\ h - 1 \in 0..n /\ f - 1 < h - 1
    BY <1>n
  <2> QED
    BY <1>2, <1>5, <2>1 DEF Offsets
<1>14. \A f \in 1..n : (\E m \in M : v.names[f] = m[1] /\ v.sizes[f] = m[2]) /\ v.sizes[f] \in Nat
  BY <1>1, <1>5 DEF Struct
<1> QED
  BY <1>n, <1>3, <1>6, <1>8, <1>9, <1>11, <1>12, <1>13, <1>14 DEF Whole

-----------------------------------------------------------------------------
(* The names of the 64 bit structures *)

\* Structures of the same names, whatever the sizes.
Twins(s, t, n) ==
    /\ \E M : Row(s, n, M)
    /\ \E M : Row(t, n, M)
    /\ \A i \in 1..n : s[i][1] = t[i][1]

LEMMA TwinsOf ==
    ASSUME NEW T, NEW n, NEW names, Named(names, n, T), NEW x \in Nat \ {0}, NEW y \in Nat \ {0}
    PROVE  Twins(Of(x, names), Of(y, names), n) /\ \A i \in 1..n : Of(x, names)[i][1] = names[i]
<1>1. n \in Nat /\ names \in Seq(T) /\ Len(names) = n
  BY DEF Named
<1>2. PICK s, t : s = Of(x, names) /\ t = Of(y, names)
  OBVIOUS
<1>3. Struct(s, n, Sized(T, x)) /\ Struct(t, n, Sized(T, y))
  BY <1>2, StructOf
<1>4. \A i \in 1..n : s[i] = <<names[i], x>> /\ t[i] = <<names[i], y>>
  BY <1>1, <1>2 DEF Of
<1>5. Row(s, n, Sized(T, x)) /\ Row(t, n, Sized(T, y))
  BY <1>3 DEF Struct
<1>6. \A i \in 1..n : s[i][1] = names[i] /\ t[i][1] = names[i]
  BY <1>4
<1>7. Twins(s, t, n)
  BY <1>5, <1>6 DEF Twins
<1> QED
  BY <1>2, <1>6, <1>7

LEMMA TwinsJoined ==
    ASSUME NEW s, NEW t, NEW n, Twins(s, t, n), NEW u, NEW v, NEW k, Twins(u, v, k)
    PROVE  Twins(s \o u, t \o v, n + k)
<1>1. PICK M1, M2, L1, L2 : Row(s, n, M1) /\ Row(t, n, M2) /\ Row(u, k, L1) /\ Row(v, k, L2)
  BY DEF Twins
<1>2. PICK a, b : a = s \o u /\ b = t \o v /\ IsJoin(a, s, u) /\ IsJoin(b, t, v)
  BY DEF IsJoin
<1>3. /\ Row(a, n + k, M1 \cup L1)
      /\ (\A i \in 1..n : a[i] = s[i]) /\ (\A i \in 1..k : a[n+i] = u[i])
  <2>1. Joined(a, s, n, M1, u, k, L1)
    BY <1>1, <1>2, RowJoined
  <2> QED
    BY <2>1 DEF Joined
<1>4. /\ Row(b, n + k, M2 \cup L2)
      /\ (\A i \in 1..n : b[i] = t[i]) /\ (\A i \in 1..k : b[n+i] = v[i])
  <2>1. Joined(b, t, n, M2, v, k, L2)
    BY <1>1, <1>2, RowJoined
  <2> QED
    BY <2>1 DEF Joined
<1>5. n \in Nat /\ k \in Nat
  BY <1>1 DEF Row
<1>6. ASSUME NEW i \in 1..n+k
      PROVE  a[i][1] = b[i][1]
  <2>1. CASE i \in 1..n
    BY <1>3, <1>4, <2>1 DEF Twins
  <2>2. CASE i \notin 1..n
    <3>1. PICK j \in 1..k : i = n + j
      <4>1. i - n \in 1..k /\ i = n + (i - n)
        BY <1>5, <2>2
      <4> QED
        BY <4>1
    <3> QED
      BY <1>3, <1>4, <3>1 DEF Twins
  <2> QED
    BY <2>1, <2>2
<1> QED
  BY <1>2, <1>3, <1>4, <1>6 DEF Twins

LEMMA LoadConfigEndTwins == Twins(LoadConfigEnd(32), LoadConfigEnd(64), 33)
<1> DEFINE N1 == <<"CSDVersion", "DependentLoadFlags">>
           N2 == <<"EditList", "SecurityCookie", "SEHandlerTable", "SEHandlerCount",
                    "GuardCFCheckFunctionPointer", "GuardCFDispatchFunctionPointer",
                    "GuardCFFunctionTable", "GuardCFFunctionCount">>
           N3 == <<"GuardFlags">>
           N4 == <<"CodeIntegrity.Flags", "CodeIntegrity.Catalog">>
           N5 == <<"CodeIntegrity.CatalogOffset", "CodeIntegrity.Reserved">>
           N6 == <<"GuardAddressTakenIatEntryTable", "GuardAddressTakenIatEntryCount",
                    "GuardLongJumpTargetTable", "GuardLongJumpTargetCount", "DynamicValueRelocTable",
                    "CHPEMetadataPointer", "GuardRFFailureRoutine", "GuardRFFailureRoutineFunctionPointer">>
           N7 == <<"DynamicValueRelocTableOffset">>
           N8 == <<"DynamicValueRelocTableSection", "Reserved2">>
           N9 == <<"GuardRFVerifyStackPointerFunctionPointer">>
           N10 == <<"HotPatchTableOffset", "Reserved3">>
           N11 == <<"EnclaveConfigurationPointer", "VolatileMetadataPointer", "GuardEHContinuationTable",
                    "GuardEHContinuationCount">>
<1>1. Wide(32) = 4 /\ Wide(64) = 8
  BY DEF Wide
<1>2. Named(N1, 2, {"CSDVersion", "DependentLoadFlags"})
  BY DEF Named
<1>3. Named(N2, 8, {"EditList", "SecurityCookie", "SEHandlerTable", "SEHandlerCount",
            "GuardCFCheckFunctionPointer", "GuardCFDispatchFunctionPointer", "GuardCFFunctionTable",
            "GuardCFFunctionCount"})
  BY DEF Named
<1>4. Named(N3, 1, {"GuardFlags"})
  BY DEF Named
<1>5. Named(N4, 2, {"CodeIntegrity.Flags", "CodeIntegrity.Catalog"})
  BY DEF Named
<1>6. Named(N5, 2, {"CodeIntegrity.CatalogOffset", "CodeIntegrity.Reserved"})
  BY DEF Named
<1>7. Named(N6, 8, {"GuardAddressTakenIatEntryTable", "GuardAddressTakenIatEntryCount",
            "GuardLongJumpTargetTable", "GuardLongJumpTargetCount", "DynamicValueRelocTable",
            "CHPEMetadataPointer", "GuardRFFailureRoutine", "GuardRFFailureRoutineFunctionPointer"})
  BY DEF Named
<1>8. Named(N7, 1, {"DynamicValueRelocTableOffset"})
  BY DEF Named
<1>9. Named(N8, 2, {"DynamicValueRelocTableSection", "Reserved2"})
  BY DEF Named
<1>10. Named(N9, 1, {"GuardRFVerifyStackPointerFunctionPointer"})
  BY DEF Named
<1>11. Named(N10, 2, {"HotPatchTableOffset", "Reserved3"})
  BY DEF Named
<1>12. Named(N11, 4, {"EnclaveConfigurationPointer", "VolatileMetadataPointer", "GuardEHContinuationTable",
            "GuardEHContinuationCount"})
  BY DEF Named
<1> HIDE DEF N1, N2, N3, N4, N5, N6, N7, N8, N9, N10, N11
<1>13. Twins(Of(2, N1), Of(2, N1), 2)
  BY <1>2, TwinsOf
<1>14. Twins(Of(4, N2), Of(8, N2), 8)
  BY <1>3, TwinsOf
<1>15. Twins(Of(4, N3), Of(4, N3), 1)
  BY <1>4, TwinsOf
<1>16. Twins(Of(2, N4), Of(2, N4), 2)
  BY <1>5, TwinsOf
<1>17. Twins(Of(4, N5), Of(4, N5), 2)
  BY <1>6, TwinsOf
<1>18. Twins(Of(4, N6), Of(8, N6), 8)
  BY <1>7, TwinsOf
<1>19. Twins(Of(4, N7), Of(4, N7), 1)
  BY <1>8, TwinsOf
<1>20. Twins(Of(2, N8), Of(2, N8), 2)
  BY <1>9, TwinsOf
<1>21. Twins(Of(4, N9), Of(8, N9), 1)
  BY <1>10, TwinsOf
<1>22. Twins(Of(4, N10), Of(4, N10), 2)
  BY <1>11, TwinsOf
<1>23. Twins(Of(4, N11), Of(8, N11), 4)
  BY <1>12, TwinsOf
<1> DEFINE S1 == Of(2, N1)
           T1 == Of(2, N1)
           S2 == Of(4, N2)
           T2 == Of(8, N2)
           S3 == Of(4, N3)
           T3 == Of(4, N3)
           S4 == Of(2, N4)
           T4 == Of(2, N4)
           S5 == Of(4, N5)
           T5 == Of(4, N5)
           S6 == Of(4, N6)
           T6 == Of(8, N6)
           S7 == Of(4, N7)
           T7 == Of(4, N7)
           S8 == Of(2, N8)
           T8 == Of(2, N8)
           S9 == Of(4, N9)
           T9 == Of(8, N9)
           S10 == Of(4, N10)
           T10 == Of(4, N10)
           S11 == Of(4, N11)
           T11 == Of(8, N11)
<1> HIDE DEF S1, T1, S2, T2, S3, T3, S4, T4, S5, T5, S6, T6, S7, T7, S8, T8, S9, T9, S10, T10, S11, T11
<1>24. Twins(S1, T1, 2)
  BY <1>13 DEF S1, T1
<1>25. Twins(S2, T2, 8)
  BY <1>14 DEF S2, T2
<1>26. Twins(S3, T3, 1)
  BY <1>15 DEF S3, T3
<1>27. Twins(S4, T4, 2)
  BY <1>16 DEF S4, T4
<1>28. Twins(S5, T5, 2)
  BY <1>17 DEF S5, T5
<1>29. Twins(S6, T6, 8)
  BY <1>18 DEF S6, T6
<1>30. Twins(S7, T7, 1)
  BY <1>19 DEF S7, T7
<1>31. Twins(S8, T8, 2)
  BY <1>20 DEF S8, T8
<1>32. Twins(S9, T9, 1)
  BY <1>21 DEF S9, T9
<1>33. Twins(S10, T10, 2)
  BY <1>22 DEF S10, T10
<1>34. Twins(S11, T11, 4)
  BY <1>23 DEF S11, T11
<1>35. Twins(S1 \o S2,
           T1 \o T2, 10)
  BY <1>24, <1>25, TwinsJoined
<1>36. Twins(S1 \o S2 \o S3,
           T1 \o T2 \o T3, 11)
  BY <1>35, <1>26, TwinsJoined
<1>37. Twins(S1 \o S2 \o S3 \o S4,
           T1 \o T2 \o T3 \o T4, 13)
  BY <1>36, <1>27, TwinsJoined
<1>38. Twins(S1 \o S2 \o S3 \o S4 \o S5,
           T1 \o T2 \o T3 \o T4 \o T5, 15)
  BY <1>37, <1>28, TwinsJoined
<1>39. Twins(S1 \o S2 \o S3 \o S4 \o S5 \o S6,
           T1 \o T2 \o T3 \o T4 \o T5 \o T6, 23)
  BY <1>38, <1>29, TwinsJoined
<1>40. Twins(S1 \o S2 \o S3 \o S4 \o S5 \o S6 \o S7,
           T1 \o T2 \o T3 \o T4 \o T5 \o T6 \o T7, 24)
  BY <1>39, <1>30, TwinsJoined
<1>41. Twins(S1 \o S2 \o S3 \o S4 \o S5 \o S6 \o S7 \o S8,
           T1 \o T2 \o T3 \o T4 \o T5 \o T6 \o T7 \o T8, 26)
  BY <1>40, <1>31, TwinsJoined
<1>42. Twins(S1 \o S2 \o S3 \o S4 \o S5 \o S6 \o S7 \o S8 \o S9,
           T1 \o T2 \o T3 \o T4 \o T5 \o T6 \o T7 \o T8 \o T9, 27)
  BY <1>41, <1>32, TwinsJoined
<1>43. Twins(S1 \o S2 \o S3 \o S4 \o S5 \o S6 \o S7 \o S8 \o S9 \o S10,
           T1 \o T2 \o T3 \o T4 \o T5 \o T6 \o T7 \o T8 \o T9 \o T10, 29)
  BY <1>42, <1>33, TwinsJoined
<1>44. Twins(S1 \o S2 \o S3 \o S4 \o S5 \o S6 \o S7 \o S8 \o S9 \o S10 \o S11,
           T1 \o T2 \o T3 \o T4 \o T5 \o T6 \o T7 \o T8 \o T9 \o T10 \o T11, 33)
  BY <1>43, <1>34, TwinsJoined
<1> QED
  BY <1>1, <1>44 DEF LoadConfigEnd, S1, T1, S2, T2, S3, T3, S4, T4, S5, T5, S6, T6, S7, T7, S8, T8, S9, T9, S10, T10, S11, T11,
       N1, N2, N3, N4, N5, N6, N7, N8, N9, N10, N11

\* What is said of the names of all members.
SameNames(s, names, n) == \A i \in 1..n : s[i][1] = names[i]

LEMMA NamesEqual ==
    ASSUME NEW s, NEW n, NEW M, Struct(s, n, M), NEW names, NEW T, Row(names, n, T), SameNames(s, names, n)
    PROVE  Names(s) = names
<1>1. Row(Names(s), n, FirstsOf(M)) /\ \A i \in 1..n : Names(s)[i] = s[i][1]
  BY NamesRow
<1>2. PICK z : z = Names(s)
  OBVIOUS
<1>3. /\ z \in Seq(FirstsOf(M)) /\ Len(z) = n /\ names \in Seq(T) /\ Len(names) = n
      /\ \A i \in 1..n : z[i] = names[i]
  BY <1>1, <1>2 DEF Row, SameNames
<1>4. DOMAIN z = 1..n /\ DOMAIN names = 1..n /\ z = [i \in DOMAIN z |-> z[i]] /\ names = [i \in DOMAIN names |-> names[i]]
  BY <1>3
<1>5. z = names
  BY <1>3, <1>4
<1> QED
  BY <1>2, <1>5

\* TlsDirFID is named by the 32 bit structure.
LEMMA TlsNames ==
    ASSUME NEW b \in Modes
    PROVE  TlsDirFID = Names(IMAGE_TLS_DIRECTORY(b))
<1>1. 32 \in Modes
  BY DEF Modes
<1>2. /\ Struct(IMAGE_TLS_DIRECTORY(32), 6, IMAGE_TLS_DIRECTORYMembers(32))
      /\ Struct(IMAGE_TLS_DIRECTORY(b), 6, IMAGE_TLS_DIRECTORYMembers(b))
  BY <1>1, IMAGE_TLS_DIRECTORYStruct
<1>3. \A i \in 1..6 : IMAGE_TLS_DIRECTORY(b)[i][1] = IMAGE_TLS_DIRECTORY(32)[i][1]
  <2> DEFINE N1 == <<"StartAddressOfRawData", "EndAddressOfRawData", "AddressOfIndex", "AddressOfCallBacks">>
             N2 == <<"SizeOfZeroFill", "Characteristics">>
  <2>1. Wide(b) \in Nat \ {0} /\ Wide(32) \in Nat \ {0}
    BY DEF Wide
  <2>2. Named(N1, 4, {"StartAddressOfRawData", "EndAddressOfRawData", "AddressOfIndex", "AddressOfCallBacks"})
    BY DEF Named
  <2>3. Named(N2, 2, {"SizeOfZeroFill", "Characteristics"})
    BY DEF Named
  <2> HIDE DEF N1, N2
  <2> DEFINE S1 == Of(Wide(b), N1)
             T1 == Of(Wide(32), N1)
             S2 == Of(4, N2)
  <2>4. Twins(S1, T1, 4)
    BY <2>1, <2>2, TwinsOf
  <2>5. Twins(S2, S2, 2)
    BY <2>3, TwinsOf
  <2>6. IMAGE_TLS_DIRECTORY(b) = S1 \o S2 /\ IMAGE_TLS_DIRECTORY(32) = T1 \o S2
    BY DEF IMAGE_TLS_DIRECTORY, N1, N2
  <2> HIDE DEF S1, T1, S2
  <2>7. Twins(S1 \o S2, T1 \o S2, 6)
    BY <2>4, <2>5, TwinsJoined
  <2>8. PICK s, t : s = S1 \o S2 /\ t = T1 \o S2
    OBVIOUS
  <2>9. Twins(s, t, 6)
    BY <2>7, <2>8
  <2>10. IMAGE_TLS_DIRECTORY(b) = s /\ IMAGE_TLS_DIRECTORY(32) = t
    BY <2>6, <2>8
  <2>11. \A i \in 1..6 : s[i][1] = t[i][1]
    BY <2>9 DEF Twins
  <2> QED
    BY <2>10, <2>11
<1>4. /\ Row(TlsDirFID, 6, FirstsOf(IMAGE_TLS_DIRECTORYMembers(32)))
      /\ \A i \in 1..6 : TlsDirFID[i] = IMAGE_TLS_DIRECTORY(32)[i][1]
  BY <1>2, NamesRow DEF TlsDirFID
<1>5. SameNames(IMAGE_TLS_DIRECTORY(b), TlsDirFID, 6)
  BY <1>3, <1>4 DEF SameNames
<1> QED
  BY <1>2, <1>4, <1>5, NamesEqual

\* The two members that are flipped.
Affinity == "ProcessAffinityMask"
HeapFlags == "ProcessHeapFlags"

LEMMA LdConfigSwap ==
    LET s == IMAGE_LOAD_CONFIG_DIRECTORY32
        t == IMAGE_LOAD_CONFIG_DIRECTORY64
    IN /\ \A i \in 1..47 : i \notin {13, 14} => s[i][1] = t[i][1]
       /\ s[13][1] = HeapFlags /\ s[14][1] = Affinity
       /\ t[13][1] = Affinity /\ t[14][1] = HeapFlags
<1> DEFINE T0 == {"DeCommitFreeBlockThreshold", "DeCommitTotalFreeThreshold", "LockPrefixTable", "MaximumAllocationSize",
                  "VirtualMemoryThreshold"}
           L4 == Of(4, LoadConfigLimits)
           L8 == Of(8, LoadConfigLimits)
           two == <<HeapFlags, Affinity>>
           one == <<Affinity>>
           other == <<HeapFlags>>
           P4 == Of(4, two)
           A8 == Of(8, one)
           H4 == Of(4, other)
           E32 == LoadConfigEnd(32)
           E64 == LoadConfigEnd(64)
           B == LoadConfigBegin
<1>1. Named(LoadConfigLimits, 5, T0)
  BY DEF Named, LoadConfigLimits
<1>2. Named(two, 2, {HeapFlags, Affinity}) /\ Named(one, 1, {Affinity}) /\ Named(other, 1, {HeapFlags})
  BY DEF Named, HeapFlags, Affinity
<1>3. two[1] = HeapFlags /\ two[2] = Affinity /\ one[1] = Affinity /\ other[1] = HeapFlags
  OBVIOUS
<1> HIDE DEF two, one, other, T0
<1>4. Twins(B, B, 7)
  BY LoadConfigBeginStruct DEF Twins, Struct
<1>5. Twins(L4, L8, 5)
  BY <1>1, TwinsOf
<1>6. /\ Twins(P4, P4, 2) /\ (\A i \in 1..2 : P4[i][1] = two[i])
      /\ Twins(A8, A8, 1) /\ (\A i \in 1..1 : A8[i][1] = one[i])
      /\ Twins(H4, H4, 1) /\ (\A i \in 1..1 : H4[i][1] = other[i])
  BY <1>2, TwinsOf
<1>7. Twins(E32, E64, 33)
  BY LoadConfigEndTwins
<1>8. /\ IMAGE_LOAD_CONFIG_DIRECTORY32 = B \o L4 \o P4 \o E32
      /\ IMAGE_LOAD_CONFIG_DIRECTORY64 = B \o L8 \o A8 \o H4 \o E64
  BY DEF IMAGE_LOAD_CONFIG_DIRECTORY32, IMAGE_LOAD_CONFIG_DIRECTORY64, two, one, other, HeapFlags, Affinity
<1>9. P4[1][1] = HeapFlags /\ P4[2][1] = Affinity /\ A8[1][1] = Affinity /\ H4[1][1] = HeapFlags
  BY <1>3, <1>6
<1> HIDE DEF L4, L8, P4, A8, H4, E32, E64, B
<1>10. PICK b4, b8 : b4 = B \o L4 /\ b8 = B \o L8
  OBVIOUS
<1>11. Twins(b4, b8, 12)
  <2>1. Twins(B \o L4, B \o L8, 12)
    BY <1>4, <1>5, TwinsJoined
  <2> QED
    BY <1>10, <2>1
<1>12. PICK M1, M2, M3, M4, M5, M6, M7 :
           /\ Row(b4, 12, M1) /\ Row(b8, 12, M2) /\ Row(P4, 2, M3) /\ Row(A8, 1, M4) /\ Row(H4, 1, M5)
           /\ Row(E32, 33, M6) /\ Row(E64, 33, M7)
  BY <1>6, <1>7, <1>11 DEF Twins
<1>13. PICK c4, c8, d8 : c4 = b4 \o P4 /\ c8 = b8 \o A8 /\ d8 = c8 \o H4
  OBVIOUS
<1>j. IsJoin(c4, b4, P4) /\ IsJoin(c8, b8, A8) /\ IsJoin(d8, c8, H4)
  BY <1>13 DEF IsJoin
<1>14. Row(c4, 14, M1 \cup M3) /\ (\A i \in 1..12 : c4[i] = b4[i]) /\ (\A i \in 1..2 : c4[12+i] = P4[i])
  <2>1. Joined(c4, b4, 12, M1, P4, 2, M3)
    BY <1>12, <1>j, RowJoined
  <2> QED
    BY <2>1 DEF Joined
<1>15. Row(c8, 13, M2 \cup M4) /\ (\A i \in 1..12 : c8[i] = b8[i]) /\ (\A i \in 1..1 : c8[12+i] = A8[i])
  <2>1. Joined(c8, b8, 12, M2, A8, 1, M4)
    BY <1>12, <1>j, RowJoined
  <2> QED
    BY <2>1 DEF Joined
<1>16. /\ Row(d8, 14, (M2 \cup M4) \cup M5)
       /\ (\A i \in 1..13 : d8[i] = c8[i]) /\ (\A i \in 1..1 : d8[13+i] = H4[i])
  <2>1. Joined(d8, c8, 13, M2 \cup M4, H4, 1, M5)
    BY <1>12, <1>j, <1>15, RowJoined
  <2> QED
    BY <2>1 DEF Joined
<1>17. PICK s, t : /\ s = IMAGE_LOAD_CONFIG_DIRECTORY32 /\ t = IMAGE_LOAD_CONFIG_DIRECTORY64
                   /\ s = c4 \o E32 /\ t = d8 \o E64
  BY <1>8, <1>10, <1>13
<1>k. IsJoin(s, c4, E32) /\ IsJoin(t, d8, E64)
  BY <1>17 DEF IsJoin
<1>18. (\A i \in 1..14 : s[i] = c4[i]) /\ (\A i \in 1..33 : s[14+i] = E32[i])
  <2>1. Joined(s, c4, 14, M1 \cup M3, E32, 33, M6)
    BY <1>12, <1>14, <1>k, RowJoined
  <2> QED
    BY <2>1 DEF Joined
<1>19. (\A i \in 1..14 : t[i] = d8[i]) /\ (\A i \in 1..33 : t[14+i] = E64[i])
  <2>1. Joined(t, d8, 14, (M2 \cup M4) \cup M5, E64, 33, M7)
    BY <1>12, <1>16, <1>k, RowJoined
  <2> QED
    BY <2>1 DEF Joined
<1>20. \A i \in 1..12 : s[i][1] = t[i][1]
  BY <1>11, <1>14, <1>15, <1>16, <1>18, <1>19 DEF Twins
<1>21. ASSUME NEW i \in 1..33
       PROVE  s[14+i][1] = t[14+i][1]
  <2>1. s[14+i] = E32[i] /\ t[14+i] = E64[i]
    BY <1>18, <1>19
  <2>2. E32[i][1] = E64[i][1]
    BY <1>7 DEF Twins
  <2> QED
    BY <2>1, <2>2
<1>22. s[13] = P4[1] /\ s[14] = P4[2]
  BY <1>14, <1>18
<1>23. t[13] = A8[1] /\ t[14] = H4[1]
  BY <1>15, <1>16, <1>19
<1>24. ASSUME NEW i \in 1..47, i \notin {13, 14}
       PROVE  s[i][1] = t[i][1]
  <2>1. CASE i \in 1..12
    BY <1>20, <2>1
  <2>2. CASE i \notin 1..12
    <3>1. i - 14 \in 1..33 /\ i = 14 + (i - 14)
      BY <1>24, <2>2
    <3>2. PICK j \in 1..33 : i = 14 + j
      BY <3>1
    <3> QED
      BY <1>21, <3>2
  <2> QED
    BY <2>1, <2>2
<1> QED
  BY <1>9, <1>17, <1>22, <1>23, <1>24

\* Affinity mask and heap flags are named as the 64 bit structure has them.
LEMMA LdConfigNames ==
    ASSUME NEW b \in Modes
    PROVE  LdConfigFields(b) = Names(IMAGE_LOAD_CONFIG_DIRECTORY(b))
<1> DEFINE s == IMAGE_LOAD_CONFIG_DIRECTORY32
           t == IMAGE_LOAD_CONFIG_DIRECTORY64
           M == FirstsOf(IMAGE_LOAD_CONFIG_DIRECTORY32Members)
           L == FirstsOf(IMAGE_LOAD_CONFIG_DIRECTORY64Members)
           Flip(name) == CASE name = "ProcessHeapFlags" -> "ProcessAffinityMask"
                           [] name = "ProcessAffinityMask" -> "ProcessHeapFlags"
                           [] OTHER -> name
           z == [i \in DOMAIN LdConfigDirFID |-> IF b = 64 THEN Flip(LdConfigDirFID[i]) ELSE LdConfigDirFID[i]]
<1>1. LdConfigFields(b) = <<>> \o z
  BY DEF LdConfigFields
<1>2. Row(LdConfigDirFID, 47, M) /\ \A i \in 1..47 : LdConfigDirFID[i] = s[i][1]
  BY NamesRow, IMAGE_LOAD_CONFIG_DIRECTORY32Struct DEF LdConfigDirFID
<1>3. IsList(LdConfigDirFID, 47)
  BY <1>2, RowIs
<1>z. IsList(z, 47)
  <2> HIDE DEF Flip
  <2> QED
    BY <1>3 DEF IsList
<1>4. CASE b = 32
  <2>1. IMAGE_LOAD_CONFIG_DIRECTORY(b) = s
    BY <1>4 DEF IMAGE_LOAD_CONFIG_DIRECTORY
  <2> HIDE DEF s, M
  <2>2. \A i \in 1..47 : z[i] = LdConfigDirFID[i]
    <3> HIDE DEF Flip
    <3> QED
      BY <1>3, <1>4 DEF IsList
  <2> HIDE DEF z
  <2>3. z = LdConfigDirFID
    BY <1>3, <1>z, <2>2, SameLists
  <2>4. <<>> \o z = z
    BY <1>2, <2>3, RowIs
  <2> QED
    BY <1>1, <2>1, <2>3, <2>4 DEF LdConfigDirFID, s
<1>5. CASE b = 64
  <2>1. IMAGE_LOAD_CONFIG_DIRECTORY(b) = t
    BY <1>5 DEF IMAGE_LOAD_CONFIG_DIRECTORY
  <2>2. \A i, j \in 1..47 : s[i][1] = s[j][1] => i = j
    BY IMAGE_LOAD_CONFIG_DIRECTORY32Struct DEF Struct
  <2>3. Row(Names(t), 47, L) /\ \A i \in 1..47 : Names(t)[i] = t[i][1]
    BY NamesRow, IMAGE_LOAD_CONFIG_DIRECTORY64Struct
  <2>4. /\ \A i \in 1..47 : i \notin {13, 14} => s[i][1] = t[i][1]
        /\ s[13][1] = "ProcessHeapFlags" /\ s[14][1] = "ProcessAffinityMask"
        /\ t[13][1] = "ProcessAffinityMask" /\ t[14][1] = "ProcessHeapFlags"
    BY LdConfigSwap DEF HeapFlags, Affinity
  <2> HIDE DEF s, t, M, L
  <2>5. \A i \in 1..47 : z[i] = Flip(LdConfigDirFID[i])
    <3> HIDE DEF Flip
    <3> QED
      BY <1>3, <1>5 DEF IsList
  <2>6. ASSUME NEW i \in 1..47
        PROVE  z[i] = t[i][1]
    <3>1. CASE i \in {13, 14}
      <4> HIDE DEF z
      <4> QED
        BY <1>2, <2>4, <2>5, <3>1
    <3>2. CASE i \notin {13, 14}
      <4>1. s[i][1] # s[13][1] /\ s[i][1] # s[14][1]
        BY <2>2, <3>2
      <4> HIDE DEF z
      <4> QED
        BY <1>2, <2>4, <2>5, <3>2, <4>1
    <3> QED
      BY <3>1, <3>2
  <2> HIDE DEF z
  <2>7. z = Names(t)
    <3>1. IsList(Names(t), 47)
      BY <2>3, RowIs
    <3> QED
      BY <1>z, <2>3, <2>6, <3>1, SameLists
  <2>8. <<>> \o z = z
    BY <2>3, <2>7, RowIs
  <2> QED
    BY <1>1, <2>1, <2>7, <2>8
<1> QED
  BY <1>4, <1>5 DEF Modes

\* The members of the two optional headers: behind BaseOfData they are one apart.
LEMMA OptionalShift ==
    LET s == IMAGE_OPTIONAL_HEADER32
        t == IMAGE_OPTIONAL_HEADER64
    IN /\ \A i \in 1..8 : s[i][1] = t[i][1]
       /\ s[9][1] = "BaseOfData" /\ t[8][1] = "BaseOfCode"
       /\ \A i \in 10..31 : s[i][1] = t[i-1][1]
<1> DEFINE T0 == {"SizeOfStackReserve", "SizeOfStackCommit", "SizeOfHeapReserve", "SizeOfHeapCommit"}
           two == <<"BaseOfData", "ImageBase">>
           one == <<"ImageBase">>
           P4 == Of(4, two)
           P8 == Of(8, one)
           H4 == Of(4, StackAndHeap)
           H8 == Of(8, StackAndHeap)
           B == OptionalBegin
           C == OptionalMiddle
           E == OptionalEnd
<1>1. Named(StackAndHeap, 4, T0)
  BY DEF Named, StackAndHeap
<1>2. Named(two, 2, {"BaseOfData", "ImageBase"}) /\ Named(one, 1, {"ImageBase"})
  BY DEF Named
<1>3. two[1] = "BaseOfData" /\ two[2] = "ImageBase" /\ one[1] = "ImageBase"
  OBVIOUS
<1> HIDE DEF two, one, T0
<1>4. Twins(H4, H8, 4)
  BY <1>1, TwinsOf
<1>5. /\ Twins(P4, P4, 2) /\ (\A i \in 1..2 : P4[i][1] = two[i])
      /\ Twins(P8, P8, 1) /\ (\A i \in 1..1 : P8[i][1] = one[i])
  BY <1>2, TwinsOf
<1>6. /\ IMAGE_OPTIONAL_HEADER32 = B \o P4 \o C \o H4 \o E
      /\ IMAGE_OPTIONAL_HEADER64 = B \o P8 \o C \o H8 \o E
  BY DEF IMAGE_OPTIONAL_HEADER32, IMAGE_OPTIONAL_HEADER64, two, one
<1>7. P4[1][1] = "BaseOfData" /\ P4[2][1] = "ImageBase" /\ P8[1][1] = "ImageBase"
  BY <1>3, <1>5
<1>l. B[8][1] = "BaseOfCode"
  BY DEF OptionalBegin, Of
<1>8. /\ Row(B, 8, OptionalBeginMembers) /\ Row(C, 14, OptionalMiddleMembers) /\ Row(E, 3, OptionalEndMembers)
  BY OptionalBeginStruct, OptionalMiddleStruct, OptionalEndStruct DEF Struct
<1> HIDE DEF P4, P8, H4, H8, B, C, E
<1>9. PICK M1, M2, M3, M4 : Row(P4, 2, M1) /\ Row(P8, 1, M2) /\ Row(H4, 4, M3) /\ Row(H8, 4, M4)
  BY <1>4, <1>5 DEF Twins
<1>10. PICK b4, b8, c4, c8, d4, d8 :
           /\ b4 = B \o P4 /\ b8 = B \o P8 /\ c4 = b4 \o C /\ c8 = b8 \o C /\ d4 = c4 \o H4 /\ d8 = c8 \o H8
  OBVIOUS
<1>j. /\ IsJoin(b4, B, P4) /\ IsJoin(b8, B, P8) /\ IsJoin(c4, b4, C) /\ IsJoin(c8, b8, C)
      /\ IsJoin(d4, c4, H4) /\ IsJoin(d8, c8, H8)
  BY <1>10 DEF IsJoin
<1>11. PICK s, t : /\ s = IMAGE_OPTIONAL_HEADER32 /\ t = IMAGE_OPTIONAL_HEADER64
                   /\ s = d4 \o E /\ t = d8 \o E
  BY <1>6, <1>10
<1>k. IsJoin(s, d4, E) /\ IsJoin(t, d8, E)
  BY <1>11 DEF IsJoin
<1>12. /\ Row(b4, 10, OptionalBeginMembers \cup M1)
       /\ (\A i \in 1..8 : b4[i] = B[i]) /\ (\A i \in 1..2 : b4[8+i] = P4[i])
  <2>1. Joined(b4, B, 8, OptionalBeginMembers, P4, 2, M1)
    BY <1>8, <1>9, <1>j, RowJoined
  <2> QED
    BY <2>1 DEF Joined
<1>13. /\ Row(b8, 9, OptionalBeginMembers \cup M2)
       /\ (\A i \in 1..8 : b8[i] = B[i]) /\ (\A i \in 1..1 : b8[8+i] = P8[i])
  <2>1. Joined(b8, B, 8, OptionalBeginMembers, P8, 1, M2)
    BY <1>8, <1>9, <1>j, RowJoined
  <2> QED
    BY <2>1 DEF Joined
<1>14. PICK K4, K8 : Row(b4, 10, K4) /\ Row(b8, 9, K8)
  BY <1>12, <1>13
<1>15. /\ Row(c4, 24, K4 \cup OptionalMiddleMembers)
       /\ (\A i \in 1..10 : c4[i] = b4[i]) /\ (\A i \in 1..14 : c4[10+i] = C[i])
  <2>1. Joined(c4, b4, 10, K4, C, 14, OptionalMiddleMembers)
    BY <1>8, <1>j, <1>14, RowJoined
  <2> QED
    BY <2>1 DEF Joined
<1>16. /\ Row(c8, 23, K8 \cup OptionalMiddleMembers)
       /\ (\A i \in 1..9 : c8[i] = b8[i]) /\ (\A i \in 1..14 : c8[9+i] = C[i])
  <2>1. Joined(c8, b8, 9, K8, C, 14, OptionalMiddleMembers)
    BY <1>8, <1>j, <1>14, RowJoined
  <2> QED
    BY <2>1 DEF Joined
<1>17. PICK L4, L8 : Row(c4, 24, L4) /\ Row(c8, 23, L8)
  BY <1>15, <1>16
<1>18. /\ Row(d4, 28, L4 \cup M3)
       /\ (\A i \in 1..24 : d4[i] = c4[i]) /\ (\A i \in 1..4 : d4[24+i] = H4[i])
  <2>1. Joined(d4, c4, 24, L4, H4, 4, M3)
    BY <1>9, <1>j, <1>17, RowJoined
  <2> QED
    BY <2>1 DEF Joined
<1>19. /\ Row(d8, 27, L8 \cup M4)
       /\ (\A i \in 1..23 : d8[i] = c8[i]) /\ (\A i \in 1..4 : d8[23+i] = H8[i])
  <2>1. Joined(d8, c8, 23, L8, H8, 4, M4)
    BY <1>9, <1>j, <1>17, RowJoined
  <2> QED
    BY <2>1 DEF Joined
<1>20. PICK O4, O8 : Row(d4, 28, O4) /\ Row(d8, 27, O8)
  BY <1>18, <1>19
<1>21. (\A i \in 1..28 : s[i] = d4[i]) /\ (\A i \in 1..3 : s[28+i] = E[i])
  <2>1. Joined(s, d4, 28, O4, E, 3, OptionalEndMembers)
    BY <1>8, <1>k, <1>20, RowJoined
  <2> QED
    BY <2>1 DEF Joined
<1>22. (\A i \in 1..27 : t[i] = d8[i]) /\ (\A i \in 1..3 : t[27+i] = E[i])
  <2>1. Joined(t, d8, 27, O8, E, 3, OptionalEndMembers)
    BY <1>8, <1>k, <1>20, RowJoined
  <2> QED
    BY <2>1 DEF Joined
<1>23. \A i \in 1..8 : s[i] = t[i]
  BY <1>12, <1>13, <1>15, <1>16, <1>18, <1>19, <1>21, <1>22
<1>24. s[9] = P4[1] /\ s[10] = P4[2] /\ t[9] = P8[1]
  <2>1. 9 = 8 + 1 /\ 10 = 8 + 2
    OBVIOUS
  <2> QED
    BY <1>12, <1>13, <1>15, <1>16, <1>18, <1>19, <1>21, <1>22, <2>1
<1>25. \A i \in 1..14 : s[10+i] = C[i] /\ t[9+i] = C[i]
  BY <1>15, <1>16, <1>18, <1>19, <1>21, <1>22
<1>26. \A i \in 1..4 : s[24+i] = H4[i] /\ t[23+i] = H8[i]
  BY <1>18, <1>19, <1>21, <1>22
<1>27. ASSUME NEW i \in 10..31
       PROVE  s[i][1] = t[i-1][1]
  <2>1. CASE i = 10
    BY <1>7, <1>24, <2>1
  <2>2. CASE i \in 11..24
    <3>1. i - 10 \in 1..14 /\ i = 10 + (i - 10) /\ i - 1 = 9 + (i - 10)
      BY <2>2
    <3> QED
      BY <1>25, <3>1
  <2>3. CASE i \in 25..28
    <3>1. i - 24 \in 1..4 /\ i = 24 + (i - 24) /\ i - 1 = 23 + (i - 24)
      BY <2>3
    <3> QED
      BY <1>4, <1>26, <3>1 DEF Twins
  <2>4. CASE i \in 29..31
    <3>1. i - 28 \in 1..3 /\ i = 28 + (i - 28) /\ i - 1 = 27 + (i - 28)
      BY <2>4
    <3> QED
      BY <1>21, <1>22, <3>1
  <2> QED
    BY <2>1, <2>2, <2>3, <2>4
<1>28. t[8] = B[8]
  <2>1. 8 \in 1..8
    OBVIOUS
  <2> QED
    BY <1>13, <1>16, <1>19, <1>22, <2>1
<1> QED
  BY <1>7, <1>l, <1>11, <1>23, <1>24, <1>27, <1>28

-----------------------------------------------------------------------------
(* Every wrapper *)

LEMMA ViewIs ==
    ASSUME NEW b \in Modes, NEW w \in Wrappers
    PROVE  Views[b][w] = View(w, b)
  BY DEF Views

LEMMA DosView ==
    ASSUME NEW b \in Modes
    PROVE  Whole(Views[b]["Dos"], 19, IMAGE_DOS_HEADERMembers)
<1>1. Views[b]["Dos"] = View("Dos", b)
  BY ViewIs DEF Wrappers, Directories
<1>2. View("Dos", b) = Shows(IMAGE_DOS_HEADER, DosFieldId, DosHdrFieldPtr)
  BY DEF View
<1>3. ShowsOf(Views[b]["Dos"], IMAGE_DOS_HEADER, Names(IMAGE_DOS_HEADER))
  BY <1>1, <1>2 DEF ShowsOf, DosFieldId, DosHdrFieldPtr
<1>4. HasNames(IMAGE_DOS_HEADERMembers)
  BY DEF HasNames, IMAGE_DOS_HEADERMembers, Sized
<1> QED
  BY <1>3, <1>4, IMAGE_DOS_HEADERStruct, WholeView

LEMMA FileView ==
    ASSUME NEW b \in Modes
    PROVE  Whole(Views[b]["File"], 7, IMAGE_FILE_HEADERMembers)
<1>1. Views[b]["File"] = View("File", b)
  BY ViewIs DEF Wrappers, Directories
<1>2. View("File", b) = Shows(IMAGE_FILE_HEADER, FileHdrFieldID, FileHdrFieldPtr)
  BY DEF View
<1>3. ShowsOf(Views[b]["File"], IMAGE_FILE_HEADER, Names(IMAGE_FILE_HEADER))
  BY <1>1, <1>2 DEF ShowsOf, FileHdrFieldID, FileHdrFieldPtr
<1>4. HasNames(IMAGE_FILE_HEADERMembers)
  BY DEF HasNames, IMAGE_FILE_HEADERMembers, Sized
<1> QED
  BY <1>3, <1>4, IMAGE_FILE_HEADERStruct, WholeView

LEMMA ExportView ==
    ASSUME NEW b \in Modes
    PROVE  Whole(Views[b]["Export"], 11, IMAGE_EXPORT_DIRECTORYMembers)
<1>1. Views[b]["Export"] = View("Export", b)
  BY ViewIs DEF Wrappers, Directories
<1>2. View("Export", b) = Shows(IMAGE_EXPORT_DIRECTORY, ExportDirFID, ExportFieldPtr)
  BY DEF View
<1>3. ShowsOf(Views[b]["Export"], IMAGE_EXPORT_DIRECTORY, Names(IMAGE_EXPORT_DIRECTORY))
  BY <1>1, <1>2 DEF ShowsOf, ExportDirFID, ExportFieldPtr
<1>4. HasNames(IMAGE_EXPORT_DIRECTORYMembers)
  BY DEF HasNames, IMAGE_EXPORT_DIRECTORYMembers, Sized
<1> QED
  BY <1>3, <1>4, IMAGE_EXPORT_DIRECTORYStruct, WholeView

LEMMA ImportView ==
    ASSUME NEW b \in Modes
    PROVE  Whole(Views[b]["Import"], 5, IMAGE_IMPORT_DESCRIPTORMembers)
<1>1. Views[b]["Import"] = View("Import", b)
  BY ViewIs DEF Wrappers, Directories
<1>2. View("Import", b) = Shows(IMAGE_IMPORT_DESCRIPTOR, ImportFieldID, ImportFieldPtr)
  BY DEF View
<1>3. ShowsOf(Views[b]["Import"], IMAGE_IMPORT_DESCRIPTOR, Names(IMAGE_IMPORT_DESCRIPTOR))
  BY <1>1, <1>2 DEF ShowsOf, ImportFieldID, ImportFieldPtr
<1>4. HasNames(IMAGE_IMPORT_DESCRIPTORMembers)
  BY DEF HasNames, IMAGE_IMPORT_DESCRIPTORMembers, Sized
<1> QED
  BY <1>3, <1>4, IMAGE_IMPORT_DESCRIPTORStruct, WholeView

LEMMA ExceptionView ==
    ASSUME NEW b \in Modes
    PROVE  Whole(Views[b]["Exception"], 3, IMAGE_IA64_RUNTIME_FUNCTION_ENTRYMembers)
<1>1. Views[b]["Exception"] = View("Exception", b)
  BY ViewIs DEF Wrappers, Directories
<1>2. View("Exception", b) = Shows(IMAGE_IA64_RUNTIME_FUNCTION_ENTRY, ExceptionBlockFID_Intel, ExceptionFieldPtr(FALSE))
  BY DEF View
<1>3. ShowsOf(Views[b]["Exception"], IMAGE_IA64_RUNTIME_FUNCTION_ENTRY, Names(IMAGE_IA64_RUNTIME_FUNCTION_ENTRY))
  BY <1>1, <1>2 DEF ShowsOf, ExceptionBlockFID_Intel, ExceptionFieldPtr
<1>4. HasNames(IMAGE_IA64_RUNTIME_FUNCTION_ENTRYMembers)
  BY DEF HasNames, IMAGE_IA64_RUNTIME_FUNCTION_ENTRYMembers, Sized
<1> QED
  BY <1>3, <1>4, IMAGE_IA64_RUNTIME_FUNCTION_ENTRYStruct, WholeView

LEMMA ArmExceptionView ==
    ASSUME NEW b \in Modes
    PROVE  Whole(Views[b]["ArmException"], 2, ARM_EXCEPT_RECORDMembers)
<1>1. Views[b]["ArmException"] = View("ArmException", b)
  BY ViewIs DEF Wrappers, Directories
<1>2. View("ArmException", b) = Shows(ARM_EXCEPT_RECORD, ExceptionBlockFID_Arm64, ExceptionFieldPtr(TRUE))
  BY DEF View
<1>3. ShowsOf(Views[b]["ArmException"], ARM_EXCEPT_RECORD, Names(ARM_EXCEPT_RECORD))
  BY <1>1, <1>2 DEF ShowsOf, ExceptionBlockFID_Arm64, ExceptionFieldPtr
<1>4. HasNames(ARM_EXCEPT_RECORDMembers)
  BY DEF HasNames, ARM_EXCEPT_RECORDMembers, Sized
<1> QED
  BY <1>3, <1>4, ARM_EXCEPT_RECORDStruct, WholeView

LEMMA DebugView ==
    ASSUME NEW b \in Modes
    PROVE  Whole(Views[b]["Debug"], 8, IMAGE_DEBUG_DIRECTORYMembers)
<1>1. Views[b]["Debug"] = View("Debug", b)
  BY ViewIs DEF Wrappers, Directories
<1>2. View("Debug", b) = Shows(IMAGE_DEBUG_DIRECTORY, DebugDirFID, DebugFieldPtr)
  BY DEF View
<1>3. ShowsOf(Views[b]["Debug"], IMAGE_DEBUG_DIRECTORY, Names(IMAGE_DEBUG_DIRECTORY))
  BY <1>1, <1>2 DEF ShowsOf, DebugDirFID, DebugFieldPtr
<1>4. HasNames(IMAGE_DEBUG_DIRECTORYMembers)
  BY DEF HasNames, IMAGE_DEBUG_DIRECTORYMembers, Sized
<1> QED
  BY <1>3, <1>4, IMAGE_DEBUG_DIRECTORYStruct, WholeView

LEMMA BoundView ==
    ASSUME NEW b \in Modes
    PROVE  Whole(Views[b]["Bound"], 3, IMAGE_BOUND_IMPORT_DESCRIPTORMembers)
<1>1. Views[b]["Bound"] = View("Bound", b)
  BY ViewIs DEF Wrappers, Directories
<1>2. View("Bound", b) = Shows(IMAGE_BOUND_IMPORT_DESCRIPTOR, BoundFieldID, BoundFieldPtr)
  BY DEF View
<1>3. ShowsOf(Views[b]["Bound"], IMAGE_BOUND_IMPORT_DESCRIPTOR, Names(IMAGE_BOUND_IMPORT_DESCRIPTOR))
  BY <1>1, <1>2 DEF ShowsOf, BoundFieldID, BoundFieldPtr
<1>4. HasNames(IMAGE_BOUND_IMPORT_DESCRIPTORMembers)
  BY DEF HasNames, IMAGE_BOUND_IMPORT_DESCRIPTORMembers, Sized
<1> QED
  BY <1>3, <1>4, IMAGE_BOUND_IMPORT_DESCRIPTORStruct, WholeView

LEMMA DelayView ==
    ASSUME NEW b \in Modes
    PROVE  Whole(Views[b]["Delay"], 8, IMAGE_DELAY_LOADMembers)
<1>1. Views[b]["Delay"] = View("Delay", b)
  BY ViewIs DEF Wrappers, Directories
<1>2. View("Delay", b) = Shows(IMAGE_DELAY_LOAD, DelayImpDirFID, DelayFieldPtr)
  BY DEF View
<1>3. ShowsOf(Views[b]["Delay"], IMAGE_DELAY_LOAD, Names(IMAGE_DELAY_LOAD))
  BY <1>1, <1>2 DEF ShowsOf, DelayImpDirFID, DelayFieldPtr
<1>4. HasNames(IMAGE_DELAY_LOADMembers)
  BY DEF HasNames, IMAGE_DELAY_LOADMembers, Sized
<1> QED
  BY <1>3, <1>4, IMAGE_DELAY_LOADStruct, WholeView

LEMMA CLRView ==
    ASSUME NEW b \in Modes
    PROVE  Whole(Views[b]["CLR"], 19, IMAGE_COR20_HEADERMembers)
<1>1. Views[b]["CLR"] = View("CLR", b)
  BY ViewIs DEF Wrappers, Directories
<1>2. View("CLR", b) = Shows(IMAGE_COR20_HEADER, ClrFieldID, ClrFieldPtr)
  BY DEF View
<1>3. ShowsOf(Views[b]["CLR"], IMAGE_COR20_HEADER, Names(IMAGE_COR20_HEADER))
  BY <1>1, <1>2 DEF ShowsOf, ClrFieldID, ClrFieldPtr
<1>4. HasNames(IMAGE_COR20_HEADERMembers)
  BY DEF HasNames, IMAGE_COR20_HEADERMembers, Sized
<1> QED
  BY <1>3, <1>4, IMAGE_COR20_HEADERStruct, WholeView

LEMMA TLSView ==
    ASSUME NEW b \in Modes
    PROVE  Whole(Views[b]["TLS"], 6, IMAGE_TLS_DIRECTORYMembers(b))
<1>1. Views[b]["TLS"] = View("TLS", b)
  BY ViewIs DEF Wrappers, Directories
<1>2. View("TLS", b) = Shows(IMAGE_TLS_DIRECTORY(b), TlsDirFID, TlsFieldPtr(b))
  BY DEF View
<1>3. ShowsOf(Views[b]["TLS"], IMAGE_TLS_DIRECTORY(b), Names(IMAGE_TLS_DIRECTORY(b)))
  BY <1>1, <1>2, TlsNames DEF ShowsOf, TlsFieldPtr
<1>4. HasNames(IMAGE_TLS_DIRECTORYMembers(b))
  BY DEF HasNames, IMAGE_TLS_DIRECTORYMembers, Sized
<1> QED
  BY <1>3, <1>4, IMAGE_TLS_DIRECTORYStruct, WholeView

IMAGE_LOAD_CONFIG_DIRECTORYMembers(b) ==
    IF b = 64 THEN IMAGE_LOAD_CONFIG_DIRECTORY64Members ELSE IMAGE_LOAD_CONFIG_DIRECTORY32Members

LEMMA LdConfigView ==
    ASSUME NEW b \in Modes
    PROVE  Whole(Views[b]["LdConfig"], 47, IMAGE_LOAD_CONFIG_DIRECTORYMembers(b))
<1> DEFINE s == IMAGE_LOAD_CONFIG_DIRECTORY(b)
           M == IMAGE_LOAD_CONFIG_DIRECTORYMembers(b)
<1>1. Views[b]["LdConfig"] = View("LdConfig", b)
  BY ViewIs DEF Wrappers, Directories
<1>2. View("LdConfig", b) = Shows(s, LdConfigFields(b), LdConfigFieldDelta(b))
  BY DEF View
<1>3. ShowsOf(Views[b]["LdConfig"], s, Names(s))
  BY <1>1, <1>2, LdConfigNames DEF ShowsOf, LdConfigFieldDelta
<1>4. HasNames(LoadConfigBeginMembers) /\ \A c : HasNames(LoadConfigEndMembers(c))
  BY DEF HasNames, LoadConfigBeginMembers, LoadConfigEndMembers, Sized
<1>5. HasNames(IMAGE_LOAD_CONFIG_DIRECTORY32Members) /\ HasNames(IMAGE_LOAD_CONFIG_DIRECTORY64Members)
  BY <1>4 DEF HasNames, IMAGE_LOAD_CONFIG_DIRECTORY32Members, IMAGE_LOAD_CONFIG_DIRECTORY64Members, Sized
<1>6. HasNames(M)
  BY <1>5 DEF IMAGE_LOAD_CONFIG_DIRECTORYMembers
<1>7. Struct(s, 47, M)
  BY IMAGE_LOAD_CONFIG_DIRECTORY32Struct, IMAGE_LOAD_CONFIG_DIRECTORY64Struct
     DEF IMAGE_LOAD_CONFIG_DIRECTORY, IMAGE_LOAD_CONFIG_DIRECTORYMembers
<1> HIDE DEF s, M
<1> QED
  BY <1>3, <1>6, <1>7, WholeView DEF M

LEMMA RSDSView ==
    ASSUME NEW b \in Modes
    PROVE  Whole(Views[b]["RSDS"], 4, DEBUG_RSDSIMembers)
<1>1. Views[b]["RSDS"] = View("RSDS", b)
  BY ViewIs DEF Wrappers, CodeViews
<1>2. View("RSDS", b) = Shows(DEBUG_RSDSI, CVFieldID.RSDS, CVFieldPtr.RSDS)
  BY DEF View
<1>3. CVFieldID.RSDS = <<"dwSig", "guidSig", "age", "szPdb">> /\ CVFieldPtr.RSDS = OffsetsIn(DEBUG_RSDSI, CVFieldID.RSDS)
  BY DEF CVFieldID, CVFieldPtr
<1>4. PICK names : names = CVFieldID.RSDS
  OBVIOUS
<1>5. Named(names, 4, {"dwSig", "guidSig", "age", "szPdb"})
  BY <1>3, <1>4 DEF Named
<1>6. Row(names, 4, {"dwSig", "guidSig", "age", "szPdb"})
  BY <1>5 DEF Named, Row
<1>7. SameNames(DEBUG_RSDSI, names, 4)
  BY <1>3, <1>4 DEF SameNames, DEBUG_RSDSI, Of
<1>8. Names(DEBUG_RSDSI) = names
  BY <1>6, <1>7, DEBUG_RSDSIStruct, NamesEqual
<1>9. ShowsOf(Views[b]["RSDS"], DEBUG_RSDSI, Names(DEBUG_RSDSI))
  BY <1>1, <1>2, <1>3, <1>4, <1>8 DEF ShowsOf
<1>10. HasNames(DEBUG_RSDSIMembers)
  BY DEF HasNames, DEBUG_RSDSIMembers, Sized
<1> QED
  BY <1>9, <1>10, DEBUG_RSDSIStruct, WholeView

LEMMA Optional32View == Whole(Views[32]["Optional"], 31, IMAGE_OPTIONAL_HEADER32Members)
<1> DEFINE s == IMAGE_OPTIONAL_HEADER32
           M == FirstsOf(IMAGE_OPTIONAL_HEADER32Members)
           z == [i \in DOMAIN OptHdrFID |-> IF 32 = 64 /\ OptHdrFID[i] = "BaseOfData" THEN "" ELSE OptHdrFID[i]]
<1>1. Views[32]["Optional"] = View("Optional", 32)
  BY ViewIs DEF Wrappers, Modes
<1>2. View("Optional", 32) = Shows(OptHdr(32), OptHdrFields(32), OptHdrFieldPtr(32))
  BY DEF View
<1>3. OptHdr(32) = s
  BY DEF OptHdr
<1>4. Row(OptHdrFID, 31, M)
  BY NamesRow, IMAGE_OPTIONAL_HEADER32Struct DEF OptHdrFID
<1> HIDE DEF M
<1>5. IsList(OptHdrFID, 31)
  BY <1>4, RowIs
<1>6. z = OptHdrFID
  BY <1>5 DEF IsList
<1>7. OptHdrFields(32) = <<>> \o z
  BY DEF OptHdrFields
<1> HIDE DEF z, s
<1>8. OptHdrFields(32) = Names(s)
  <2>1. <<>> \o z = z
    BY <1>4, <1>6, RowIs
  <2> QED
    BY <1>6, <1>7, <2>1 DEF OptHdrFID, s
<1>9. ShowsOf(Views[32]["Optional"], s, Names(s))
  BY <1>1, <1>2, <1>3, <1>8 DEF ShowsOf, OptHdrFieldPtr
<1>10. HasNames(OptionalBeginMembers) /\ HasNames(OptionalMiddleMembers) /\ HasNames(OptionalEndMembers)
  BY DEF HasNames, OptionalBeginMembers, OptionalMiddleMembers, OptionalEndMembers, Sized
<1>11. HasNames(IMAGE_OPTIONAL_HEADER32Members)
  BY <1>10 DEF HasNames, IMAGE_OPTIONAL_HEADER32Members, Sized
<1> QED
  BY <1>9, <1>11, IMAGE_OPTIONAL_HEADER32Struct, WholeView DEF s

\* BaseOfData has no pointer in the 64 bit header; the fields behind it are those
\* one member before.
LEMMA Optional64View ==
    LET v == Views[64]["Optional"] IN
    /\ Len(v.names) = 31 /\ DOMAIN v.names = 1..31 /\ DOMAIN v.delta = 1..31 /\ v.size \in Nat
    /\ v.names[8] = "BaseOfCode" /\ v.names[9] = "" /\ v.delta[9] = NoPtr /\ v.sizes[9] = 0
    /\ \A f \in 1..31 : f # 9 =>
          /\ v.delta[f] \in Nat /\ v.delta[f] < v.size /\ v.sizes[f] \in Nat
          /\ \E m \in IMAGE_OPTIONAL_HEADER64Members : v.names[f] = m[1] /\ v.sizes[f] = m[2]
    /\ \A f \in 1..30 : f \notin {8, 9} => v.delta[f+1] = v.delta[f] + v.sizes[f]
    /\ v.delta[31] + v.sizes[31] = v.size
<1> DEFINE s == IMAGE_OPTIONAL_HEADER32
           t == IMAGE_OPTIONAL_HEADER64
           M == FirstsOf(IMAGE_OPTIONAL_HEADER32Members)
           L == FirstsOf(IMAGE_OPTIONAL_HEADER64Members)
           z == [i \in DOMAIN OptHdrFID |-> IF 64 = 64 /\ OptHdrFID[i] = "BaseOfData" THEN "" ELSE OptHdrFID[i]]
<1>1. PICK v : v = Views[64]["Optional"] /\ v = View("Optional", 64)
  BY ViewIs DEF Wrappers, Modes
<1>2. View("Optional", 64) = Shows(OptHdr(64), OptHdrFields(64), OptHdrFieldPtr(64))
  BY DEF View
<1>3. OptHdr(64) = t
  BY DEF OptHdr
<1>4. /\ Row(OptHdrFID, 31, M) /\ \A i \in 1..31 : OptHdrFID[i] = s[i][1]
  BY NamesRow, IMAGE_OPTIONAL_HEADER32Struct DEF OptHdrFID
<1>5. /\ \A i, j \in 1..31 : s[i][1] = s[j][1] => i = j
  BY IMAGE_OPTIONAL_HEADER32Struct DEF Struct
<1>6. Struct(t, 30, IMAGE_OPTIONAL_HEADER64Members) /\ Row(t, 30, IMAGE_OPTIONAL_HEADER64Members)
  BY IMAGE_OPTIONAL_HEADER64Struct DEF Struct
<1>7. /\ \A i \in 1..8 : s[i][1] = t[i][1]
      /\ s[9][1] = "BaseOfData" /\ t[8][1] = "BaseOfCode"
      /\ \A i \in 10..31 : s[i][1] = t[i-1][1]
  BY OptionalShift
<1>8. HasNames(OptionalBeginMembers) /\ HasNames(OptionalMiddleMembers) /\ HasNames(OptionalEndMembers)
  BY DEF HasNames, OptionalBeginMembers, OptionalMiddleMembers, OptionalEndMembers, Sized
<1>9. HasNames(IMAGE_OPTIONAL_HEADER64Members)
  BY <1>8 DEF HasNames, IMAGE_OPTIONAL_HEADER64Members, Sized
<1>10. \A i \in 1..30 : t[i] \in IMAGE_OPTIONAL_HEADER64Members /\ t[i][1] # "" /\ t[i][2] \in Nat
  <2>1. \A i \in 1..30 : t[i] \in IMAGE_OPTIONAL_HEADER64Members
    BY <1>6, RowIs
  <2>2. \A m \in IMAGE_OPTIONAL_HEADER64Members : m[1] # "" /\ m[2] \in Nat
    BY <1>6, <1>9 DEF HasNames, Struct
  <2> HIDE DEF t
  <2> QED
    BY <2>1, <2>2
<1> HIDE DEF s, t, M
<1>12. IsList(OptHdrFID, 31) /\ \A i \in 1..31 : OptHdrFID[i] \in M
  BY <1>4, RowIs
<1>13. IsList(z, 31) /\ \A i \in 1..31 : z[i] = IF OptHdrFID[i] = "BaseOfData" THEN "" ELSE OptHdrFID[i]
  BY <1>12 DEF IsList
<1>14. OptHdrFields(64) = <<>> \o z
  BY DEF OptHdrFields
<1> HIDE DEF z
<1>15. Row(z, 31, M \cup {""}) /\ OptHdrFields(64) = z
  <2> DEFINE A == M \cup {""}
  <2>1. \A i \in 1..31 : z[i] \in A
    BY <1>12, <1>13
  <2> HIDE DEF A
  <2>2. 31 \in Nat
    OBVIOUS
  <2>3. Row(z, 31, A)
    BY <1>13, <2>1, <2>2, IsRow
  <2>4. <<>> \o z = z
    BY <2>3, RowIs
  <2> QED
    BY <1>14, <2>3, <2>4 DEF A
<1>16. ShowsOf(v, t, z)
  BY <1>1, <1>2, <1>3, <1>15 DEF ShowsOf, OptHdrFieldPtr
<1>17. /\ \A i \in 1..8 : z[i] = t[i][1]
       /\ z[9] = "" /\ t[8][1] = "BaseOfCode"
       /\ \A i \in 10..31 : z[i] = t[i-1][1]
  <2>1. \A i \in 1..31 : i # 9 => s[i][1] # "BaseOfData"
    <3>1. 9 \in 1..31
      OBVIOUS
    <3> QED
      BY <1>5, <1>7, <3>1
  <2>2. (\A i \in 1..8 : i \in 1..31 /\ i # 9) /\ (\A i \in 10..31 : i \in 1..31 /\ i # 9) /\ 9 \in 1..31
    OBVIOUS
  <2>3. \A i \in 1..31 : z[i] = IF s[i][1] = "BaseOfData" THEN "" ELSE s[i][1]
    BY <1>4, <1>13
  <2>4. \A i \in 1..31 : i # 9 => z[i] = s[i][1]
    BY <2>1, <2>3
  <2>5. z[9] = ""
    BY <1>7, <2>2, <2>3
  <2>6. \A i \in 1..8 : z[i] = t[i][1]
    BY <1>7, <2>2, <2>4
  <2>7. \A i \in 10..31 : z[i] = t[i-1][1]
    BY <1>7, <2>2, <2>4
  <2> QED
    BY <1>7, <2>5, <2>6, <2>7
<1>18. PICK g : Offsets(g, t, 30) /\ \A k \in 0..30 : SizeOfMembers(t, k) = g[k]
  BY <1>6, OffsetsOf
<1>19. /\ Len(v.names) = 31 /\ DOMAIN v.names = 1..31 /\ DOMAIN v.delta = 1..31 /\ v.size = g[30]
       /\ v.names[9] = "" /\ v.delta[9] = NoPtr /\ v.sizes[9] = 0
  <2>1. 9 \in 1..31 /\ 30 \in 0..30
    OBVIOUS
  <2>2. Shown(v, t, 30, z, 31)
    BY <1>6, <1>15, <1>16, ShowsSame
  <2>3. /\ Len(v.names) = 31 /\ DOMAIN v.names = 1..31 /\ DOMAIN v.delta = 1..31 /\ v.size = SizeOfMembers(t, 30)
        /\ v.names[9] = z[9] /\ v.sizes[9] = Width(t, z[9]) /\ v.delta[9] = Delta(t, z[9])
    BY <2>1, <2>2 DEF Shown
  <2>4. v.names[9] = "" /\ v.delta[9] = NoPtr /\ v.sizes[9] = 0
    BY <1>17, <2>3 DEF Width, Delta
  <2> QED
    BY <1>18, <2>1, <2>3, <2>4
<1>20. ASSUME NEW f \in 1..31, NEW k \in 1..30, z[f] = t[k][1]
       PROVE  /\ v.names[f] = t[k][1] /\ v.sizes[f] = t[k][2] /\ v.delta[f] = g[k-1]
              /\ v.delta[f] \in Nat /\ v.delta[f] < v.size /\ v.sizes[f] \in Nat /\ g[k] = v.delta[f] + v.sizes[f]
              /\ \E m \in IMAGE_OPTIONAL_HEADER64Members : v.names[f] = m[1] /\ v.sizes[f] = m[2]
  <2>1. z[f] # ""
    BY <1>10, <1>20
  <2>2. v.names[f] = t[k][1] /\ v.sizes[f] = t[k][2] /\ v.delta[f] = SizeOfMembers(t, k - 1)
    <3>1. IsField(v, f, t, k)
      BY <1>6, <1>15, <1>16, <1>20, <2>1, FieldIs
    <3> QED
      BY <3>1 DEF IsField
  <2>3. k - 1 \in 0..30 /\ k - 1 < 30 /\ 30 \in 0..30
    OBVIOUS
  <2>4. g[k-1] \in Nat /\ g[k-1] < g[30] /\ g[k] = g[k-1] + t[k][2]
    BY <1>18, <2>3 DEF Offsets
  <2> QED
    BY <1>10, <1>18, <1>19, <2>2, <2>3, <2>4
<1>21. \A f \in 1..8 : z[f] = t[f][1] /\ f \in 1..31 /\ f \in 1..30
  <2>1. \A f \in 1..8 : f \in 1..31 /\ f \in 1..30
    OBVIOUS
  <2> QED
    BY <1>17, <2>1
<1>22. \A f \in 10..31 : z[f] = t[f-1][1] /\ f \in 1..31 /\ f - 1 \in 1..30
  <2>1. \A f \in 10..31 : f \in 1..31 /\ f - 1 \in 1..30
    OBVIOUS
  <2> QED
    BY <1>17, <2>1
<1>23. ASSUME NEW f \in 1..31, f # 9
       PROVE  /\ v.delta[f] \in Nat /\ v.delta[f] < v.size /\ v.sizes[f] \in Nat
              /\ \E m \in IMAGE_OPTIONAL_HEADER64Members : v.names[f] = m[1] /\ v.sizes[f] = m[2]
  <2>1. f \in 1..8 \/ f \in 10..31
    BY <1>23
  <2>2. PICK k \in 1..30 : z[f] = t[k][1]
    BY <1>21, <1>22, <2>1
  <2> QED
    BY <1>20, <2>2
<1>24. ASSUME NEW f \in 1..30, f \notin {8, 9}
       PROVE  v.delta[f+1] = v.delta[f] + v.sizes[f]
  <2>1. CASE f \in 1..7
    <3>1. f \in 1..8 /\ f + 1 \in 1..8 /\ (f + 1) - 1 = f
      BY <2>1
    <3>2. g[f] = v.delta[f] + v.sizes[f]
      BY <1>20, <1>21, <3>1
    <3>3. v.delta[f+1] = g[(f+1)-1]
      BY <1>20, <1>21, <3>1
    <3> QED
      BY <3>1, <3>2, <3>3
  <2>2. CASE f \in 10..30
    <3>1. f \in 10..31 /\ f + 1 \in 10..31 /\ (f + 1) - 1 = f
      BY <2>2
    <3>2. g[f-1] = v.delta[f] + v.sizes[f]
      BY <1>20, <1>22, <3>1
    <3>3. f \in 1..30 /\ z[f+1] = t[f][1] /\ f + 1 \in 1..31
      BY <1>22, <3>1
    <3>4. v.delta[f+1] = g[f-1]
      BY <1>20, <3>3
    <3> QED
      BY <3>2, <3>4
  <2> QED
    BY <1>24, <2>1, <2>2
<1>25. v.delta[31] + v.sizes[31] = v.size
  <2>1. 31 \in 10..31 /\ 31 - 1 = 30
    OBVIOUS
  <2>2. g[31 - 1] = v.delta[31] + v.sizes[31]
    BY <1>20, <1>22, <2>1
  <2> QED
    BY <1>19, <2>1, <2>2
<1>26. v.names[8] = "BaseOfCode"
  <2>1. 8 \in 1..8
    OBVIOUS
  <2> QED
    BY <1>17, <1>20, <1>21, <2>1
<1>27. v.size \in Nat
  <2>1. 30 \in 0..30
    OBVIOUS
  <2>2. g[30] \in Nat
    BY <1>18, <2>1 DEF Offsets
  <2> QED
    BY <1>19, <2>2
<1> QED
  BY <1>1, <1>19, <1>23, <1>24, <1>25, <1>26, <1>27

\* "Signature" is the time stamp behind "Offset", which no field shows.
LEMMA NB10View ==
    ASSUME NEW b \in Modes
    PROVE  LET v == Views[b]["NB10"] IN
           /\ Len(v.names) = 4 /\ DOMAIN v.names = 1..4 /\ DOMAIN v.delta = 1..4 /\ v.size = 17
           /\ v.delta[1] = 0 /\ v.delta[2] = 8 /\ v.delta[3] = 12 /\ v.delta[4] = 16
           /\ v.sizes[1] = 4 /\ v.sizes[2] = 4 /\ v.sizes[3] = 4 /\ v.sizes[4] = 1
<1> DEFINE s == DEBUG_NB10
           T == {"CvSignature", "Signature", "Age", "PdbFileName"}
<1>1. PICK v : v = Views[b]["NB10"] /\ v = View("NB10", b)
  BY ViewIs DEF Wrappers, CodeViews
<1>2. View("NB10", b) = Shows(s, CVFieldID.NB10, CVFieldPtr.NB10)
  BY DEF View
<1>3. CVFieldPtr.NB10 = OffsetsIn(s, CVFieldID.NB10)
  BY DEF CVFieldPtr
<1>4. PICK names : names = <<"CvSignature", "Signature", "Age", "PdbFileName">> /\ names = CVFieldID.NB10
  BY DEF CVFieldID
<1>5. Named(names, 4, T)
  BY <1>4 DEF Named
<1>6. Row(names, 4, T)
  BY <1>5 DEF Named, Row
<1>7. ShowsOf(v, s, names)
  BY <1>1, <1>2, <1>3, <1>4 DEF ShowsOf
<1>8. Struct(s, 5, DEBUG_NB10Members) /\ Row(s, 5, DEBUG_NB10Members)
  BY DEBUG_NB10Struct DEF Struct
<1>9. /\ s[1] = <<"CvSignature", 4>> /\ s[2] = <<"Offset", 4>> /\ s[3] = <<"Signature", 4>> /\ s[4] = <<"Age", 4>>
      /\ s[5] = <<"PdbFileName", 1>>
  BY DEF DEBUG_NB10, Of
<1>10. names[1] = "CvSignature" /\ names[2] = "Signature" /\ names[3] = "Age" /\ names[4] = "PdbFileName"
  BY <1>4
<1> HIDE DEF s, T
<1>11. PICK g : Offsets(g, s, 5) /\ \A k \in 0..5 : SizeOfMembers(s, k) = g[k]
  BY <1>8, OffsetsOf
<1>12. g[0] = 0 /\ g[1] = 4 /\ g[2] = 8 /\ g[3] = 12 /\ g[4] = 16 /\ g[5] = 17
  <2>1. g[0] = 0 /\ \A k \in 1..5 : g[k] = g[k-1] + s[k][2]
    BY <1>11 DEF Offsets
  <2>2. /\ g[1] = g[0] + 4 /\ g[2] = g[1] + 4 /\ g[3] = g[2] + 4 /\ g[4] = g[3] + 4 /\ g[5] = g[4] + 1
    BY <1>9, <2>1
  <2> QED
    BY <2>1, <2>2
<1>13. /\ Len(v.names) = 4 /\ DOMAIN v.names = 1..4 /\ DOMAIN v.delta = 1..4 /\ v.size = SizeOfMembers(s, 5)
  <2>1. Shown(v, s, 5, names, 4)
    BY <1>6, <1>7, <1>8, ShowsSame
  <2> QED
    BY <2>1 DEF Shown
<1>14. ASSUME NEW f \in 1..4, NEW k \in 1..5, names[f] = s[k][1], names[f] # ""
       PROVE  v.sizes[f] = s[k][2] /\ v.delta[f] = g[k-1]
  <2>1. v.sizes[f] = s[k][2] /\ v.delta[f] = SizeOfMembers(s, k - 1)
    <3>1. IsField(v, f, s, k)
      BY <1>6, <1>7, <1>8, <1>14, FieldIs
    <3> QED
      BY <3>1 DEF IsField
  <2>2. k - 1 \in 0..5
    OBVIOUS
  <2> QED
    BY <1>11, <2>1, <2>2
<1>15. v.sizes[1] = 4 /\ v.delta[1] = g[1-1]
  <2>1. names[1] = s[1][1] /\ names[1] # "" /\ 1 \in 1..4 /\ 1 \in 1..5 /\ s[1][2] = 4
    BY <1>9, <1>10
  <2> QED
    BY <1>14, <2>1
<1>16. v.sizes[2] = 4 /\ v.delta[2] = g[3-1]
  <2>1. names[2] = s[3][1] /\ names[2] # "" /\ 2 \in 1..4 /\ 3 \in 1..5 /\ s[3][2] = 4
    BY <1>9, <1>10
  <2> QED
    BY <1>14, <2>1
<1>17. v.sizes[3] = 4 /\ v.delta[3] = g[4-1]
  <2>1. names[3] = s[4][1] /\ names[3] # "" /\ 3 \in 1..4 /\ 4 \in 1..5 /\ s[4][2] = 4
    BY <1>9, <1>10
  <2> QED
    BY <1>14, <2>1
<1>18. v.sizes[4] = 1 /\ v.delta[4] = g[5-1]
  <2>1. names[4] = s[5][1] /\ names[4] # "" /\ 4 \in 1..4 /\ 5 \in 1..5 /\ s[5][2] = 1
    BY <1>9, <1>10
  <2> QED
    BY <1>14, <2>1
<1>19. v.size = 17
  BY <1>11, <1>12, <1>13
<1> QED
  BY <1>1, <1>12, <1>13, <1>15, <1>16, <1>17, <1>18, <1>19

Is(m, name, size) == m[1] = name /\ m[2] = size

LEMMA MembersOf ==
    ASSUME NEW names, NEW n, NEW T, Row(names, n, T), NEW size
    PROVE  Row(Of(size, names), n, Sized(T, size)) /\ \A i \in 1..n : Is(Of(size, names)[i], names[i], size)
<1>1. n \in Nat /\ Len(names) = n /\ \A i \in 1..n : names[i] \in T
  BY DEF Row
<1>2. PICK s : s = Of(size, names)
  OBVIOUS
<1>3. s \in [1..n -> Sized(T, size)] /\ \A i \in 1..n : s[i] = <<names[i], size>>
  BY <1>1, <1>2 DEF Of, Sized
<1>4. s \in Seq(Sized(T, size)) /\ Len(s) = n
  BY <1>1, <1>3
<1>5. \A i \in 1..n : Is(s[i], names[i], size)
  BY <1>3 DEF Is
<1> QED
  BY <1>1, <1>2, <1>4, <1>5 DEF Row

\* The certificate is followed by padding, which has no name.
LEMMA WIN_CERTIFICATEIs ==
    ASSUME NEW s, s = WIN_CERTIFICATE
    PROVE  /\ \E M : Row(s, 7, M)
           /\ Is(s[1], "dwLength", 4) /\ Is(s[2], "wRevision", 2) /\ Is(s[3], "wCertificateType", 2)
           /\ Is(s[4], "bCertificate", 1) /\ Is(s[5], "", 1) /\ Is(s[6], "", 1) /\ Is(s[7], "", 1)
<1> DEFINE N1 == <<"dwLength">>
           N2 == <<"wRevision", "wCertificateType">>
           N3 == <<"bCertificate", "", "", "">>
           A == Of(4, N1)
           B == Of(2, N2)
           C == Of(1, N3)
<1>1. Row(N1, 1, {"dwLength"}) /\ Row(N2, 2, {"wRevision", "wCertificateType"}) /\ Row(N3, 4, {"bCertificate", ""})
  BY DEF Row
<1>2. /\ N1[1] = "dwLength" /\ N2[1] = "wRevision" /\ N2[2] = "wCertificateType"
      /\ N3[1] = "bCertificate" /\ N3[2] = "" /\ N3[3] = "" /\ N3[4] = ""
  OBVIOUS
<1>3. s = (A \o B) \o C
  BY DEF WIN_CERTIFICATE
<1> HIDE DEF N1, N2, N3
<1>4. PICK K : Row(A, 1, K) /\ \A i \in 1..1 : Is(A[i], N1[i], 4)
  BY <1>1, MembersOf
<1>5. PICK L : Row(B, 2, L) /\ \A i \in 1..2 : Is(B[i], N2[i], 2)
  BY <1>1, MembersOf
<1>6. PICK M : Row(C, 4, M) /\ \A i \in 1..4 : Is(C[i], N3[i], 1)
  BY <1>1, MembersOf
<1> HIDE DEF A, B, C
<1>7. PICK u : IsJoin(u, A, B) /\ IsJoin(s, u, C)
  BY <1>3 DEF IsJoin
<1>8. Joined(u, A, 1, K, B, 2, L)
  BY <1>4, <1>5, <1>7, RowJoined
<1>9. Row(u, 3, K \cup L) /\ (\A i \in 1..1 : u[i] = A[i]) /\ (\A i \in 1..2 : u[1+i] = B[i])
  BY <1>8 DEF Joined
<1>10. Joined(s, u, 3, K \cup L, C, 4, M)
  BY <1>6, <1>7, <1>9, RowJoined
<1>11. /\ Row(s, 7, (K \cup L) \cup M)
       /\ (\A i \in 1..3 : s[i] = u[i]) /\ (\A i \in 1..4 : s[3+i] = C[i])
  BY <1>10 DEF Joined
<1>12. u[1] = A[1] /\ u[2] = B[1] /\ u[3] = B[2]
  <2>1. u[1] = A[1] /\ u[1+1] = B[1] /\ u[1+2] = B[2]
    BY <1>9
  <2> QED
    BY <2>1
<1>13. s[1] = A[1] /\ s[2] = B[1] /\ s[3] = B[2] /\ s[4] = C[1] /\ s[5] = C[2] /\ s[6] = C[3] /\ s[7] = C[4]
  <2>1. s[1] = u[1] /\ s[2] = u[2] /\ s[3] = u[3] /\ s[3+1] = C[1] /\ s[3+2] = C[2] /\ s[3+3] = C[3] /\ s[3+4] = C[4]
    BY <1>11
  <2> QED
    BY <1>12, <2>1
<1>14. /\ Is(A[1], N1[1], 4) /\ Is(B[1], N2[1], 2) /\ Is(B[2], N2[2], 2)
       /\ Is(C[1], N3[1], 1) /\ Is(C[2], N3[2], 1) /\ Is(C[3], N3[3], 1) /\ Is(C[4], N3[4], 1)
  <2>1. 1 \in 1..1 /\ 1 \in 1..2 /\ 2 \in 1..2 /\ 1 \in 1..4 /\ 2 \in 1..4 /\ 3 \in 1..4 /\ 4 \in 1..4
    OBVIOUS
  <2> QED
    BY <1>4, <1>5, <1>6, <2>1
<1> QED
  BY <1>2, <1>11, <1>13, <1>14

LEMMA SecurityView ==
    ASSUME NEW b \in Modes
    PROVE  LET v == Views[b]["Security"] IN
           /\ Len(v.names) = 4 /\ DOMAIN v.names = 1..4 /\ DOMAIN v.delta = 1..4 /\ v.size = 12
           /\ v.delta[1] = 0 /\ v.delta[2] = 4 /\ v.delta[3] = 6 /\ v.delta[4] = 8
           /\ v.sizes[1] = 4 /\ v.sizes[2] = 2 /\ v.sizes[3] = 2 /\ v.sizes[4] = 1
<1> DEFINE T == {"dwLength", "wRevision", "wCertificateType", "bCertificate"}
<1>s. PICK s : s = WIN_CERTIFICATE
  OBVIOUS
<1>1. PICK v : v = Views[b]["Security"] /\ v = View("Security", b)
  BY ViewIs DEF Wrappers, Directories
<1>2. View("Security", b) = Shows(s, SecurityDirFID, SecurityFieldPtr)
  BY <1>s DEF View
<1>3. SecurityFieldPtr = OffsetsIn(s, SecurityDirFID)
  BY <1>s DEF SecurityFieldPtr
<1>4. PICK names : names = <<"dwLength", "wRevision", "wCertificateType", "bCertificate">> /\ names = SecurityDirFID
  BY DEF SecurityDirFID
<1>5. Row(names, 4, T)
  BY <1>4 DEF Row
<1>6. ShowsOf(v, s, names)
  BY <1>1, <1>2, <1>3, <1>4 DEF ShowsOf
<1>7. PICK M : Row(s, 7, M)
  BY <1>s, WIN_CERTIFICATEIs
<1>8. /\ Is(s[1], "dwLength", 4) /\ Is(s[2], "wRevision", 2) /\ Is(s[3], "wCertificateType", 2)
      /\ Is(s[4], "bCertificate", 1) /\ Is(s[5], "", 1) /\ Is(s[6], "", 1) /\ Is(s[7], "", 1)
  BY <1>s, WIN_CERTIFICATEIs
<1>9. names[1] = "dwLength" /\ names[2] = "wRevision" /\ names[3] = "wCertificateType" /\ names[4] = "bCertificate"
  BY <1>4
<1> HIDE DEF T
<1>10. /\ s[1][1] = "dwLength" /\ s[2][1] = "wRevision" /\ s[3][1] = "wCertificateType"
       /\ s[4][1] = "bCertificate" /\ s[5][1] = "" /\ s[6][1] = "" /\ s[7][1] = ""
  BY <1>8 DEF Is
<1>11. /\ s[1][2] = 4 /\ s[2][2] = 2 /\ s[3][2] = 2 /\ s[4][2] = 1 /\ s[5][2] = 1 /\ s[6][2] = 1 /\ s[7][2] = 1
  BY <1>8 DEF Is
<1>12. \A i \in 1..7 : i = 1 \/ i = 2 \/ i = 3 \/ i = 4 \/ i = 5 \/ i = 6 \/ i = 7
  OBVIOUS
<1>13. \A i \in 1..7 : s[i][2] \in Nat
  BY <1>11, <1>12
<1>14. /\ OwnName(s, 7, 1, "dwLength") /\ OwnName(s, 7, 2, "wRevision") /\ OwnName(s, 7, 3, "wCertificateType")
       /\ OwnName(s, 7, 4, "bCertificate")
  BY <1>10, <1>12 DEF OwnName
<1> DEFINE g == [k \in 0..7 |-> SizeOfMembers(s, k)]
<1>15. ASSUME NEW k \in 0..6
       PROVE  g[0] = 0 /\ g[k] \in Nat /\ g[k+1] = g[k] + s[k+1][2]
  <2>1. k \in Nat /\ \A i \in 1..k+1 : s[i][2] \in Nat
    BY <1>13
  <2>2. /\ SizeOfMembers(s, 0) = 0 /\ SizeOfMembers(s, k) \in Nat
        /\ SizeOfMembers(s, k + 1) = SizeOfMembers(s, k) + s[k+1][2]
    BY <2>1, SumNext
  <2> QED
    BY <2>2
<1>16. \A k \in 0..7 : SizeOfMembers(s, k) = g[k]
  OBVIOUS
<1> HIDE DEF g
<1>17. g[0] = 0 /\ g[1] = 4 /\ g[2] = 6 /\ g[3] = 8 /\ g[7] = 12
  <2>1. /\ g[0+1] = g[0] + s[0+1][2] /\ g[1+1] = g[1] + s[1+1][2] /\ g[2+1] = g[2] + s[2+1][2] /\ g[3+1] = g[3] + s[3+1][2]
        /\ g[4+1] = g[4] + s[4+1][2] /\ g[5+1] = g[5] + s[5+1][2] /\ g[6+1] = g[6] + s[6+1][2] /\ g[0] = 0
    BY <1>15
  <2>2. g[1] = 4 /\ g[2] = g[1] + 2 /\ g[3] = g[2] + 2 /\ g[4] = g[3] + 1 /\ g[5] = g[4] + 1 /\ g[6] = g[5] + 1 /\ g[7] = g[6] + 1
    BY <1>11, <2>1
  <2> QED
    BY <2>1, <2>2
<1>18. Shown(v, s, 7, names, 4)
  BY <1>5, <1>6, <1>7, ShowsSame
<1>19. /\ Len(v.names) = 4 /\ DOMAIN v.names = 1..4 /\ DOMAIN v.delta = 1..4 /\ v.size = SizeOfMembers(s, 7)
  BY <1>18 DEF Shown
<1>20. IsField(v, 1, s, 1) /\ IsField(v, 2, s, 2) /\ IsField(v, 3, s, 3) /\ IsField(v, 4, s, 4)
  <2>1. 1 \in 1..4 /\ 1 \in 1..7 /\ 2 \in 1..4 /\ 2 \in 1..7 /\ 3 \in 1..4 /\ 3 \in 1..7 /\ 4 \in 1..4 /\ 4 \in 1..7
    OBVIOUS
  <2>2. names[1] # "" /\ names[2] # "" /\ names[3] # "" /\ names[4] # ""
    BY <1>9
  <2>3. /\ OwnName(s, 7, 1, names[1]) /\ OwnName(s, 7, 2, names[2]) /\ OwnName(s, 7, 3, names[3])
        /\ OwnName(s, 7, 4, names[4])
    BY <1>9, <1>14
  <2>4. IsField(v, 1, s, 1)
    BY <1>7, <1>18, <2>1, <2>2, <2>3, FieldAt
  <2>5. IsField(v, 2, s, 2)
    BY <1>7, <1>18, <2>1, <2>2, <2>3, FieldAt
  <2>6. IsField(v, 3, s, 3)
    BY <1>7, <1>18, <2>1, <2>2, <2>3, FieldAt
  <2>7. IsField(v, 4, s, 4)
    BY <1>7, <1>18, <2>1, <2>2, <2>3, FieldAt
  <2> QED
    BY <2>4, <2>5, <2>6, <2>7
<1>21. /\ v.sizes[1] = 4 /\ v.sizes[2] = 2 /\ v.sizes[3] = 2 /\ v.sizes[4] = 1
  BY <1>11, <1>20 DEF IsField
<1>22. /\ v.delta[1] = g[1-1] /\ v.delta[2] = g[2-1] /\ v.delta[3] = g[3-1] /\ v.delta[4] = g[4-1]
  BY <1>16, <1>20 DEF IsField
<1>23. v.size = 12
  BY <1>16, <1>17, <1>19
<1> QED
  BY <1>1, <1>17, <1>19, <1>21, <1>22, <1>23

-----------------------------------------------------------------------------
(* Fields that hold addresses *)

\* How wide the address in a field has to be.
AddrSize(w, name, b) ==
    CASE AddrType[w][name] = "VA" -> Wide(b)
      [] w = "Dos" /\ name = "e_lfarlc" -> 2
      [] OTHER -> 4

AddrFit(M, w, b) ==
    w \in DOMAIN AddrType => \A m \in M : m[1] \in DOMAIN AddrType[w] => m[2] = AddrSize(w, m[1], b)

LEMMA AddrFitRVA ==
    ASSUME NEW w, NEW M, NEW b, NEW S, NEW type \in {"RVA", "RAW"}, w # "Dos", AddrType[w] = All(type, S),
           \A m \in M : m[1] \in S => m[2] = 4
    PROVE  AddrFit(M, w, b)
<1>1. DOMAIN AddrType[w] = S /\ \A name \in S : AddrType[w][name] = type
  BY DEF All
<1> QED
  BY <1>1 DEF AddrFit, AddrSize

LEMMA AddrFitVA ==
    ASSUME NEW w, NEW M, NEW b, NEW S, w # "Dos", AddrType[w] = All("VA", S),
           \A m \in M : m[1] \in S => m[2] = Wide(b)
    PROVE  AddrFit(M, w, b)
<1>1. DOMAIN AddrType[w] = S /\ \A name \in S : AddrType[w][name] = "VA"
  BY DEF All
<1> QED
  BY <1>1 DEF AddrFit, AddrSize

LEMMA AddrFitNone ==
    ASSUME NEW w, NEW M, NEW b, w \in {"File", "Security", "Bound", "RSDS", "NB10"}
    PROVE  AddrFit(M, w, b)
  BY DEF AddrFit, AddrType

LEMMA ExportAddr ==
    ASSUME NEW b \in Modes
    PROVE  AddrFit(IMAGE_EXPORT_DIRECTORYMembers, "Export", b)
<1> DEFINE S == {"Name", "AddressOfFunctions", "AddressOfNames", "AddressOfNameOrdinals"}
<1>1. AddrType["Export"] = All("RVA", S)
  BY DEF AddrType, ExportAddrType
<1>2. \A m \in IMAGE_EXPORT_DIRECTORYMembers : m[1] \in S => m[2] = 4
  BY DEF IMAGE_EXPORT_DIRECTORYMembers, Sized
<1> HIDE DEF S
<1> QED
  BY <1>1, <1>2, AddrFitRVA

LEMMA ImportAddr ==
    ASSUME NEW b \in Modes
    PROVE  AddrFit(IMAGE_IMPORT_DESCRIPTORMembers, "Import", b)
<1> DEFINE S == {"OriginalFirstThunk", "Name", "FirstThunk"}
<1>1. AddrType["Import"] = All("RVA", S)
  BY DEF AddrType, ImportAddrType
<1>2. \A m \in IMAGE_IMPORT_DESCRIPTORMembers : m[1] \in S => m[2] = 4
  BY DEF IMAGE_IMPORT_DESCRIPTORMembers, Sized
<1> HIDE DEF S
<1> QED
  BY <1>1, <1>2, AddrFitRVA

LEMMA ExceptionAddr ==
    ASSUME NEW b \in Modes
    PROVE  AddrFit(IMAGE_IA64_RUNTIME_FUNCTION_ENTRYMembers, "Exception", b)
<1> DEFINE S == {"BeginAddress", "EndAddress", "UnwindInfoAddress"}
<1>1. AddrType["Exception"] = All("RVA", S)
  BY DEF AddrType, ExceptionAddrType
<1>2. \A m \in IMAGE_IA64_RUNTIME_FUNCTION_ENTRYMembers : m[1] \in S => m[2] = 4
  BY DEF IMAGE_IA64_RUNTIME_FUNCTION_ENTRYMembers, Sized
<1> HIDE DEF S
<1> QED
  BY <1>1, <1>2, AddrFitRVA

LEMMA ArmExceptionAddr ==
    ASSUME NEW b \in Modes
    PROVE  AddrFit(ARM_EXCEPT_RECORDMembers, "ArmException", b)
<1> DEFINE S == {"Start", "Xdata"}
<1>1. AddrType["ArmException"] = All("RVA", S)
  BY DEF AddrType, ExceptionAddrType
<1>2. \A m \in ARM_EXCEPT_RECORDMembers : m[1] \in S => m[2] = 4
  BY DEF ARM_EXCEPT_RECORDMembers, Sized
<1> HIDE DEF S
<1> QED
  BY <1>1, <1>2, AddrFitRVA

LEMMA DelayAddr ==
    ASSUME NEW b \in Modes
    PROVE  AddrFit(IMAGE_DELAY_LOADMembers, "Delay", b)
<1> DEFINE S == {"szName", "phmod", "pIAT", "pINT", "pBoundIAT", "pUnloadIAT"}
<1>1. AddrType["Delay"] = All("RVA", S)
  BY DEF AddrType, DelayAddrType
<1>2. \A m \in IMAGE_DELAY_LOADMembers : m[1] \in S => m[2] = 4
  BY DEF IMAGE_DELAY_LOADMembers, Sized
<1> HIDE DEF S
<1> QED
  BY <1>1, <1>2, AddrFitRVA

LEMMA CLRAddr ==
    ASSUME NEW b \in Modes
    PROVE  AddrFit(IMAGE_COR20_HEADERMembers, "CLR", b)
<1> DEFINE S == {"MetaData.VirtualAddress", "Resources.VirtualAddress", "StrongNameSignature.VirtualAddress",
                 "CodeManagerTable.VirtualAddress", "VTableFixups.VirtualAddress",
                 "ExportAddressTableJumps.VirtualAddress", "ManagedNativeHeader.VirtualAddress"}
<1>1. AddrType["CLR"] = All("RVA", S)
  BY DEF AddrType, ClrAddrType
<1>2. \A m \in IMAGE_COR20_HEADERMembers : m[1] \in S => m[2] = 4
  BY DEF IMAGE_COR20_HEADERMembers, Sized
<1> HIDE DEF S
<1> QED
  BY <1>1, <1>2, AddrFitRVA

LEMMA TLSAddr ==
    ASSUME NEW b \in Modes
    PROVE  AddrFit(IMAGE_TLS_DIRECTORYMembers(b), "TLS", b)
<1> DEFINE S == {"StartAddressOfRawData", "EndAddressOfRawData", "AddressOfIndex", "AddressOfCallBacks"}
<1>1. AddrType["TLS"] = All("VA", S)
  BY DEF AddrType, TlsAddrType
<1>2. \A m \in IMAGE_TLS_DIRECTORYMembers(b) : m[1] \in S => m[2] = Wide(b)
  BY DEF IMAGE_TLS_DIRECTORYMembers, Sized
<1> HIDE DEF S
<1> QED
  BY <1>1, <1>2, AddrFitVA

LEMMA DosAddr ==
    ASSUME NEW b \in Modes
    PROVE  AddrFit(IMAGE_DOS_HEADERMembers, "Dos", b)
<1>1. AddrType["Dos"] = All("RAW", {"e_lfarlc", "e_lfanew"})
  BY DEF AddrType, DosHdrAddrType
<1>2. /\ DOMAIN AddrType["Dos"] = {"e_lfarlc", "e_lfanew"}
      /\ \A name \in {"e_lfarlc", "e_lfanew"} : AddrType["Dos"][name] = "RAW"
  BY <1>1 DEF All
<1>3. AddrSize("Dos", "e_lfarlc", b) = 2 /\ AddrSize("Dos", "e_lfanew", b) = 4
  BY <1>2 DEF AddrSize
<1>4. \A m \in IMAGE_DOS_HEADERMembers : (m[1] = "e_lfarlc" => m[2] = 2) /\ (m[1] = "e_lfanew" => m[2] = 4)
  BY DEF IMAGE_DOS_HEADERMembers, Sized
<1> QED
  BY <1>2, <1>3, <1>4 DEF AddrFit

LEMMA DebugAddr ==
    ASSUME NEW b \in Modes
    PROVE  AddrFit(IMAGE_DEBUG_DIRECTORYMembers, "Debug", b)
<1>1. AddrType["Debug"] = DebugAddrType
  BY DEF AddrType
<1>2. /\ DOMAIN DebugAddrType = {"AddressOfRawData", "PointerToRawData"}
      /\ DebugAddrType["AddressOfRawData"] = "RVA" /\ DebugAddrType["PointerToRawData"] = "RAW"
  BY DEF DebugAddrType
<1>3. \A m \in IMAGE_DEBUG_DIRECTORYMembers : m[1] \in {"AddressOfRawData", "PointerToRawData"} => m[2] = 4
  BY DEF IMAGE_DEBUG_DIRECTORYMembers, Sized
<1> QED
  BY <1>1, <1>2, <1>3 DEF AddrFit, AddrSize

LEMMA OptionalAddr ==
    /\ AddrFit(IMAGE_OPTIONAL_HEADER32Members, "Optional", 32)
    /\ AddrFit(IMAGE_OPTIONAL_HEADER64Members, "Optional", 64)
<1> DEFINE S == {"AddressOfEntryPoint", "BaseOfCode", "BaseOfData", "ImageBase"}
           P == {"AddressOfEntryPoint", "BaseOfCode", "BaseOfData"}
<1>1. AddrType["Optional"] = OptHdrAddrType
  BY DEF AddrType
<1>2. /\ DOMAIN OptHdrAddrType = S /\ OptHdrAddrType["ImageBase"] = "VA"
      /\ \A name \in P : OptHdrAddrType[name] = "RVA"
  BY DEF OptHdrAddrType
<1>3. \A m \in OptionalBeginMembers : m[1] # "ImageBase" /\ (m[1] \in P => m[2] = 4)
  BY DEF OptionalBeginMembers, Sized
<1>4. \A m \in OptionalMiddleMembers : m[1] \notin S
  BY DEF OptionalMiddleMembers, Sized
<1>5. \A m \in OptionalEndMembers : m[1] \notin S
  BY DEF OptionalEndMembers, Sized
<1>6. \A m \in IMAGE_OPTIONAL_HEADER32Members : m[1] \in S => m[2] = 4
  BY <1>3, <1>4, <1>5 DEF IMAGE_OPTIONAL_HEADER32Members, Sized
<1>7. \A m \in IMAGE_OPTIONAL_HEADER64Members : (m[1] \in P => m[2] = 4) /\ (m[1] = "ImageBase" => m[2] = 8)
  BY <1>3, <1>4, <1>5 DEF IMAGE_OPTIONAL_HEADER64Members, Sized
<1>8. /\ AddrSize("Optional", "ImageBase", 32) = 4 /\ AddrSize("Optional", "ImageBase", 64) = 8
      /\ \A name \in P : AddrSize("Optional", name, 32) = 4 /\ AddrSize("Optional", name, 64) = 4
  BY <1>1, <1>2 DEF AddrSize, Wide
<1>9. \A x : x \in S <=> x \in P \/ x = "ImageBase"
  OBVIOUS
<1> HIDE DEF S, P
<1> QED
  BY <1>1, <1>2, <1>6, <1>7, <1>8, <1>9 DEF AddrFit

LEMMA LdConfigAddr ==
    ASSUME NEW b \in Modes
    PROVE  AddrFit(IMAGE_LOAD_CONFIG_DIRECTORYMembers(b), "LdConfig", b)
<1> DEFINE S == {"LockPrefixTable", "EditList", "SecurityCookie", "SEHandlerTable", "GuardCFCheckFunctionPointer",
                 "GuardCFDispatchFunctionPointer", "GuardCFFunctionTable", "GuardAddressTakenIatEntryTable",
                 "GuardLongJumpTargetTable", "DynamicValueRelocTable", "GuardRFFailureRoutine",
                 "GuardRFFailureRoutineFunctionPointer", "GuardRFVerifyStackPointerFunctionPointer",
                 "EnclaveConfigurationPointer", "VolatileMetadataPointer", "GuardEHContinuationTable"}
<1>1. AddrType["LdConfig"] = All("VA", S)
  BY DEF AddrType, LdConfigAddrType
<1>2. \A m \in LoadConfigBeginMembers : m[1] \notin S
  BY DEF LoadConfigBeginMembers, Sized
<1>3. \A m \in LoadConfigEndMembers(b) : m[1] \in S => m[2] = Wide(b)
  BY DEF LoadConfigEndMembers, Sized
<1>4. CASE b = 32
  <2>1. \A m \in IMAGE_LOAD_CONFIG_DIRECTORY32Members : m[1] \in S => m[2] = Wide(b)
    BY <1>2, <1>3, <1>4 DEF IMAGE_LOAD_CONFIG_DIRECTORY32Members, Sized, Wide
  <2> HIDE DEF S
  <2> QED
    BY <1>1, <1>4, <2>1, AddrFitVA DEF IMAGE_LOAD_CONFIG_DIRECTORYMembers
<1>5. CASE b = 64
  <2>1. \A m \in IMAGE_LOAD_CONFIG_DIRECTORY64Members : m[1] \in S => m[2] = Wide(b)
    BY <1>2, <1>3, <1>5 DEF IMAGE_LOAD_CONFIG_DIRECTORY64Members, Sized, Wide
  <2> HIDE DEF S
  <2> QED
    BY <1>1, <1>5, <2>1, AddrFitVA DEF IMAGE_LOAD_CONFIG_DIRECTORYMembers
<1> QED
  BY <1>4, <1>5 DEF Modes

-----------------------------------------------------------------------------
(* What getFieldSize finds in a view *)

\* The next field begins where this one ends.
Follows(v, f) ==
    /\ v.delta[f] \in Nat /\ v.delta[f] < v.size /\ v.sizes[f] \in Nat
    /\ v.delta[f+1] = v.delta[f] + v.sizes[f] /\ v.delta[f+1] < v.size

\* The last field ends where the structure ends.
Ends(v, n) == v.delta[n] \in Nat /\ v.delta[n] < v.size /\ v.sizes[n] \in Nat /\ v.delta[n] + v.sizes[n] = v.size

\* The fields for which the code has its own rule, or the property an exception.
OwnRule(v, w, b, f) ==
    \/ w = "NB10" /\ f = 1
    \/ w = "Optional" /\ b = 64 /\ v.names[f] \in {"BaseOfCode", ""}

AddrFits(v, w, b, f) ==
    w \in DOMAIN AddrType => (v.names[f] \in DOMAIN AddrType[w] => v.sizes[f] = AddrSize(w, v.names[f], b))

Fits(v, w, b) ==
    /\ Len(v.names) \in Nat \ {0} /\ DOMAIN v.names = 1..Len(v.names) /\ DOMAIN v.delta = 1..Len(v.names)
    /\ v.size \in Nat
    /\ \A f \in 1..Len(v.names) : (v.delta[f] \in Nat \/ v.delta[f] = NoPtr) /\ v.sizes[f] \in Nat
    /\ \A f \in 1..Len(v.names) - 1 : OwnRule(v, w, b, f) \/ Follows(v, f)
    /\ w # "Security" => Ends(v, Len(v.names))
    /\ \A f \in 1..Len(v.names) : AddrFits(v, w, b, f)

LEMMA WholeFits ==
    ASSUME NEW v, NEW n, NEW M, Whole(v, n, M), NEW w, NEW b, AddrFit(M, w, b)
    PROVE  Fits(v, w, b)
<1>1. /\ n \in Nat \ {0} /\ Len(v.names) = n /\ DOMAIN v.names = 1..n /\ DOMAIN v.delta = 1..n
      /\ v.size \in Nat
  BY DEF Whole
<1>2. \A f \in 1..n : v.delta[f] \in Nat /\ v.delta[f] < v.size /\ v.sizes[f] \in Nat
  BY DEF Whole
<1>3. \A f \in 1..n-1 : Follows(v, f)
  <2>1. \A f \in 1..n-1 : f \in 1..n /\ f + 1 \in 1..n /\ v.delta[f+1] = v.delta[f] + v.sizes[f]
    BY <1>1 DEF Whole
  <2> QED
    BY <1>2, <2>1 DEF Follows
<1>4. Ends(v, n)
  <2>1. n \in 1..n /\ v.delta[n] + v.sizes[n] = v.size
    BY <1>1 DEF Whole
  <2> QED
    BY <1>2, <2>1 DEF Ends
<1>5. ASSUME NEW f \in 1..n
      PROVE  AddrFits(v, w, b, f)
  <2>1. PICK m \in M : v.names[f] = m[1] /\ v.sizes[f] = m[2]
    BY DEF Whole
  <2> QED
    BY <2>1 DEF AddrFit, AddrFits
<1> QED
  BY <1>1, <1>2, <1>3, <1>4, <1>5 DEF Fits

LEMMA NB10Fits ==
    ASSUME NEW b \in Modes
    PROVE  Fits(Views[b]["NB10"], "NB10", b)
<1>1. PICK v : v = Views[b]["NB10"]
  OBVIOUS
<1>2. /\ Len(v.names) = 4 /\ DOMAIN v.names = 1..4 /\ DOMAIN v.delta = 1..4 /\ v.size = 17
      /\ v.delta[1] = 0 /\ v.delta[2] = 8 /\ v.delta[3] = 12 /\ v.delta[4] = 16
      /\ v.sizes[1] = 4 /\ v.sizes[2] = 4 /\ v.sizes[3] = 4 /\ v.sizes[4] = 1
  BY <1>1, NB10View
<1>3. \A f \in 1..4 : (f = 1 \/ f = 2 \/ f = 3 \/ f = 4) /\ v.delta[f] \in Nat /\ v.sizes[f] \in Nat
  BY <1>2
<1>4. \A f \in 1..3 : OwnRule(v, "NB10", b, f) \/ Follows(v, f)
  BY <1>2 DEF OwnRule, Follows
<1>5. Ends(v, 4)
  BY <1>2 DEF Ends
<1>6. \A f \in 1..4 : AddrFits(v, "NB10", b, f)
  BY DEF AddrFits, AddrType
<1> QED
  BY <1>1, <1>2, <1>3, <1>4, <1>5, <1>6 DEF Fits

LEMMA SecurityFits ==
    ASSUME NEW b \in Modes
    PROVE  Fits(Views[b]["Security"], "Security", b)
<1>1. PICK v : v = Views[b]["Security"]
  OBVIOUS
<1>2. /\ Len(v.names) = 4 /\ DOMAIN v.names = 1..4 /\ DOMAIN v.delta = 1..4 /\ v.size = 12
      /\ v.delta[1] = 0 /\ v.delta[2] = 4 /\ v.delta[3] = 6 /\ v.delta[4] = 8
      /\ v.sizes[1] = 4 /\ v.sizes[2] = 2 /\ v.sizes[3] = 2 /\ v.sizes[4] = 1
  BY <1>1, SecurityView
<1>3. \A f \in 1..4 : (f = 1 \/ f = 2 \/ f = 3 \/ f = 4) /\ v.delta[f] \in Nat /\ v.sizes[f] \in Nat
  BY <1>2
<1>4. \A f \in 1..3 : Follows(v, f)
  BY <1>2 DEF Follows
<1>5. \A f \in 1..4 : AddrFits(v, "Security", b, f)
  BY DEF AddrFits, AddrType
<1> QED
  BY <1>1, <1>2, <1>3, <1>4, <1>5 DEF Fits

LEMMA Optional64Fits == Fits(Views[64]["Optional"], "Optional", 64)
<1>1. PICK v : v = Views[64]["Optional"]
  OBVIOUS
<1>2. /\ Len(v.names) = 31 /\ DOMAIN v.names = 1..31 /\ DOMAIN v.delta = 1..31 /\ v.size \in Nat
      /\ v.names[8] = "BaseOfCode" /\ v.names[9] = "" /\ v.delta[9] = NoPtr /\ v.sizes[9] = 0
      /\ \A f \in 1..31 : f # 9 =>
            /\ v.delta[f] \in Nat /\ v.delta[f] < v.size /\ v.sizes[f] \in Nat
            /\ \E m \in IMAGE_OPTIONAL_HEADER64Members : v.names[f] = m[1] /\ v.sizes[f] = m[2]
      /\ \A f \in 1..30 : f \notin {8, 9} => v.delta[f+1] = v.delta[f] + v.sizes[f]
      /\ v.delta[31] + v.sizes[31] = v.size
  BY <1>1, Optional64View
<1>3. ASSUME NEW f \in 1..31
      PROVE  (v.delta[f] \in Nat \/ v.delta[f] = NoPtr) /\ v.sizes[f] \in Nat
  <2>1. v.delta[9] = NoPtr /\ v.sizes[9] = 0 /\ \A g \in 1..31 : g # 9 => v.delta[g] \in Nat /\ v.sizes[g] \in Nat
    BY <1>2
  <2>2. CASE f = 9
    BY <2>1, <2>2
  <2>3. CASE f # 9
    BY <2>1, <2>3
  <2> QED
    BY <2>2, <2>3
<1>4. ASSUME NEW f \in 1..30
      PROVE  OwnRule(v, "Optional", 64, f) \/ Follows(v, f)
  <2>1. CASE f = 8 \/ f = 9
    BY <1>2, <2>1 DEF OwnRule
  <2>2. CASE f # 8 /\ f # 9
    <3>1. f \in 1..31 /\ f + 1 \in 1..31 /\ f # 9 /\ f + 1 # 9 /\ f \notin {8, 9}
      BY <2>2
    <3>2. /\ v.delta[f] \in Nat /\ v.delta[f] < v.size /\ v.sizes[f] \in Nat
          /\ v.delta[f+1] < v.size /\ v.delta[f+1] = v.delta[f] + v.sizes[f]
      BY <1>2, <3>1
    <3> QED
      BY <3>2 DEF Follows
  <2> QED
    BY <2>1, <2>2
<1>5. Ends(v, 31)
  <2>1. 31 \in 1..31 /\ 31 # 9
    OBVIOUS
  <2> QED
    BY <1>2, <2>1 DEF Ends
<1>6. "" \notin DOMAIN AddrType["Optional"]
  BY DEF AddrType, OptHdrAddrType
<1>7. ASSUME NEW f \in 1..31
      PROVE  AddrFits(v, "Optional", 64, f)
  <2>1. CASE f = 9
    BY <1>2, <1>6, <2>1 DEF AddrFits
  <2>2. CASE f # 9
    <3>1. PICK m \in IMAGE_OPTIONAL_HEADER64Members : v.names[f] = m[1] /\ v.sizes[f] = m[2]
      BY <1>2, <2>2
    <3> QED
      BY <3>1, OptionalAddr DEF AddrFit, AddrFits
  <2> QED
    BY <2>1, <2>2
<1>8. Len(v.names) = 31 /\ DOMAIN v.names = 1..31 /\ DOMAIN v.delta = 1..31 /\ v.size \in Nat
  BY <1>2
<1>9. \A f \in 1..31 - 1 : OwnRule(v, "Optional", 64, f) \/ Follows(v, f)
  BY <1>4
<1>10. Fits(v, "Optional", 64)
  <2>1. 31 \in Nat \ {0} /\ 31 - 1 = 30
    OBVIOUS
  <2> QED
    BY <1>3, <1>5, <1>7, <1>8, <1>9, <2>1 DEF Fits
<1> QED
  BY <1>1, <1>10

\* In both modes, what every wrapper shows fits the structure it is laid over.
LEMMA EveryViewFits ==
    ASSUME NEW b \in Modes, NEW w \in Wrappers
    PROVE  Fits(Views[b][w], w, b)
<1>1. CASE w = "Dos"
  BY <1>1, DosView, DosAddr, WholeFits
<1>2. CASE w = "File"
  <2>1. AddrFit(IMAGE_FILE_HEADERMembers, "File", b)
    BY AddrFitNone
  <2> QED
    BY <1>2, <2>1, FileView, WholeFits
<1>3. CASE w = "Optional"
  <2>1. Fits(Views[32]["Optional"], "Optional", 32)
    BY Optional32View, OptionalAddr, WholeFits
  <2> QED
    BY <1>3, <2>1, Optional64Fits DEF Modes
<1>4. CASE w = "Export"
  BY <1>4, ExportView, ExportAddr, WholeFits
<1>5. CASE w = "Import"
  BY <1>5, ImportView, ImportAddr, WholeFits
<1>6. CASE w = "Exception"
  BY <1>6, ExceptionView, ExceptionAddr, WholeFits
<1>7. CASE w = "ArmException"
  BY <1>7, ArmExceptionView, ArmExceptionAddr, WholeFits
<1>8. CASE w = "Security"
  BY <1>8, SecurityFits
<1>9. CASE w = "Debug"
  BY <1>9, DebugView, DebugAddr, WholeFits
<1>10. CASE w = "TLS"
  BY <1>10, TLSView, TLSAddr, WholeFits
<1>11. CASE w = "LdConfig"
  BY <1>11, LdConfigView, LdConfigAddr, WholeFits
<1>12. CASE w = "Bound"
  <2>1. AddrFit(IMAGE_BOUND_IMPORT_DESCRIPTORMembers, "Bound", b)
    BY AddrFitNone
  <2> QED
    BY <1>12, <2>1, BoundView, WholeFits
<1>13. CASE w = "Delay"
  BY <1>13, DelayView, DelayAddr, WholeFits
<1>14. CASE w = "CLR"
  BY <1>14, CLRView, CLRAddr, WholeFits
<1>15. CASE w = "RSDS"
  <2>1. AddrFit(DEBUG_RSDSIMembers, "RSDS", b)
    BY AddrFitNone
  <2> QED
    BY <1>15, <2>1, RSDSView, WholeFits
<1>16. CASE w = "NB10"
  BY <1>16, NB10Fits
<1>17. w \in {"Dos", "File", "Optional", "Export", "Import", "Exception", "ArmException", "Security", "Debug",
              "TLS", "LdConfig", "Bound", "Delay", "CLR", "RSDS", "NB10"}
  BY DEF Wrappers, Directories, CodeViews
<1> QED
  BY <1>1, <1>2, <1>3, <1>4, <1>5, <1>6, <1>7, <1>8, <1>9, <1>10, <1>11, <1>12, <1>13, <1>14, <1>15, <1>16, <1>17

-----------------------------------------------------------------------------
(* The file *)

IsFile(f) == /\ f = [bytes |-> f.bytes, len |-> f.len, bits |-> f.bits]
             /\ f.bits \in Modes /\ Content(f)

\* A file as the wrappers see it.
IsSeen(p) == /\ Content(p) /\ p.bits \in Modes /\ p.views = Views[p.bits]
             /\ \A d \in 0..DirEntriesCount-1 : p.dirs[d] \in Nat \/ p.dirs[d] = NoPtr

LEMMA SeenIs ==
    ASSUME NEW f, IsFile(f)
    PROVE  IsSeen(Seen(f))
<1>1. PICK p : p = Laid(f)
  OBVIOUS
<1>2. Content(p) /\ p.bytes = f.bytes /\ p.len = f.len /\ p.bits = f.bits /\ p.views = Views[f.bits]
  BY <1>1 DEF Laid, IsFile, Content
<1>3. \A at : Num(p, at, 4) \in Nat
  BY <1>2, NumNat
<1>4. \A d \in 0..DirEntriesCount-1 : DirAddresses(p)[d] \in Nat \/ DirAddresses(p)[d] = NoPtr
  BY <1>3 DEF DirAddresses
<1>5. Seen(f) = [bytes |-> p.bytes, len |-> p.len, bits |-> p.bits, views |-> p.views, dirs |-> DirAddresses(p)]
  BY <1>1 DEF Seen
<1>6. Seen(f).dirs = DirAddresses(p) /\ Seen(f).bits = f.bits /\ Seen(f).views = Views[f.bits] /\ Content(Seen(f))
  BY <1>2, <1>5 DEF Content
<1>7. f.bits \in Modes
  BY DEF IsFile
<1> HIDE DEF IsFile
<1> QED
  BY <1>4, <1>6, <1>7 DEF IsSeen

LEMMA WrappedIsFile ==
    ASSUME NEW bytes, NEW len \in Nat, \A o \in DOMAIN bytes : bytes[o] \in Nat
    PROVE  IsFile(Wrapped([bytes |-> bytes, len |-> len, bits |-> 32]))
<1>1. PICK f : f = [bytes |-> bytes, len |-> len, bits |-> 32]
  OBVIOUS
<1>2. PICK b : b = HeaderMode(Laid(f)) /\ b \in {32, 64}
  BY DEF HeaderMode
<1>3. Wrapped(f) = [bytes |-> bytes, len |-> len, bits |-> b]
  BY <1>1, <1>2 DEF Wrapped
<1> QED
  BY <1>1, <1>2, <1>3 DEF IsFile, Content, Modes

LEMMA CutBytes ==
    ASSUME NEW bytes, NEW n, \A o \in DOMAIN bytes : bytes[o] \in Nat
    PROVE  \A o \in DOMAIN Cut(bytes, n) : Cut(bytes, n)[o] \in Nat
  BY DEF Cut

LEMMA WrittenBytes ==
    ASSUME NEW bytes, NEW at \in Int, NEW size \in Int, NEW v \in Nat, \A o \in DOMAIN bytes : bytes[o] \in Nat
    PROVE  \A o \in DOMAIN Written(bytes, at, size, v) : Written(bytes, at, size, v)[o] \in Nat
<1>1. \A i \in Nat : Digit(v, i) \in Nat
  <2>1. \A i \in 0..3 : Digit(v, i) \in Nat
    <3>1. \A m \in {1, 256, 65536, 16777216} : (v \div m) % 256 \in Nat
      OBVIOUS
    <3>2. 256^0 = 1 /\ 256^1 = 256 /\ 256^2 = 65536 /\ 256^3 = 16777216
      OBVIOUS
    <3>3. \A i \in 0..3 : i = 0 \/ i = 1 \/ i = 2 \/ i = 3
      OBVIOUS
    <3> QED
      BY <3>1, <3>2, <3>3 DEF Digit
  <2>2. \A i \in Nat : i \in 0..3 \/ i > 3
    OBVIOUS
  <2>3. \A i \in Nat : i > 3 => Digit(v, i) = 0
    BY DEF Digit
  <2> QED
    BY <2>1, <2>2, <2>3
<1>2. \A o \in Area(at, size) : o - at \in Nat
  BY DEF Area
<1> QED
  BY <1>1, <1>2 DEF Written

-----------------------------------------------------------------------------
(* Pointers *)

LEMMA SeenFits ==
    ASSUME NEW p, IsSeen(p), NEW w \in Wrappers
    PROVE  Fits(p.views[w], w, p.bits)
  BY EveryViewFits DEF IsSeen

LEMMA PtrTyped ==
    ASSUME NEW p, IsSeen(p), NEW w \in Wrappers
    PROVE  Ptr(p, w) \in Nat \/ Ptr(p, w) = NoPtr
<1>1. \A at : Num(p, at, 4) \in Nat
  BY NumNat DEF IsSeen
<1>2. p.views["File"].size \in Nat
  <2>1. "File" \in Wrappers
    BY DEF Wrappers
  <2> QED
    BY <2>1, SeenFits DEF Fits
<1>3. NtHeaders(p) \in Nat
  BY <1>1 DEF NtHeaders
<1>4. OptionalAt(p) \in Nat
  BY <1>2, <1>3 DEF OptionalAt
<1>5. \A addr : ToRaw(p, addr) \in Nat \/ ToRaw(p, addr) = NoPtr
  <2> SUFFICES ASSUME NEW addr, ToRaw(p, addr) # NoPtr
               PROVE  ToRaw(p, addr) \in Nat
    OBVIOUS
  <2>1. addr \in 0..4095 /\ ToRaw(p, addr) = addr
    BY DEF ToRaw, MappedSize
  <2> QED
    BY <2>1
<1>6. \A d : AtRva(p, d) \in Nat \/ AtRva(p, d) = NoPtr
  BY <1>5 DEF AtRva
<1>7. AtRaw(p, "Security") \in Nat \/ AtRaw(p, "Security") = NoPtr
  <2>1. Directories["Security"] = 4 /\ 4 \in 0..DirEntriesCount-1
    BY DEF Directories, DirEntriesCount
  <2>2. p.dirs[4] \in Nat \/ p.dirs[4] = NoPtr
    BY <2>1 DEF IsSeen
  <2> QED
    BY <2>1, <2>2 DEF AtRaw
<1>8. LdConfigPtr(p) \in Nat \/ LdConfigPtr(p) = NoPtr
  BY <1>5 DEF LdConfigPtr
<1>9. \A name : DebugField(p, name) \in Nat
  BY <1>1 DEF DebugField
<1>10. getDebugStruct(p) \in Nat \/ getDebugStruct(p) = NoPtr
  BY <1>9 DEF getDebugStruct
<1>11. (getRDSI(p) \in Nat \/ getRDSI(p) = NoPtr) /\ (getNB10(p) \in Nat \/ getNB10(p) = NoPtr)
  BY <1>10 DEF getRDSI, getNB10, Signed
<1>12. w \in {"Dos", "File", "Optional", "Export", "Import", "Exception", "ArmException", "Security", "Debug",
              "TLS", "LdConfig", "Bound", "Delay", "CLR", "RSDS", "NB10"}
  BY DEF Wrappers, Directories, CodeViews
<1>13. \A v : firstException(p, v) \in Nat \/ firstException(p, v) = NoPtr
  BY <1>6 DEF firstException
<1>14. CASE w \in {"Dos", "File", "Optional"}
  <2>1. Ptr(p, "Dos") = 0 /\ Ptr(p, "File") = NtHeaders(p) + 4 /\ Ptr(p, "Optional") = OptionalAt(p)
    BY DEF Ptr
  <2> QED
    BY <1>3, <1>4, <1>14, <2>1
<1>15. CASE w \in {"Export", "Import", "Debug", "TLS", "Bound", "Delay", "CLR"}
  BY <1>6, <1>15 DEF Ptr, exportDir, firstDescriptor, getDebugDir, getTlsDirPtr, boundImp, firstDelayLoad, clrDir
<1>16. CASE w \in {"Exception", "ArmException"}
  BY <1>13, <1>16 DEF Ptr
<1>17. CASE w \in {"Security", "LdConfig", "RSDS", "NB10"}
  BY <1>7, <1>8, <1>11, <1>17 DEF Ptr, getCert
<1> QED
  BY <1>12, <1>14, <1>15, <1>16, <1>17

-----------------------------------------------------------------------------
(* The entries of the tables *)

\* A list of different elements of A.
Lists(s, A) == s \in Seq(A) /\ \A i, j \in 1..Len(s) : s[i] = s[j] => i = j

NoneIn(A, B) == \A x \in A : x \notin B

LEMMA ListsJoined ==
    ASSUME NEW s, NEW t, NEW A, NEW B, Lists(s, A), Lists(t, B), NoneIn(A, B)
    PROVE  Lists(s \o t, A \cup B)
<1>0. PICK n, k : n = Len(s) /\ k = Len(t)
  OBVIOUS
<1>u. PICK u : u = s \o t
  OBVIOUS
<1>1. n = Len(s) /\ k = Len(t) /\ n \in Nat /\ k \in Nat
  BY <1>0 DEF Lists
<1>2. Row(s, n, A) /\ Row(t, k, B) /\ n \in Nat /\ k \in Nat
  BY <1>1 DEF Lists, Row
<1>3. /\ Row(u, n + k, A \cup B)
      /\ \A i \in 1..n : u[i] = s[i] /\ s[i] \in A
      /\ \A i \in 1..k : u[n+i] = t[i] /\ t[i] \in B
  <2>1. IsJoin(u, s, t)
    BY <1>u DEF IsJoin
  <2>2. Joined(u, s, n, A, t, k, B)
    BY <1>2, <2>1, RowJoined
  <2> QED
    BY <2>2 DEF Joined
<1>4. ASSUME NEW i \in 1..n+k, NEW j \in 1..n+k, u[i] = u[j]
      PROVE  i = j
  <2>1. CASE i \in 1..n /\ j \in 1..n
    BY <1>1, <1>3, <1>4, <2>1 DEF Lists
  <2>2. CASE i \notin 1..n /\ j \notin 1..n
    <3>1. PICK x \in 1..k, y \in 1..k : i = n + x /\ j = n + y
      <4>1. i - n \in 1..k /\ j - n \in 1..k /\ i = n + (i - n) /\ j = n + (j - n)
        BY <1>1, <2>2
      <4> QED
        BY <4>1
    <3>2. t[x] = t[y]
      BY <1>3, <1>4, <3>1
    <3> QED
      BY <1>1, <3>1, <3>2 DEF Lists
  <2>3. CASE i \in 1..n /\ j \notin 1..n
    <3>1. j - n \in 1..k /\ j = n + (j - n)
      BY <1>1, <2>3
    <3> QED
      BY <1>3, <1>4, <2>3, <3>1 DEF NoneIn
  <2>4. CASE i \notin 1..n /\ j \in 1..n
    <3>1. i - n \in 1..k /\ i = n + (i - n)
      BY <1>1, <2>4
    <3> QED
      BY <1>3, <1>4, <2>4, <3>1 DEF NoneIn
  <2> QED
    BY <2>1, <2>2, <2>3, <2>4
<1> QED
  BY <1>u, <1>3, <1>4 DEF Lists, Row

LEMMA ListsCount ==
    ASSUME NEW s, NEW A, Lists(s, A)
    PROVE  Cardinality(Range(s)) = Len(s)
<1>1. PICK n \in Nat : n = Len(s) /\ DOMAIN s = 1..n
  BY DEF Lists
<1>2. s \in Bijection(1..n, Range(s))
  <2>1. s \in [1..n -> Range(s)]
    BY <1>1 DEF Range, Lists
  <2> QED
    BY <1>1, <2>1 DEF Bijection, Injection, Surjection, IsInjective, Range, Lists
<1>3. ExistsBijection(1..n, Range(s))
  BY <1>2 DEF ExistsBijection
<1> QED
  BY <1>1, <1>3, FS_CountingElements

\* Five lists one behind the other.
LEMMA FlattenFive ==
    ASSUME NEW S, NEW s \in [1..5 -> Seq(S)]
    PROVE  FlattenSeq(s) = s[1] \o s[2] \o s[3] \o s[4] \o s[5]
<1> DEFINE C(a, b) == a \o b
           Body(f, i) == IF i = 1 THEN s[i] ELSE C(f[i-1], s[i])
           flatten == CHOOSE f : f = [i \in 1..5 |-> Body(f, i)]
<1>1. Len(s) = 5
  <2>1. PICK n, A : n = 5 /\ A = Seq(S)
    OBVIOUS
  <2>2. n \in Nat /\ s \in [1..n -> A]
    BY <2>1
  <2>3. s \in Seq(A) /\ Len(s) = n
    BY <2>2
  <2> QED
    BY <2>1, <2>3
<1>2. FlattenSeq(s) = flatten[5]
  BY <1>1 DEF FlattenSeq
<1> HIDE DEF C
<1>3. PICK a : a = C(s[1], s[2])
  OBVIOUS
<1>4. PICK b : b = C(a, s[3])
  OBVIOUS
<1>5. PICK c : c = C(b, s[4])
  OBVIOUS
<1>6. PICK d : d = C(c, s[5])
  OBVIOUS
<1> DEFINE h == [i \in 1..5 |-> IF i = 1 THEN s[1] ELSE IF i = 2 THEN a ELSE IF i = 3 THEN b ELSE IF i = 4 THEN c ELSE d]
<1>7. h[1] = s[1] /\ h[2] = a /\ h[3] = b /\ h[4] = c /\ h[5] = d
  OBVIOUS
<1>8. \A i \in 1..5 : i = 1 \/ i = 2 \/ i = 3 \/ i = 4 \/ i = 5
  OBVIOUS
<1>9. \A i \in 1..5 : h[i] = Body(h, i)
  <2>1. Body(h, 1) = h[1] /\ Body(h, 2) = h[2] /\ Body(h, 3) = h[3] /\ Body(h, 4) = h[4] /\ Body(h, 5) = h[5]
    <3> HIDE DEF h
    <3> QED
      BY <1>3, <1>4, <1>5, <1>6, <1>7
  <2> HIDE DEF Body, h
  <2> QED
    BY <1>8, <2>1
<1>10. h = [i \in 1..5 |-> h[i]]
  OBVIOUS
<1>11. h = [i \in 1..5 |-> Body(h, i)]
  <2> HIDE DEF Body, h
  <2> QED
    BY <1>9, <1>10
<1>12. flatten = [i \in 1..5 |-> Body(flatten, i)]
  <2> HIDE DEF Body, h
  <2> QED
    BY <1>11
<1> HIDE DEF flatten, h
<1>13. \A i \in 1..5 : flatten[i] = Body(flatten, i)
  <2> HIDE DEF Body
  <2> QED
    BY <1>12
<1>14. /\ flatten[1] = Body(flatten, 1) /\ flatten[2] = Body(flatten, 2) /\ flatten[3] = Body(flatten, 3)
       /\ flatten[4] = Body(flatten, 4) /\ flatten[5] = Body(flatten, 5)
  <2> HIDE DEF Body
  <2> QED
    BY <1>13
<1>15. flatten[1] = s[1] /\ flatten[2] = C(flatten[1], s[2]) /\ flatten[3] = C(flatten[2], s[3])
  BY <1>14
<1>16. flatten[4] = C(flatten[3], s[4]) /\ flatten[5] = C(flatten[4], s[5])
  BY <1>14
<1>17. flatten[5] = C(C(C(C(s[1], s[2]), s[3]), s[4]), s[5])
  BY <1>15, <1>16
<1> QED
  BY <1>2, <1>17 DEF C

\* The number of entries that wrapSubentriesTable loads.
LEMMA LoadedNat ==
    ASSUME NEW p, Content(p), NEW wr, NEW t
    PROVE  EntriesLoaded(p, wr, t) \in Nat
<1> DEFINE name == Tables[t][2]
           count == NumValue(p, wr, name)
           table == Table(p, wr, t)
           Bad == {n \in Nat : EntryPtr(p, table, n) = NoPtr}
<1>1. count \in Nat \/ count = NoNum
  <2>1. \A at, size : size \in NumSizes => Num(p, at, size) \in Nat
    BY NumNat DEF NumSizes
  <2> HIDE DEF name
  <2> QED
    BY <2>1 DEF NumValue
<1>2. CASE wr.ptr = NoPtr \/ count = NoNum
  BY <1>2 DEF EntriesLoaded
<1>3. CASE wr.ptr # NoPtr /\ count # NoNum
  <2>1. count \in Nat
    BY <1>1, <1>3
  <2>2. EntriesLoaded(p, wr, t) =
          CHOOSE n \in 0..count : /\ n < count => EntryPtr(p, table, n) = NoPtr
                                  /\ \A nr \in 0..n-1 : EntryPtr(p, table, nr) # NoPtr
    BY <1>3 DEF EntriesLoaded
  <2> HIDE DEF count, table
  <2>3. \E n \in 0..count : (n < count => n \in Bad) /\ \A i \in 0..n-1 : i \notin Bad
    <3> HIDE DEF Bad
    <3> QED
      BY <2>1, FirstStop
  <2>4. \E n \in 0..count : /\ n < count => EntryPtr(p, table, n) = NoPtr
                            /\ \A nr \in 0..n-1 : EntryPtr(p, table, nr) # NoPtr
    BY <2>1, <2>3
  <2>5. EntriesLoaded(p, wr, t) \in 0..count
    BY <2>2, <2>4
  <2> QED
    BY <2>1, <2>5
<1> QED
  BY <1>2, <1>3

\* The entries of one wrap, those of table t.
EntryOf(made, t) == [made : {made}, table : {t}, nr : Nat]

LEMMA TablesDomain == DOMAIN Tables = 1..5
  BY DEF Tables

\* EntryWrappers: a list of its own for each table.
LEMMA WrappersListed ==
    ASSUME NEW p, Content(p), NEW wr
    PROVE  LET loaded == EntryWrappers(p, wr) IN
           /\ DOMAIN loaded = 1..5 /\ loaded = [t \in 1..5 |-> loaded[t]]
           /\ \A t \in 1..5 : Lists(loaded[t], EntryOf(wraps, t))
<1> DEFINE n(t) == EntriesLoaded(p, wr, t)
           E(t, i) == [made |-> wraps, table |-> t, nr |-> i - 1]
           L(t) == [i \in 1..n(t) |-> E(t, i)]
           z == [t \in DOMAIN Tables |-> L(t)]
           A == {L(t) : t \in 1..5}
<1>1. EntryWrappers(p, wr) = <<>> \o z
  BY DEF EntryWrappers
<1>2. ASSUME NEW t \in 1..5
      PROVE  Lists(L(t), EntryOf(wraps, t))
  <2>1. PICK c \in Nat : c = n(t)
    BY LoadedNat
  <2>2. \A i \in 1..c : E(t, i) \in EntryOf(wraps, t)
    BY <2>1 DEF EntryOf
  <2>3. \A i, j \in 1..c : E(t, i) = E(t, j) => i = j
    <3> SUFFICES ASSUME NEW i \in 1..c, NEW j \in 1..c, E(t, i) = E(t, j)
                 PROVE  i = j
      OBVIOUS
    <3>1. E(t, i).nr = E(t, j).nr
      OBVIOUS
    <3>2. i - 1 = j - 1
      BY <3>1
    <3> QED
      BY <3>2
  <2> HIDE DEF E, n
  <2>4. L(t) \in [1..c -> EntryOf(wraps, t)] /\ \A i \in 1..c : L(t)[i] = E(t, i)
    BY <2>1, <2>2
  <2> HIDE DEF L
  <2>5. L(t) \in Seq(EntryOf(wraps, t)) /\ Len(L(t)) = c
    BY <2>4
  <2> QED
    BY <2>3, <2>4, <2>5 DEF Lists
<1> HIDE DEF L
<1>3. DOMAIN z = 1..5 /\ z \in [1..5 -> A] /\ \A t \in 1..5 : z[t] = L(t)
  BY TablesDomain
<1> HIDE DEF z, A
<1>4. <<>> \o z = z
  <2>1. PICK c \in Nat : c = 5
    OBVIOUS
  <2>2. z \in [1..c -> A]
    BY <1>3, <2>1
  <2>3. z \in Seq(A)
    BY <2>2
  <2> QED
    BY <2>3
<1> QED
  BY <1>1, <1>2, <1>3, <1>4

\* All the entries of a wrap are different.
LEMMA WrappersCounted ==
    ASSUME NEW loaded, DOMAIN loaded = 1..5, loaded = [t \in 1..5 |-> loaded[t]],
           NEW m, \A t \in 1..5 : Lists(loaded[t], EntryOf(m, t))
    PROVE  Cardinality(Range(FlattenSeq(loaded))) = Len(FlattenSeq(loaded))
<1> DEFINE E(t) == EntryOf(m, t)
           S == E(1) \cup E(2) \cup E(3) \cup E(4) \cup E(5)
<1>1. \A t, u \in 1..5 : t # u => \A x \in E(t) : x \notin E(u)
  BY DEF EntryOf
<1>2. \A t \in 1..5 : Lists(loaded[t], E(t)) /\ (t = 1 \/ t = 2 \/ t = 3 \/ t = 4 \/ t = 5)
  OBVIOUS
<1> HIDE DEF E
<1>3. \A t \in 1..5 : loaded[t] \in Seq(S)
  <2>1. \A t \in 1..5 : E(t) \subseteq S
    BY <1>2
  <2>2. \A t \in 1..5 : loaded[t] \in Seq(E(t))
    BY <1>2 DEF Lists
  <2> HIDE DEF S
  <2> QED
    BY <2>1, <2>2
<1>4. FlattenSeq(loaded) = loaded[1] \o loaded[2] \o loaded[3] \o loaded[4] \o loaded[5]
  <2> HIDE DEF S
  <2>1. loaded \in [1..5 -> Seq(S)]
    BY <1>3
  <2> QED
    BY <2>1, FlattenFive
<1>5. 1 \in 1..5 /\ 2 \in 1..5 /\ 3 \in 1..5 /\ 4 \in 1..5 /\ 5 \in 1..5
  OBVIOUS
<1>6. Lists(loaded[1], E(1)) /\ Lists(loaded[2], E(2)) /\ Lists(loaded[3], E(3)) /\ Lists(loaded[4], E(4)) /\ Lists(loaded[5], E(5))
  BY <1>2, <1>5
<1>7. Lists(loaded[1] \o loaded[2], E(1) \cup E(2))
  <2>1. NoneIn(E(1), E(2))
    BY <1>1, <1>5 DEF NoneIn
  <2> QED
    BY <1>6, <2>1, ListsJoined
<1>8. Lists(loaded[1] \o loaded[2] \o loaded[3], E(1) \cup E(2) \cup E(3))
  <2>1. NoneIn(E(1) \cup E(2), E(3))
    BY <1>1, <1>5 DEF NoneIn
  <2> QED
    BY <1>6, <1>7, <2>1, ListsJoined
<1>9. Lists(loaded[1] \o loaded[2] \o loaded[3] \o loaded[4], E(1) \cup E(2) \cup E(3) \cup E(4))
  <2>1. NoneIn(E(1) \cup E(2) \cup E(3), E(4))
    BY <1>1, <1>5 DEF NoneIn
  <2> QED
    BY <1>6, <1>8, <2>1, ListsJoined
<1>10. Lists(loaded[1] \o loaded[2] \o loaded[3] \o loaded[4] \o loaded[5], S)
  <2>1. NoneIn(E(1) \cup E(2) \cup E(3) \cup E(4), E(5))
    BY <1>1, <1>5 DEF NoneIn
  <2> QED
    BY <1>6, <1>9, <2>1, ListsJoined
<1> HIDE DEF S
<1> QED
  BY <1>4, <1>10, ListsCount

-----------------------------------------------------------------------------
(* What holds between the wraps *)

Held == IsFile(file) /\ DOMAIN tables = 1..5 /\ TablesOwnEntries

LEMMA OwnedAfterWrap ==
    ASSUME Held, NEW p, Content(p), NEW wr, NEW loaded, loaded = EntryWrappers(p, wr),
           NEW kept, kept = ClearTables(tables),
           tables' = [t \in DOMAIN Tables |-> kept[t] \o loaded[t]], entries' = FlattenSeq(loaded),
           live' = (live \ Range(entries)) \cup Range(FlattenSeq(loaded))
    PROVE  DOMAIN tables' = 1..5 /\ TablesOwnEntries'
<1>1. /\ DOMAIN loaded = 1..5 /\ loaded = [t \in 1..5 |-> loaded[t]]
      /\ \A t \in 1..5 : Lists(loaded[t], EntryOf(wraps, t))
  BY WrappersListed
<1>2. ASSUME NEW t \in 1..5
      PROVE  kept[t] \o loaded[t] = loaded[t]
  <2>1. kept[t] = <<>>
    BY DEF ClearTables, Held
  <2>2. loaded[t] \in Seq(EntryOf(wraps, t))
    BY <1>1 DEF Lists
  <2> QED
    BY <2>1, <2>2
<1>3. tables' = loaded
  BY <1>1, <1>2, TablesDomain
<1>4. live' = Range(entries')
  BY DEF Held, TablesOwnEntries
<1>5. Cardinality(live') = Len(entries')
  BY <1>1, <1>4, WrappersCounted
<1> QED
  BY <1>1, <1>3, <1>4, <1>5 DEF TablesOwnEntries

LEMMA WrapHolds ==
    ASSUME Held, NEW bytes, NEW len \in Nat, \A o \in DOMAIN bytes : bytes[o] \in Nat, Wrap(bytes, len)
    PROVE  Held' /\ wraps' = wraps + 1 /\ IsSeen(pe') /\ sizeOk' = CertificateFits(pe')
<1>1. PICK opened, p, wr, loaded :
         /\ opened = Wrapped([bytes |-> bytes, len |-> len, bits |-> 32]) /\ p = Seen(opened)
         /\ loaded = EntryWrappers(p, wr)
         /\ file' = opened /\ wraps' = wraps + 1 /\ sizeOk' = CertificateFits(p)
         /\ \E kept \in {ClearTables(tables)} : tables' = [t \in DOMAIN Tables |-> kept[t] \o loaded[t]]
         /\ entries' = FlattenSeq(loaded)
         /\ live' = (live \ Range(entries)) \cup Range(FlattenSeq(loaded))
  BY DEF Wrap
<1>2. IsFile(opened)
  BY <1>1, WrappedIsFile
<1>3. IsFile(file')
  BY <1>1, <1>2
<1>4. IsSeen(p)
  BY <1>1, <1>2, SeenIs
<1>5. pe' = p
  BY <1>1 DEF pe
<1>6. PICK kept : kept = ClearTables(tables) /\ tables' = [t \in DOMAIN Tables |-> kept[t] \o loaded[t]]
  BY <1>1
<1>7. DOMAIN tables' = 1..5 /\ TablesOwnEntries'
  <2>1. Content(p)
    BY <1>4 DEF IsSeen
  <2> QED
    BY <1>1, <1>6, <2>1, OwnedAfterWrap
<1> QED
  BY <1>1, <1>3, <1>4, <1>5, <1>7 DEF Held

LEMMA HeldAtFirst == Init => Held
<1> SUFFICES ASSUME Init
             PROVE  Held
  OBVIOUS
<1>1. PICK f \in Files : file = [bytes |-> f.bytes, len |-> f.len, bits |-> 32]
  BY DEF Init
<1>2. IsFile(file)
  BY <1>1, FieldsAssumption DEF IsFile, Content, Modes
<1>3. tables = [t \in 1..5 |-> <<>>] /\ entries = <<>> /\ live = {}
  BY TablesDomain DEF Init
<1>4. FlattenSeq(tables) = <<>>
  <2>1. tables \in [1..5 -> Seq(Nat)] /\ \A t \in 1..5 : tables[t] = <<>>
    BY <1>3
  <2>2. FlattenSeq(tables) = tables[1] \o tables[2] \o tables[3] \o tables[4] \o tables[5]
    BY <2>1, FlattenFive
  <2>3. tables[1] = <<>> /\ tables[2] = <<>> /\ tables[3] = <<>> /\ tables[4] = <<>> /\ tables[5] = <<>>
    BY <2>1
  <2>4. <<>> \o <<>> = <<>>
    OBVIOUS
  <2> QED
    BY <2>2, <2>3, <2>4
<1>5. Range(<<>>) = {} /\ Cardinality({}) = 0 /\ Len(<<>>) = 0
  BY FS_EmptySet DEF Range
<1> QED
  BY <1>2, <1>3, <1>4, <1>5 DEF Held, TablesOwnEntries

LEMMA CutHolds ==
    ASSUME Held, NEW n \in Lengths, Resize(n)
    PROVE  Held' /\ wraps' = wraps + 1 /\ IsSeen(pe') /\ sizeOk' = CertificateFits(pe')
<1>1. \A o \in DOMAIN file.bytes : file.bytes[o] \in Nat
  BY DEF Held, IsFile, Content
<1>2. \A o \in DOMAIN Cut(file.bytes, n) : Cut(file.bytes, n)[o] \in Nat
  BY <1>1, CutBytes
<1>3. n \in Nat
  BY FieldsAssumption
<1>4. Wrap(Cut(file.bytes, n), n)
  BY DEF Resize
<1> QED
  BY <1>2, <1>3, <1>4, WrapHolds

LEMMA RewrapHolds ==
    ASSUME Held, Rewrap
    PROVE  Held' /\ wraps' = wraps + 1 /\ IsSeen(pe') /\ sizeOk' = CertificateFits(pe')
<1>1. file.len \in Nat /\ \A o \in DOMAIN file.bytes : file.bytes[o] \in Nat
  BY DEF Held, IsFile, Content
<1>2. Wrap(file.bytes, file.len)
  BY DEF Rewrap
<1> QED
  BY <1>1, <1>2, WrapHolds

-----------------------------------------------------------------------------
(* The fields that a load configuration declares *)

\* A sequence that begins with x.
Begins(s, x) == s[1] = x /\ \E n \in Nat \ {0} : \E M : Row(s, n, M)

LEMMA BeginsJoined ==
    ASSUME NEW s, NEW x, Begins(s, x), NEW t, NEW k, NEW L, Struct(t, k, L)
    PROVE  Begins(s \o t, x)
<1>n. PICK n \in Nat \ {0} : \E M : Row(s, n, M)
  BY DEF Begins
<1>1. PICK M : Row(s, n, M)
  BY <1>n
<1>2. Row(t, k, L)
  BY DEF Struct
<1>3. PICK u : u = s \o t
  OBVIOUS
<1>4. Joined(u, s, n, M, t, k, L)
  BY <1>1, <1>2, <1>3, RowJoined DEF IsJoin
<1>5. Row(u, n + k, M \cup L) /\ u[1] = s[1]
  <2>1. 1 \in 1..n
    OBVIOUS
  <2> QED
    BY <1>4, <2>1 DEF Joined
<1>6. n + k \in Nat \ {0}
  BY <1>2 DEF Row
<1>7. u[1] = x
  BY <1>5 DEF Begins
<1>8. Begins(u, x)
  BY <1>5, <1>6, <1>7 DEF Begins
<1> QED
  BY <1>3, <1>8

LEMMA LoadConfigBegins == Begins(LoadConfigBegin, <<"Size", 4>>)
<1> DEFINE N1 == <<"Size", "TimeDateStamp">>
           N2 == <<"MajorVersion", "MinorVersion">>
           N3 == <<"GlobalFlagsClear", "GlobalFlagsSet", "CriticalSectionDefaultTimeout">>
<1>1. /\ Named(N1, 2, {"Size", "TimeDateStamp"}) /\ Named(N2, 2, {"MajorVersion", "MinorVersion"})
      /\ Named(N3, 3, {"GlobalFlagsClear", "GlobalFlagsSet", "CriticalSectionDefaultTimeout"})
  BY DEF Named
<1>2. Of(4, N1)[1] = <<"Size", 4>>
  BY DEF Of
<1> HIDE DEF N1, N2, N3
<1>3. /\ Struct(Of(4, N1), 2, Sized({"Size", "TimeDateStamp"}, 4))
      /\ Struct(Of(2, N2), 2, Sized({"MajorVersion", "MinorVersion"}, 2))
      /\ Struct(Of(4, N3), 3, Sized({"GlobalFlagsClear", "GlobalFlagsSet", "CriticalSectionDefaultTimeout"}, 4))
  BY <1>1, StructOf
<1>4. Begins(Of(4, N1), <<"Size", 4>>)
  BY <1>2, <1>3 DEF Begins, Struct
<1>5. Begins(Of(4, N1) \o Of(2, N2), <<"Size", 4>>)
  BY <1>3, <1>4, BeginsJoined
<1>6. Begins(Of(4, N1) \o Of(2, N2) \o Of(4, N3), <<"Size", 4>>)
  BY <1>3, <1>5, BeginsJoined
<1> QED
  BY <1>6 DEF LoadConfigBegin, N1, N2, N3

LEMMA SizeIsFirst ==
    ASSUME NEW b \in Modes
    PROVE  Begins(IMAGE_LOAD_CONFIG_DIRECTORY(b), <<"Size", 4>>)
<1> DEFINE T0 == {"DeCommitFreeBlockThreshold", "DeCommitTotalFreeThreshold", "LockPrefixTable", "MaximumAllocationSize",
                  "VirtualMemoryThreshold"}
           two == <<"ProcessHeapFlags", "ProcessAffinityMask">>
           one == <<"ProcessAffinityMask">>
           other == <<"ProcessHeapFlags">>
           x == <<"Size", 4>>
<1>1. Named(LoadConfigLimits, 5, T0)
  BY DEF Named, LoadConfigLimits
<1>2. /\ Named(two, 2, {"ProcessHeapFlags", "ProcessAffinityMask"})
      /\ Named(one, 1, {"ProcessAffinityMask"}) /\ Named(other, 1, {"ProcessHeapFlags"})
  BY DEF Named
<1> HIDE DEF T0, two, one, other
<1>3. \A size \in {4, 8} : Struct(Of(size, LoadConfigLimits), 5, Sized(T0, size))
  BY <1>1, StructOf
<1>4. /\ Struct(Of(4, two), 2, Sized({"ProcessHeapFlags", "ProcessAffinityMask"}, 4))
      /\ Struct(Of(8, one), 1, Sized({"ProcessAffinityMask"}, 8))
      /\ Struct(Of(4, other), 1, Sized({"ProcessHeapFlags"}, 4))
  BY <1>2, StructOf
<1>5. Struct(LoadConfigEnd(b), 33, LoadConfigEndMembers(b))
  BY LoadConfigEndStruct
<1>6. Begins(LoadConfigBegin, x)
  BY LoadConfigBegins
<1> HIDE DEF x
<1>7. CASE b = 32
  <2>1. Begins(LoadConfigBegin \o Of(4, LoadConfigLimits), x)
    BY <1>3, <1>6, BeginsJoined
  <2>2. Begins(LoadConfigBegin \o Of(4, LoadConfigLimits) \o Of(4, two), x)
    BY <1>4, <2>1, BeginsJoined
  <2>3. Begins(LoadConfigBegin \o Of(4, LoadConfigLimits) \o Of(4, two) \o LoadConfigEnd(b), x)
    BY <1>5, <2>2, BeginsJoined
  <2>4. IMAGE_LOAD_CONFIG_DIRECTORY(b) = IMAGE_LOAD_CONFIG_DIRECTORY32
    BY <1>7 DEF IMAGE_LOAD_CONFIG_DIRECTORY
  <2> QED
    BY <1>7, <2>3, <2>4 DEF IMAGE_LOAD_CONFIG_DIRECTORY32, two, x
<1>8. CASE b = 64
  <2>1. Begins(LoadConfigBegin \o Of(8, LoadConfigLimits), x)
    BY <1>3, <1>6, BeginsJoined
  <2>2. Begins(LoadConfigBegin \o Of(8, LoadConfigLimits) \o Of(8, one), x)
    BY <1>4, <2>1, BeginsJoined
  <2>3. Begins(LoadConfigBegin \o Of(8, LoadConfigLimits) \o Of(8, one) \o Of(4, other), x)
    BY <1>4, <2>2, BeginsJoined
  <2>4. Begins(LoadConfigBegin \o Of(8, LoadConfigLimits) \o Of(8, one) \o Of(4, other) \o LoadConfigEnd(b), x)
    BY <1>5, <2>3, BeginsJoined
  <2>5. IMAGE_LOAD_CONFIG_DIRECTORY(b) = IMAGE_LOAD_CONFIG_DIRECTORY64
    BY <1>8 DEF IMAGE_LOAD_CONFIG_DIRECTORY
  <2> QED
    BY <1>8, <2>4, <2>5 DEF IMAGE_LOAD_CONFIG_DIRECTORY64, one, other, x
<1> QED
  BY <1>7, <1>8 DEF Modes

\* The fields of a structure of n fields that begin in a size.
Listed(d, n, size) == {f \in 1..n : d[f] < size}

\* The offsets of the load configuration: its first field has four bytes.
IsConfig(d) ==
    /\ DOMAIN d = 1..47 /\ d[1] = 0 /\ d[2] = 4
    /\ \A f \in 1..47 : d[f] \in Nat
    /\ \A f, g \in 1..47 : f < g => d[f] < d[g]

LEMMA ConfigView ==
    ASSUME NEW b \in Modes
    PROVE  IsConfig(Views[b]["LdConfig"].delta)
<1> DEFINE s == IMAGE_LOAD_CONFIG_DIRECTORY(b)
           M == IMAGE_LOAD_CONFIG_DIRECTORYMembers(b)
<1>1. PICK v : v = Views[b]["LdConfig"]
  OBVIOUS
<1>2. v = View("LdConfig", b)
  BY <1>1, ViewIs DEF Wrappers, Directories
<1>3. View("LdConfig", b) = Shows(s, LdConfigFields(b), LdConfigFieldDelta(b))
  BY DEF View
<1>4. ShowsOf(v, s, Names(s))
  BY <1>2, <1>3, LdConfigNames DEF ShowsOf, LdConfigFieldDelta
<1>5. Struct(s, 47, M)
  BY IMAGE_LOAD_CONFIG_DIRECTORY32Struct, IMAGE_LOAD_CONFIG_DIRECTORY64Struct
     DEF IMAGE_LOAD_CONFIG_DIRECTORY, IMAGE_LOAD_CONFIG_DIRECTORYMembers
<1>6. s[1] = <<"Size", 4>>
  BY SizeIsFirst DEF Begins
<1>s. s[1][1] = "Size" /\ s[1][2] = 4 /\ "Size" # ""
  BY <1>6
<1>7. Whole(v, 47, M)
  BY <1>1, LdConfigView
<1> HIDE DEF s, M
<1>8. Row(Names(s), 47, FirstsOf(M)) /\ \A i \in 1..47 : Names(s)[i] = s[i][1]
  BY <1>5, NamesRow
<1>9. 1 \in 1..47 /\ 1 \in 1..47-1
  OBVIOUS
<1>10. Names(s)[1] = s[1][1] /\ Names(s)[1] # ""
  BY <1>8, <1>9, <1>s
<1>11. IsField(v, 1, s, 1)
  BY <1>4, <1>5, <1>8, <1>9, <1>10, FieldIs
<1>12. v.sizes[1] = 4
  BY <1>11, <1>s DEF IsField
<1>13. /\ DOMAIN v.delta = 1..47 /\ v.delta[1] = 0 /\ v.delta[1+1] = v.delta[1] + v.sizes[1]
       /\ (\A f \in 1..47 : v.delta[f] \in Nat) /\ (\A f, g \in 1..47 : f < g => v.delta[f] < v.delta[g])
  BY <1>7, <1>9 DEF Whole
<1>14. v.delta[2] = 4
  BY <1>12, <1>13
<1> QED
  BY <1>1, <1>13, <1>14 DEF IsConfig

LEMMA LargestListed ==
    ASSUME NEW d, NEW n \in Nat, NEW size
    PROVE  \E m \in Listed(d, n, size) \cup {0} : \A g \in Listed(d, n, size) : g <= m
<1> DEFINE T == {k \in 0..n : n - k \in Listed(d, n, size) \cup {0}}
<1>1. T \subseteq Nat /\ T # {}
  <2>1. n \in 0..n /\ n - n = 0
    OBVIOUS
  <2>2. n \in T
    BY <2>1
  <2> HIDE DEF T
  <2> QED
    BY <2>2 DEF T
<1>2. PICK k \in T : \A j \in T : k <= j
  <2> HIDE DEF T
  <2> QED
    BY <1>1, LeastNumber
<1>3. n - k \in Listed(d, n, size) \cup {0} /\ k \in 0..n
  OBVIOUS
<1>4. ASSUME NEW g \in Listed(d, n, size)
      PROVE  g <= n - k
  <2>1. g \in 1..n /\ n - g \in 0..n /\ n - (n - g) = g
    BY DEF Listed
  <2>2. n - g \in T
    BY <2>1
  <2> HIDE DEF T
  <2>3. k <= n - g
    BY <1>2, <2>2
  <2> QED
    BY <1>3, <2>1, <2>3
<1> QED
  BY <1>3, <1>4

LEMMA ConfigCount ==
    ASSUME NEW p, IsConfig(p.views["LdConfig"].delta), NEW size \in Nat
    PROVE  LET count == LdConfigFieldsCount(p, size)
           IN /\ count \in 0..47
              /\ 1..count = IF size < 4 THEN {} ELSE Listed(p.views["LdConfig"].delta, 47, size)
<1>1. PICK d : d = p.views["LdConfig"].delta
  OBVIOUS
<1>2. PICK in : in = Listed(d, 47, size)
  OBVIOUS
<1>3. /\ DOMAIN d = 1..47 /\ d[1] = 0 /\ d[2] = 4 /\ (\A f \in 1..47 : d[f] \in Nat)
      /\ \A f, g \in 1..47 : f < g => d[f] < d[g]
  BY <1>1 DEF IsConfig
<1>4. in = {f \in DOMAIN d : BeginsIn(d[f], size)}
  BY <1>2, <1>3 DEF Listed, BeginsIn
<1>5. \E m \in in \cup {0} : \A g \in in : g <= m
  BY <1>2, LargestListed
<1>6. PICK last : last = CHOOSE f \in in \cup {0} : \A g \in in : g <= f
  OBVIOUS
<1>7. last \in in \cup {0} /\ \A g \in in : g <= last
  BY <1>5, <1>6
<1>8. LdConfigFieldsCount(p, size) = IF last > 1 THEN last ELSE IF d[2] > size THEN 0 ELSE 1
  BY <1>1, <1>4, <1>6 DEF LdConfigFieldsCount
<1>9. \A f : f \in in <=> f \in 1..47 /\ d[f] < size
  BY <1>2 DEF Listed
<1>10. last \in 0..47
  BY <1>7, <1>9
<1>11. 1 \in 1..47 /\ 2 \in 1..47 /\ 1..0 = {}
  OBVIOUS
<1>12. CASE size < 4
  <2>1. \A f \in 1..47 : f > 1 => ~(d[f] < size)
    <3> SUFFICES ASSUME NEW f \in 1..47, f > 1
                 PROVE  4 <= d[f]
      BY <1>3, <1>12
    <3>1. CASE f = 2
      BY <1>3, <3>1
    <3>2. CASE f > 2
      BY <1>3, <1>11, <3>2
    <3> QED
      BY <3>1, <3>2
  <2>2. ~(last > 1)
    BY <1>7, <1>9, <1>10, <2>1
  <2>3. LdConfigFieldsCount(p, size) = 0
    BY <1>3, <1>8, <1>12, <2>2
  <2> QED
    BY <1>11, <1>12, <2>3
<1>13. CASE ~(size < 4)
  <2>1. 1 \in in
    BY <1>3, <1>9, <1>11, <1>13
  <2>2. last \in in /\ last >= 1
    BY <1>7, <1>10, <2>1
  <2>3. LdConfigFieldsCount(p, size) = last
    BY <1>3, <1>8, <1>10, <1>13, <2>2
  <2>4. ASSUME NEW f \in 1..last
        PROVE  f \in in
    <3>1. f \in 1..47 /\ last \in 1..47 /\ f <= last
      BY <1>10, <2>2
    <3>2. d[f] <= d[last]
      BY <1>3, <3>1
    <3>3. d[last] < size /\ d[f] \in Nat /\ d[last] \in Nat
      BY <1>3, <1>9, <2>2, <3>1
    <3> QED
      BY <1>9, <3>1, <3>2, <3>3
  <2>5. ASSUME NEW f \in in
        PROVE  f \in 1..last
    <3>1. f \in 1..47 /\ f <= last
      BY <1>7, <1>9
    <3> QED
      BY <1>10, <3>1
  <2>6. 1..last = in
    BY <2>4, <2>5
  <2> QED
    BY <1>1, <1>2, <1>10, <1>13, <2>3, <2>6
<1> QED
  BY <1>12, <1>13

\* What a wrapper has, for every file.
Typed(p, wr) ==
    /\ wr.ptr \in Nat \/ wr.ptr = NoPtr
    /\ wr.size \in Nat /\ wr.limit \in Nat
    /\ wr.count \in 0..Len(p.views[wr.name].names)

LEMMA SizeTyped ==
    ASSUME NEW p, IsSeen(p), NEW w \in Wrappers, NEW ptr
    PROVE  Size(p, w, ptr) \in Nat
<1>1. \A at : Num(p, at, 4) \in Nat
  BY NumNat DEF IsSeen
<1>2. \A u \in Wrappers : p.views[u].size \in Nat
  BY SeenFits DEF Fits
<1>3. LdConfigSize(p) \in Nat
  <2>1. p.views["LdConfig"].size \in Nat /\ HdrDefinedSize(p) \in Nat
    BY <1>1, <1>2 DEF HdrDefinedSize, Wrappers, Directories
  <2> QED
    BY <2>1 DEF LdConfigSize
<1>4. CASE w = "LdConfig"
  BY <1>3, <1>4 DEF Size, CodeViews
<1>5. CASE w = "Security"
  BY <1>1, <1>2, <1>5 DEF Size, CodeViews
<1>6. CASE w \in CodeViews
  <2>1. DebugField(p, "SizeOfData") \in Nat
    BY <1>1 DEF DebugField
  <2> QED
    BY <1>6, <2>1 DEF Size, CodeViews
<1>7. CASE w \notin {"LdConfig", "Security"} \cup CodeViews
  BY <1>2, <1>7 DEF Size, CodeViews
<1> QED
  BY <1>4, <1>5, <1>6, <1>7

LEMMA WrapperTyped ==
    ASSUME NEW p, IsSeen(p), NEW w \in Wrappers
    PROVE  Typed(p, Wrapper(p, w)) /\ Wrapper(p, w).name = w /\ Wrapper(p, w).ptr = Ptr(p, w)
<1>1. PICK ptr : ptr = Ptr(p, w)
  OBVIOUS
<1>2. PICK size : size = Size(p, w, ptr)
  OBVIOUS
<1>3. PICK wr : wr = Wrapper(p, w)
  OBVIOUS
<1>4. wr = WrapperOf(p, w, ptr, size)
  BY <1>1, <1>2, <1>3 DEF Wrapper
<1>5. /\ wr.name = w /\ wr.ptr = ptr /\ wr.size = size
      /\ wr.count = IF w = "LdConfig" THEN LdConfigFieldsCount(p, size) ELSE Len(p.views[w].names)
      /\ wr.limit = IF w = "LdConfig" THEN HdrDefinedSize(p) ELSE p.views[w].size
  BY <1>4 DEF WrapperOf
<1>6. ptr \in Nat \/ ptr = NoPtr
  BY <1>1, PtrTyped
<1>7. size \in Nat
  BY <1>2, SizeTyped
<1>8. Len(p.views[w].names) \in Nat /\ p.views[w].size \in Nat
  BY SeenFits DEF Fits
<1>9. HdrDefinedSize(p) \in Nat
  <2>1. \A at : Num(p, at, 4) \in Nat
    BY NumNat DEF IsSeen
  <2> QED
    BY <2>1 DEF HdrDefinedSize
<1>10. wr.count \in 0..Len(p.views[w].names)
  <2>1. CASE w = "LdConfig"
    <3>1. p.bits \in Modes /\ p.views = Views[p.bits]
      BY DEF IsSeen
    <3>2. IsConfig(p.views["LdConfig"].delta) /\ Len(p.views["LdConfig"].names) = 47
      BY <3>1, ConfigView, LdConfigView DEF Whole
    <3>3. LdConfigFieldsCount(p, size) \in 0..47
      BY <1>7, <3>2, ConfigCount
    <3> QED
      BY <1>5, <2>1, <3>2, <3>3
  <2>2. CASE w # "LdConfig"
    BY <1>5, <1>8, <2>2
  <2> QED
    BY <2>1, <2>2
<1>11. wr.limit \in Nat
  BY <1>5, <1>8, <1>9
<1> QED
  BY <1>1, <1>3, <1>5, <1>6, <1>7, <1>10, <1>11 DEF Typed

-----------------------------------------------------------------------------
(* Edits *)

LEMMA FieldPtrTyped ==
    ASSUME NEW p, IsSeen(p), NEW wr, wr.name \in Wrappers, Typed(p, wr), wr.ptr # NoPtr,
           NEW f \in 1..Len(p.views[wr.name].names)
    PROVE  FieldPtr(p, wr, f) \in Nat \/ FieldPtr(p, wr, f) = NoPtr
<1>1. p.views[wr.name].delta[f] \in Nat \/ p.views[wr.name].delta[f] = NoPtr
  BY SeenFits DEF Fits
<1>2. wr.ptr \in Nat
  BY DEF Typed
<1> QED
  BY <1>1, <1>2 DEF FieldPtr

LEMMA FieldSizeTyped ==
    ASSUME NEW p, IsSeen(p), NEW wr, wr.name \in Wrappers, Typed(p, wr), wr.ptr # NoPtr,
           NEW f \in 1..Len(p.views[wr.name].names)
    PROVE  FieldSize(p, wr, f) \in Int
<1>1. PICK n : n = Len(p.views[wr.name].names)
  OBVIOUS
<1>2. n \in Nat /\ f \in 1..n
  BY <1>1, SeenFits DEF Fits
<1>3. FieldPtr(p, wr, f) \in Nat \/ FieldPtr(p, wr, f) = NoPtr
  BY FieldPtrTyped
<1>4. wr.count \in 0..n /\ wr.size \in Nat /\ wr.ptr \in Nat
  BY <1>1 DEF Typed
<1>5. f + 1 <= wr.count => FieldPtr(p, wr, f + 1) \in Nat \/ FieldPtr(p, wr, f + 1) = NoPtr
  <2>1. f + 1 <= wr.count => f + 1 \in 1..n
    BY <1>2, <1>4
  <2> QED
    BY <1>1, <2>1, FieldPtrTyped
<1>6. "Optional" \in Wrappers
  BY DEF Wrappers
<1>7. wr.name = "Optional" => p.views["Optional"].sizes[f] \in Nat
  BY <1>1, <1>2, <1>6, SeenFits DEF Fits
<1>8. NoPtr \in Int
  BY DEF NoPtr
<1>9. PICK ptr, next, own :
         /\ ptr = FieldPtr(p, wr, f) /\ next = (IF f + 1 <= wr.count THEN FieldPtr(p, wr, f + 1) ELSE NoPtr)
         /\ own = (wr.name = "Optional" /\ p.bits = 64 /\ p.views["Optional"].names[f] \in {"BaseOfCode", ""})
  OBVIOUS
<1>10. FieldSize(p, wr, f) =
          IF own THEN p.views["Optional"].sizes[f]
          ELSE IF f > wr.count THEN wr.size
          ELSE IF ptr = NoPtr THEN 0
          ELSE IF next = NoPtr THEN wr.ptr + wr.size - ptr
          ELSE IF next < ptr THEN 0 ELSE next - ptr
  BY <1>9 DEF FieldSize
<1>11. ptr \in Int /\ next \in Int
  <2>1. ptr = FieldPtr(p, wr, f) /\ next = IF f + 1 <= wr.count THEN FieldPtr(p, wr, f + 1) ELSE NoPtr
    BY <1>9
  <2>2. ptr \in Nat \/ ptr = NoPtr
    BY <1>3, <2>1
  <2>3. next \in Nat \/ next = NoPtr
    BY <1>5, <2>1
  <2> QED
    BY <1>8, <2>2, <2>3
<1>12. own => p.views["Optional"].sizes[f] \in Nat
  BY <1>7, <1>9
<1> QED
  BY <1>4, <1>10, <1>11, <1>12

LEMMA EditHolds ==
    ASSUME Held, NEW w \in Wrappers, NEW name, NEW v \in Nat, SetNumValue(w, name, v)
    PROVE  Held' /\ UNCHANGED wraps
<1>1. IsSeen(pe)
  BY SeenIs DEF pe, Held
<1>2. PICK p, wr, f :
         /\ p = pe /\ wr = Wrapper(p, w) /\ f \in DOMAIN p.views[w].names /\ wr.ptr # NoPtr
         /\ file' = [file EXCEPT !.bytes = Written(@, FieldPtr(p, wr, f), FieldSize(p, wr, f), v)]
  BY DEF SetNumValue
<1>3. Typed(p, wr) /\ wr.name = w
  BY <1>1, <1>2, WrapperTyped
<1>4. f \in 1..Len(p.views[w].names)
  BY <1>1, <1>2, SeenFits DEF Fits
<1>5. PICK at, size : at = FieldPtr(p, wr, f) /\ size = FieldSize(p, wr, f)
  OBVIOUS
<1>6. at \in Int /\ size \in Int
  <2>1. at \in Nat \/ at = NoPtr
    BY <1>1, <1>2, <1>3, <1>4, <1>5, FieldPtrTyped
  <2>2. size \in Int
    BY <1>1, <1>2, <1>3, <1>4, <1>5, FieldSizeTyped
  <2> QED
    BY <2>1, <2>2 DEF NoPtr
<1>7. /\ file = [bytes |-> file.bytes, len |-> file.len, bits |-> file.bits] /\ file.bits \in Modes
      /\ file.len \in Nat /\ \A o \in DOMAIN file.bytes : file.bytes[o] \in Nat
  BY DEF Held, IsFile, Content
<1>8. PICK bytes : bytes = Written(file.bytes, at, size, v)
  OBVIOUS
<1>9. \A o \in DOMAIN bytes : bytes[o] \in Nat
  BY <1>6, <1>7, <1>8, WrittenBytes
<1>10. file' = [bytes |-> bytes, len |-> file.len, bits |-> file.bits]
  BY <1>2, <1>5, <1>7, <1>8
<1>11. IsFile(file')
  BY <1>7, <1>9, <1>10 DEF IsFile, Content
<1>12. UNCHANGED <<tables, entries, live, wraps>>
  BY DEF SetNumValue
<1>13. DOMAIN tables' = 1..5 /\ TablesOwnEntries'
  BY <1>12 DEF Held, TablesOwnEntries
<1> QED
  BY <1>11, <1>12, <1>13 DEF Held

LEMMA HeldNext ==
    ASSUME Held, [Next]_vars
    PROVE  Held'
<1>1. CASE Rewrap
  BY <1>1, RewrapHolds
<1>2. CASE \E n \in Lengths : Resize(n)
  BY <1>2, CutHolds
<1>3. CASE \E e \in Edits : SetNumValue(e[1], e[2], e[3])
  <2>1. PICK e \in Edits : SetNumValue(e[1], e[2], e[3])
    BY <1>3
  <2>2. e[1] \in Wrappers /\ e[3] \in Nat
    BY FieldsAssumption
  <2> QED
    BY <2>1, <2>2, EditHolds
<1>4. CASE UNCHANGED vars
  BY <1>4 DEF vars, Held, TablesOwnEntries
<1> QED
  BY <1>1, <1>2, <1>3, <1>4 DEF Next

\* What the file and the tables keep.
LEMMA AlwaysHeld == Spec => []Held
<1>1. Held /\ [Next]_vars => Held'
  BY HeldNext
<1> QED
  BY <1>1, HeldAtFirst, PTL DEF Spec

\* LdConfigDirWrapper::clear, getSubfieldWrapper: after any number of wraps,
\* resizes and edits the lists of the five tables are the list of all entries,
\* in their order and each entry once, and these are the ones not deleted.
THEOREM EntriesAreOwned == Spec => []TablesOwnEntries
<1>1. Held => TablesOwnEntries
  BY DEF Held
<1> QED
  BY <1>1, AlwaysHeld, PTL

-----------------------------------------------------------------------------
(* The certificate *)

LEMMA CertificateEnds ==
    ASSUME NEW p, IsSeen(p), CertificateFits(p)
    PROVE  EndsInFile(p)
<1>1. "Security" \in Wrappers /\ p.bits \in Modes /\ p.views = Views[p.bits]
  BY DEF Wrappers, Directories, IsSeen
<1>2. p.views["Security"].delta[4] = 8
  BY <1>1, SecurityView
<1>3. PICK cert : cert = Ptr(p, "Security")
  OBVIOUS
<1>4. cert \in Nat
  BY <1>1, <1>3, PtrTyped DEF CertificateFits, Present
<1>5. Num(p, cert, 4) \in Nat /\ p.len \in Nat
  BY NumNat DEF IsSeen, Content
<1>6. PICK at, n : at = cert + 8 /\ n = Num(p, cert, 4) - 10 /\ at + n \in 0..p.len
  BY <1>2, <1>3 DEF CertificateFits, FieldsOfCertificate
<1>7. cert + Num(p, cert, 4) <= p.len + 2
  BY <1>4, <1>5, <1>6
<1> QED
  BY <1>3, <1>7 DEF EndsInFile

LEMMA CertificateNext ==
    ASSUME Held, [Next]_vars
    PROVE  wraps' # wraps => (sizeOk => \A p \in {pe} : EndsInFile(p))'
<1>1. ASSUME wraps' # wraps, sizeOk'
      PROVE  EndsInFile(pe')
  <2>1. CASE Rewrap \/ \E n \in Lengths : Resize(n)
    <3>1. IsSeen(pe') /\ sizeOk' = CertificateFits(pe')
      BY <2>1, RewrapHolds, CutHolds
    <3>2. CertificateFits(pe')
      BY <1>1, <3>1
    <3> QED
      BY <3>1, <3>2, CertificateEnds
  <2>2. CASE \E e \in Edits : SetNumValue(e[1], e[2], e[3])
    BY <1>1, <2>2 DEF SetNumValue
  <2>3. CASE UNCHANGED vars
    BY <1>1, <2>3 DEF vars
  <2> QED
    BY <2>1, <2>2, <2>3 DEF Next
<1>2. (\A p \in {pe} : EndsInFile(p))' <=> EndsInFile(pe')
  OBVIOUS
<1> QED
  BY <1>1, <1>2

\* SecurityDirWrapper::wrap: of every buffer, a certificate that a wrap takes
\* for whole ends at most two bytes behind the end of the file.
THEOREM CertificateStaysInFile == Spec => CertificateInFile
<1>1. Held /\ [Next]_vars => [wraps' # wraps => (sizeOk => \A p \in {pe} : EndsInFile(p))']_vars
  BY CertificateNext
<1> QED
  BY <1>1, AlwaysHeld, PTL DEF Spec, CertificateInFile

-----------------------------------------------------------------------------
(* The sizes of the fields *)

\* What getFieldsCount and getSize make of the load configuration.
LEMMA ConfigWrapper ==
    ASSUME NEW p, IsSeen(p), NEW wr, wr = Wrapper(p, "LdConfig")
    PROVE  /\ DOMAIN p.views["LdConfig"].delta = 1..47
           /\ 1..wr.count = IF wr.size < 4 THEN {} ELSE Listed(p.views["LdConfig"].delta, 47, wr.size)
           /\ wr.ptr # NoPtr => wr.size <= wr.limit /\ wr.ptr + wr.size <= p.len
<1>1. "LdConfig" \in Wrappers /\ p.bits \in Modes /\ p.views = Views[p.bits]
  BY DEF Wrappers, Directories, IsSeen
<1>2. IsConfig(p.views["LdConfig"].delta)
  BY <1>1, ConfigView
<1>3. PICK size : size = Size(p, "LdConfig", Ptr(p, "LdConfig"))
  OBVIOUS
<1>4. size \in Nat
  BY <1>1, <1>3, SizeTyped
<1>5. wr = WrapperOf(p, "LdConfig", Ptr(p, "LdConfig"), size)
  BY <1>3 DEF Wrapper
<1>6. wr.count = LdConfigFieldsCount(p, size) /\ wr.size = size /\ wr.limit = HdrDefinedSize(p)
      /\ wr.ptr = Ptr(p, "LdConfig")
  BY <1>5 DEF WrapperOf
<1>7. size = LdConfigSize(p) /\ Ptr(p, "LdConfig") = LdConfigPtr(p)
  BY <1>3 DEF Size, Ptr, CodeViews
<1>8. ASSUME wr.ptr # NoPtr
      PROVE  size <= HdrDefinedSize(p) /\ wr.ptr + size <= p.len
  <2>1. InFile(p, wr.ptr, size)
    BY <1>6, <1>7, <1>8 DEF LdConfigPtr
  <2>2. size > 0 /\ wr.ptr + size <= p.len
    BY <2>1 DEF InFile
  <2>3. PICK hdr, all : hdr = HdrDefinedSize(p) /\ all = p.views["LdConfig"].size
    OBVIOUS
  <2>4. hdr \in Nat /\ all \in Nat
    <3>1. \A at : Num(p, at, 4) \in Nat
      BY NumNat DEF IsSeen
    <3>2. hdr \in Nat
      BY <2>3, <3>1 DEF HdrDefinedSize
    <3> QED
      BY <1>1, <2>3, <3>2, SeenFits DEF Fits
  <2>5. size = 0 \/ size = IF hdr < all THEN hdr ELSE all
    BY <1>7, <2>3 DEF LdConfigSize
  <2>6. size <= hdr
    BY <2>2, <2>4, <2>5
  <2> QED
    BY <2>2, <2>3, <2>6
<1>9. 1..wr.count = IF size < 4 THEN {} ELSE Listed(p.views["LdConfig"].delta, 47, size)
  BY <1>2, <1>4, <1>6, ConfigCount
<1>10. DOMAIN p.views["LdConfig"].delta = 1..47
  BY <1>2 DEF IsConfig
<1> QED
  BY <1>6, <1>8, <1>9, <1>10

LEMMA HeldSeen == Held => IsSeen(pe)
  BY SeenIs DEF Held, pe

\* LdConfigDirWrapper::getFieldsCount: for every declared size, the fields that
\* are listed are those that begin in it, when the size itself is there.
THEOREM ListedStayDeclared == Spec => []ListedAreDeclared
<1>1. ASSUME Held
      PROVE  ListedAreDeclared
  <2> SUFFICES ASSUME NEW p, p = pe, NEW wr, wr = Wrapper(p, "LdConfig")
               PROVE  1..wr.count =
                        IF wr.size < 4 THEN {}
                        ELSE {f \in DOMAIN p.views["LdConfig"].delta : p.views["LdConfig"].delta[f] < wr.size}
    BY DEF ListedAreDeclared
  <2>1. IsSeen(p)
    BY <1>1, HeldSeen
  <2>2. PICK d, k, size : d = p.views["LdConfig"].delta /\ k = wr.count /\ size = wr.size
    OBVIOUS
  <2>3. DOMAIN d = 1..47 /\ 1..k = IF size < 4 THEN {} ELSE Listed(d, 47, size)
    BY <2>1, <2>2, ConfigWrapper
  <2>4. Listed(d, 47, size) = {f \in DOMAIN d : d[f] < size}
    BY <2>3 DEF Listed
  <2> QED
    BY <2>2, <2>3, <2>4
<1> QED
  BY <1>1, AlwaysHeld, PTL

\* How large a wrapper is, and which of its fields begin in it.
LEMMA PlainWrapper ==
    ASSUME NEW p, IsSeen(p), NEW w \in Wrappers, w # "LdConfig", NEW wr, wr = Wrapper(p, w)
    PROVE  /\ wr.limit = p.views[w].size /\ wr.count = Len(p.views[w].names)
           /\ w \notin {"Security"} \cup CodeViews => wr.size = p.views[w].size
<1>1. PICK size : size = Size(p, w, Ptr(p, w))
  OBVIOUS
<1>2. wr = WrapperOf(p, w, Ptr(p, w), size)
  BY <1>1 DEF Wrapper
<1>3. wr.limit = p.views[w].size /\ wr.count = Len(p.views[w].names) /\ wr.size = size
  BY <1>2 DEF WrapperOf
<1>4. w \notin {"Security"} \cup CodeViews => size = p.views[w].size
  BY <1>1 DEF Size, CodeViews
<1> QED
  BY <1>3, <1>4

\* OptHdrWrapper::getFieldSize: a field with a rule of its own.
HasRule(p, w, f) == w = "Optional" /\ p.bits = 64 /\ p.views["Optional"].names[f] \in {"BaseOfCode", ""}

\* The bytes that are shown for a field, unless the property has an exception.
Covers(p, w, wr, f) ==
    \/ FieldSize(p, wr, f) = p.views[w].sizes[f]
    \/ FieldPtr(p, wr, f) = NoPtr /\ FieldSize(p, wr, f) = 0
    \/ w = "NB10" /\ f = 1
    \/ f = wr.count /\ w \in {"LdConfig", "Security"} \cup CodeViews

LEMMA FollowedCovers ==
    ASSUME NEW p, IsSeen(p), NEW w \in Wrappers, NEW wr, wr = Wrapper(p, w), wr.ptr # NoPtr,
           NEW f \in 1..wr.count, f + 1 <= wr.count, FieldPtr(p, wr, f) # NoPtr,
           ~HasRule(p, w, f)
    PROVE  Covers(p, w, wr, f)
<1>1. PICK v, n : v = p.views[w] /\ n = Len(v.names)
  OBVIOUS
<1>2. Typed(p, wr) /\ wr.name = w
  BY WrapperTyped
<1>3. PICK k, at, size, limit : k = wr.count /\ at = wr.ptr /\ size = wr.size /\ limit = wr.limit
  OBVIOUS
<1>k. n \in Nat /\ k \in 0..n /\ at \in Nat /\ size \in Nat /\ limit \in Nat
  BY <1>1, <1>2, <1>3, SeenFits DEF Typed, Fits
<1>f. f \in 1..k /\ f + 1 <= k
  BY <1>3
<1>4. f \in 1..n-1 /\ f + 1 \in 1..n /\ ~(f > k) /\ f + 1 \in 1..k
  BY <1>k, <1>f
<1>5. OwnRule(v, w, p.bits, f) \/ Follows(v, f)
  BY <1>1, <1>4, SeenFits DEF Fits
<1>6. CASE OwnRule(v, w, p.bits, f)
  <2>1. w = "NB10" /\ f = 1
    BY <1>1, <1>6 DEF OwnRule, HasRule
  <2> QED
    BY <2>1 DEF Covers
<1>7. CASE Follows(v, f)
  <2>1. PICK a, b, s : a = v.delta[f] /\ b = v.delta[f+1] /\ s = v.sizes[f]
    OBVIOUS
  <2>2. a \in Nat /\ s \in Nat /\ b = a + s /\ b < v.size
    BY <1>7, <2>1 DEF Follows
  <2>3. v.size \in Nat
    BY <1>1, SeenFits DEF Fits
  <2>4. b < limit /\ (w = "LdConfig" => InFile(p, at + b, 1))
    <3>1. CASE w # "LdConfig"
      <4>1. limit = v.size
        BY <1>1, <1>3, <3>1, PlainWrapper
      <4> QED
        BY <2>2, <3>1, <4>1
    <3>2. CASE w = "LdConfig"
      <4>1. /\ 1..k = IF size < 4 THEN {} ELSE Listed(v.delta, 47, size)
            /\ size <= limit /\ at + size <= p.len
        BY <1>1, <1>3, <3>2, ConfigWrapper
      <4>2. f + 1 \in Listed(v.delta, 47, size)
        BY <1>4, <4>1
      <4>3. b < size
        BY <2>1, <4>2 DEF Listed
      <4>4. PICK len \in Nat : len = p.len
        BY DEF IsSeen, Content
      <4>5. at + b >= 0 /\ 1 > 0 /\ at + b < len /\ (at + b) + 1 <= len /\ b < limit
        BY <1>k, <2>2, <4>1, <4>3, <4>4
      <4> QED
        BY <4>4, <4>5 DEF InFile
    <3> QED
      BY <3>1, <3>2
  <2>5. FieldPtr(p, wr, f) = at + a
    BY <1>1, <1>2, <1>3, <2>1 DEF FieldPtr
  <2>6. FieldPtr(p, wr, f + 1) = at + b
    <3>1. b # NoPtr /\ ~(b >= limit)
      BY <1>k, <2>2, <2>4 DEF NoPtr
    <3> QED
      BY <1>1, <1>2, <1>3, <2>1, <2>4, <3>1 DEF FieldPtr
  <2>7. PICK ptr, next : ptr = FieldPtr(p, wr, f) /\ next = FieldPtr(p, wr, f + 1)
    OBVIOUS
  <2>8. ptr = at + a /\ next = at + b
    BY <2>5, <2>6, <2>7
  <2>9. ptr # NoPtr /\ next # NoPtr /\ ~(next < ptr) /\ next - ptr = s
    BY <1>k, <2>2, <2>8 DEF NoPtr
  <2>10. FieldSize(p, wr, f) = next - ptr
    BY <1>2, <1>3, <1>4, <2>7, <2>9 DEF FieldSize, HasRule
  <2> QED
    BY <1>1, <2>1, <2>9, <2>10 DEF Covers
<1> QED
  BY <1>5, <1>6, <1>7

LEMMA LastCovers ==
    ASSUME NEW p, IsSeen(p), NEW w \in Wrappers, NEW wr, wr = Wrapper(p, w), wr.ptr # NoPtr,
           NEW f \in 1..wr.count, ~(f + 1 <= wr.count), FieldPtr(p, wr, f) # NoPtr,
           ~HasRule(p, w, f)
    PROVE  Covers(p, w, wr, f)
<1>1. PICK v, n : v = p.views[w] /\ n = Len(v.names)
  OBVIOUS
<1>2. Typed(p, wr) /\ wr.name = w
  BY WrapperTyped
<1>3. PICK k, at, size : k = wr.count /\ at = wr.ptr /\ size = wr.size
  OBVIOUS
<1>k. n \in Nat /\ k \in 0..n /\ at \in Nat /\ v.size \in Nat
  BY <1>1, <1>2, <1>3, SeenFits DEF Typed, Fits
<1>f. f \in 1..k /\ ~(f + 1 <= k)
  BY <1>3
<1>4. f = k /\ ~(f > k)
  BY <1>k, <1>f
<1>5. CASE w \in {"LdConfig", "Security"} \cup CodeViews
  BY <1>3, <1>4, <1>5 DEF Covers
<1>6. CASE w \notin {"LdConfig", "Security"} \cup CodeViews
  <2>1. w # "LdConfig" /\ w # "Security" /\ w \notin {"Security"} \cup CodeViews
    BY <1>6
  <2>p. k = n /\ size = v.size
    BY <1>1, <1>3, <2>1, PlainWrapper
  <2>2. Ends(v, n)
    BY <1>1, <2>1, SeenFits DEF Fits
  <2>3. PICK a, s : a = v.delta[f] /\ s = v.sizes[f]
    OBVIOUS
  <2>4. a \in Nat /\ s \in Nat /\ a + s = v.size
    BY <1>4, <2>p, <2>2, <2>3 DEF Ends
  <2>5. PICK ptr : ptr = FieldPtr(p, wr, f)
    OBVIOUS
  <2>6. ptr = at + a
    BY <1>1, <1>2, <1>3, <2>3, <2>5 DEF FieldPtr
  <2>7. FieldSize(p, wr, f) = at + size - ptr
    BY <1>2, <1>3, <1>4, <1>f, <2>5 DEF FieldSize, HasRule
  <2>8. at + size - ptr = s
    BY <1>k, <2>p, <2>4, <2>6
  <2> QED
    BY <1>1, <2>3, <2>7, <2>8 DEF Covers
<1> QED
  BY <1>5, <1>6

LEMMA EveryFieldCovers ==
    ASSUME NEW p, IsSeen(p), NEW w \in Wrappers, NEW wr, wr = Wrapper(p, w), wr.ptr # NoPtr, NEW f \in 1..wr.count
    PROVE  Covers(p, w, wr, f)
<1>1. Typed(p, wr) /\ wr.name = w
  BY WrapperTyped
<1>2. wr.count \in Nat
  BY <1>1, SeenFits DEF Typed, Fits
<1>3. CASE HasRule(p, w, f)
  <2>1. FieldSize(p, wr, f) = p.views["Optional"].sizes[f]
    BY <1>1, <1>3 DEF FieldSize, HasRule
  <2> QED
    BY <1>3, <2>1 DEF Covers, HasRule
<1>4. CASE ~HasRule(p, w, f)
  <2>1. CASE FieldPtr(p, wr, f) = NoPtr
    <3>1. ~(f > wr.count)
      BY <1>2
    <3>2. FieldSize(p, wr, f) = 0
      BY <1>1, <1>4, <2>1, <3>1 DEF FieldSize, HasRule
    <3> QED
      BY <2>1, <3>2 DEF Covers
  <2>2. CASE FieldPtr(p, wr, f) # NoPtr
    BY <1>4, <2>2, FollowedCovers, LastCovers
  <2> QED
    BY <2>1, <2>2
<1> QED
  BY <1>3, <1>4

\* ExeElementWrapper::getFieldSize, getFieldPtr: for every file and
\* in both bit modes, each field of each wrapper is shown with the bytes of its
\* own member, with the exceptions that the property names; and a member that is
\* followed as an address is as wide as one.
THEOREM FieldsStayCovered == Spec => []FieldsCoverMembers
<1>1. ASSUME Held
      PROVE  FieldsCoverMembers
  <2> SUFFICES ASSUME NEW p, p = pe, NEW w \in Wrappers, NEW wr, wr = Wrapper(p, w), wr.ptr # NoPtr,
                      NEW f \in 1..wr.count
               PROVE  /\ \/ FieldSize(p, wr, f) \in {p.views[w].sizes[f]} \cup (IF FieldPtr(p, wr, f) = NoPtr THEN {0} ELSE {})
                         \/ w = "NB10" /\ f = 1
                         \/ f = wr.count /\ w \in {"LdConfig", "Security"} \cup CodeViews
                      /\ w \in DOMAIN AddrType /\ p.views[w].names[f] \in DOMAIN AddrType[w] =>
                            p.views[w].sizes[f] = AddrSize(w, p.views[w].names[f], p.bits)
    BY DEF FieldsCoverMembers, AddrSize
  <2>1. IsSeen(p)
    BY <1>1, HeldSeen
  <2>2. Covers(p, w, wr, f)
    BY <2>1, EveryFieldCovers
  <2>3. AddrFits(p.views[w], w, p.bits, f)
    <3>1. Typed(p, wr) /\ wr.name = w
      BY <2>1, WrapperTyped
    <3>2. Fits(p.views[w], w, p.bits)
      BY <2>1, SeenFits
    <3>3. f \in 1..Len(p.views[w].names)
      BY <3>1, <3>2 DEF Typed, Fits
    <3> QED
      BY <3>2, <3>3 DEF Fits
  <2> QED
    BY <2>2, <2>3 DEF Covers, AddrFits
<1> QED
  BY <1>1, AlwaysHeld, PTL

=============================================================================
