---------------------------- MODULE Resources_proof ----------------------------
(***************************************************************************)
(* The album of a resource directory owns what is alive, its contents are  *)
(* of the types that the file names, and it holds one leaf for every path  *)
(* through the tree, for every file, every depth and every number of       *)
(* entries.                                                                *)
(***************************************************************************)
EXTENDS Resources, FiniteSetTheorems, WellFoundedInduction, TLAPS

\* The leafs of the entries in S.
LeafsOfEntries(S, u, len, base, w) == [i \in S |-> Leafs(u, len, base, i, w)]

\* A leaf knows the entry of the root it lies below.
LEMMA TopOfLeaf ==
    ASSUME NEW S, NEW u, NEW len, NEW base, NEW w,
           NEW l \in LeafWrappers(LeafsOfEntries(S, u, len, base, w))
    PROVE  l.top \in S
<1>1. PICK i \in S : l \in Range(Leafs(u, len, base, i, w))
  BY DEF LeafWrappers, LeafsOfEntries
<1>2. PICK k : l = [made |-> w, top |-> i, nr |-> k, at |-> LeafsOf(u, len, base, i)[k]]
  BY <1>1 DEF Range, Leafs
<1> QED
  BY <1>2

\* What a content is made from.
LEMMA ContentType ==
    ASSUME NEW leaf, NEW type
    PROVE  Content(leaf, type).type = type
  BY DEF Content

LEMMA EmptyRange == Range(<<>>) = {}
  BY DEF Range

-----------------------------------------------------------------------------
(* The album owns what is alive *)

LEMMA OwnedInit == Init => AlbumOwnsLive
  BY DEF Init, AlbumOwnsLive

\* Every leaf and content wrapper is deleted before the tree is walked again.
LEMMA OwnedStep == AlbumOwnsLive /\ [Next]_vars => AlbumOwnsLive'
<1> SUFFICES ASSUME AlbumOwnsLive, [Next]_vars
             PROVE  AlbumOwnsLive'
  OBVIOUS
<1>1. Kept = {}
  BY DEF AlbumOwnsLive, Kept, ClearLeafsContent
<1>2. ASSUME NEW len, Resize(len)
      PROVE  AlbumOwnsLive'
  BY <1>1, <1>2 DEF Resize, WrapLeafsContent, AlbumOwnsLive
<1>3. ASSUME NEW to, MoveDir(to)
      PROVE  AlbumOwnsLive'
  <2>1. leafToContent' = <<>> /\ live' = Kept \cup LeafWrappers(allLeafs')
    BY <1>3 DEF MoveDir, LeafsWithoutContent
  <2> QED
    BY <1>1, <2>1, EmptyRange DEF AlbumOwnsLive
<1>4. CASE UNCHANGED vars
  BY <1>4 DEF vars, album, AlbumOwnsLive
<1> QED
  BY <1>2, <1>3, <1>4 DEF Next

\* Wrapping again, resizing and moving, in any order, neither leak a leaf or a
\* content wrapper nor keep one that was deleted, for every file (AlbumOwnsLive).
THEOREM NothingIsLeaked == Spec => []AlbumOwnsLive
<1>1. Init => AlbumOwnsLive
  BY OwnedInit
<1>2. AlbumOwnsLive /\ [Next]_vars => AlbumOwnsLive'
  BY OwnedStep
<1> QED
  BY <1>1, <1>2, PTL DEF Spec

-----------------------------------------------------------------------------
(* The types of the contents *)

LEMMA CurrentInit == Init => ContentsCurrent
<1> SUFFICES ASSUME Init
             PROVE  ContentsCurrent
  OBVIOUS
<1>1. PICK f \in Files :
        /\ units = f.units /\ fileLen = f.len /\ root = f.root
        /\ allLeafs = LeafsOfEntries({j \in 1..entriesNum : LeafsOf(units, fileLen, root, j) # <<>>}, units, fileLen, root, 1)
        /\ idToLeafType = [i \in 1..entriesNum |-> units[root + i].id]
        /\ leafToContent = [l \in LeafWrappers(allLeafs) |-> Content(l, TypeOf(idToLeafType, l.top))]
  BY DEF Init, LeafsOfEntries
<1>2. ASSUME NEW l \in LeafWrappers(allLeafs)
      PROVE  leafToContent[l].type = units[root + l.top].id
  <2>1. l.top \in 1..entriesNum
    BY <1>1, TopOfLeaf
  <2>2. TypeOf(idToLeafType, l.top) = units[root + l.top].id
    BY <1>1, <2>1 DEF TypeOf
  <2> QED
    BY <1>1, <2>2, ContentType
<1> QED
  BY <1>1, <1>2 DEF ContentsCurrent

LEMMA ResizedCurrent ==
    ASSUME NEW len, Resize(len)
    PROVE  ContentsCurrent'
<1> DEFINE n == EntriesAt(units', fileLen', root')
<1>1. /\ allLeafs' = LeafsOfEntries({j \in 1..n : LeafsOf(units', fileLen', root', j) # <<>>}, units', fileLen', root', wraps')
      /\ idToLeafType' = MapIdToLeafType(idToLeafType, [i \in 1..n |-> units'[root' + i].id])
      /\ leafToContent' = [l \in LeafWrappers(allLeafs') |-> Content(l, TypeOf(idToLeafType', l.top))]
  BY DEF Resize, WrapRoot, WrapLeafsContent, LeafsOfEntries
<1> HIDE DEF n
<1>2. ASSUME NEW l \in LeafWrappers(allLeafs')
      PROVE  leafToContent'[l].type = units'[root' + l.top].id
  <2>1. l.top \in 1..n
    BY <1>1, TopOfLeaf
  <2>2. TypeOf(idToLeafType', l.top) = units'[root' + l.top].id
    BY <1>1, <2>1 DEF TypeOf, MapIdToLeafType, Over
  <2> QED
    BY <1>1, <2>2, ContentType
<1>3. DOMAIN leafToContent' = LeafWrappers(allLeafs')
  BY <1>1
<1> QED
  BY <1>2, <1>3 DEF ContentsCurrent, LeafWrappers

LEMMA CurrentStep == ContentsCurrent /\ [Next]_vars => ContentsCurrent'
<1> SUFFICES ASSUME ContentsCurrent, [Next]_vars
             PROVE  ContentsCurrent'
  OBVIOUS
<1>1. ASSUME NEW len, Resize(len)
      PROVE  ContentsCurrent'
  BY <1>1, ResizedCurrent
<1>2. ASSUME NEW to, MoveDir(to)
      PROVE  ContentsCurrent'
  BY <1>2 DEF MoveDir, LeafsWithoutContent, ContentsCurrent
<1>3. CASE UNCHANGED vars
  BY <1>3 DEF vars, file, album, ContentsCurrent, LeafWrappers
<1> QED
  BY <1>1, <1>2, <1>3 DEF Next

\* The contents the album hands out are those of all its leafs or of none, and
\* of the types in the file, although the types of earlier wraps are kept in the
\* same map, for every file (ContentsCurrent).
THEOREM ContentsStayCurrent == Spec => []ContentsCurrent
<1>1. Init => ContentsCurrent
  BY CurrentInit
<1>2. ContentsCurrent /\ [Next]_vars => ContentsCurrent'
  BY CurrentStep
<1> QED
  BY <1>1, <1>2, PTL DEF Spec

-----------------------------------------------------------------------------
(* Induction *)

\* A set of numbers that is not empty has a least one.
LEMMA LeastNumber ==
    ASSUME NEW T, T \subseteq Nat, T # {}
    PROVE  \E m \in T : \A k \in T : m <= k
<1> DEFINE R == {ss \in Nat \X Nat : ss[1] < ss[2]}
<1>1. R = OpToRel(<, Nat)
  BY DEF OpToRel
<1>2. IsWellFoundedOn(R, Nat)
  BY <1>1, NatLessThanWellFounded
<1> HIDE DEF R
<1>3. PICK m \in T : \A k \in T : ~(<<k, m>> \in R)
  BY <1>2, WFMin
<1>4. ASSUME NEW k \in T
      PROVE  m <= k
  <2>1. k \in Nat /\ m \in Nat
    OBVIOUS
  <2>2. ~(k < m)
    BY <1>3, <2>1 DEF R
  <2> QED
    BY <2>1, <2>2
<1> QED
  BY <1>4

\* A set that holds 0, and with each number the next one, holds all up to n.
LEMMA Climb ==
    ASSUME NEW n \in Nat, NEW S, 0 \in S, \A k \in 0..n : k < n /\ k \in S => k + 1 \in S
    PROVE  \A k \in 0..n : k \in S
<1> DEFINE T == {k \in 0..n : k \notin S}
<1>1. T \subseteq Nat
  OBVIOUS
<1> SUFFICES ASSUME T # {}
             PROVE  FALSE
  OBVIOUS
<1>2. PICK m \in T : \A k \in T : m <= k
  <2> HIDE DEF T
  <2> QED
    BY <1>1, LeastNumber
<1>3. m \in 0..n /\ m \notin S /\ m # 0
  OBVIOUS
<1>4. m - 1 \in 0..n /\ m - 1 < n /\ m - 1 \in S
  BY <1>2, <1>3
<1> QED
  BY <1>3, <1>4

-----------------------------------------------------------------------------
(* Paths *)

\* The units of a file, and where its tree begins.
TreeTyped(u, len, base) == u \in [0..FileMax-1 -> Unit] /\ len \in 0..FileMax /\ base \in 0..FileMax

\* The nodes on the way from n along p.
Walk(u, base, n, p) ==
    LET node[k \in 0..Len(p)] == IF k = 0 THEN n ELSE ChildOf(u[node[k-1] + p[k]], base)
    IN node
EndOf(u, base, n, p) == Walk(u, base, n, p)[Len(p)]
LeafFrom(u, len, base, n, p) ==
    \A k \in 1..Len(p) :
        /\ p[k] <= EntriesAt(u, len, Walk(u, base, n, p)[k-1])
        /\ u[Walk(u, base, n, p)[k-1] + p[k]].dir <=> k < Len(p)

PathsOf(m) == UNION {[1..k -> 1..MaxEntries] : k \in 1..m}
LeafPaths(u, len, base, n, m) == {p \in PathsOf(m) : LeafFrom(u, len, base, n, p)}

\* There is a walk along every path.
LEMMA WalkIs ==
    ASSUME NEW u, NEW base, NEW n, NEW p, Len(p) \in Nat
    PROVE  /\ Walk(u, base, n, p)[0] = n
           /\ \A k \in 1..Len(p) : Walk(u, base, n, p)[k] = ChildOf(u[Walk(u, base, n, p)[k-1] + p[k]], base)
<1> DEFINE Body(f, k) == IF k = 0 THEN n ELSE ChildOf(u[f[k-1] + p[k]], base)
           node == CHOOSE f : f = [k \in 0..Len(p) |-> Body(f, k)]
           Walks(m) == \E f : f = [k \in 0..m |-> Body(f, k)]
           S == {m \in 0..Len(p) : Walks(m)}
<1>1. Walk(u, base, n, p) = node
  BY DEF Walk
<1>2. Walks(0)
  <2> DEFINE f == [k \in 0..0 |-> n]
  <2>1. \A k \in 0..0 : Body(f, k) = n
    OBVIOUS
  <2>2. f = [k \in 0..0 |-> Body(f, k)]
    BY <2>1
  <2> QED
    BY <2>2
<1>3. ASSUME NEW m \in 0..Len(p), m < Len(p), Walks(m)
      PROVE  Walks(m + 1)
  <2>1. PICK f : f = [k \in 0..m |-> Body(f, k)]
    BY <1>3
  <2> DEFINE g == [k \in 0..m+1 |-> IF k = m + 1 THEN Body(f, m + 1) ELSE f[k]]
  <2>2. \A k \in 0..m : g[k] = f[k] /\ k \in 0..m+1 /\ k # m + 1
    OBVIOUS
  <2>3. \A k \in 0..m+1 : k # 0 => k - 1 \in 0..m
    OBVIOUS
  <2>4. \A k \in 0..m+1 : Body(g, k) = Body(f, k)
    BY <2>2, <2>3
  <2>5. \A k \in 0..m : f[k] = Body(f, k)
    <3> HIDE DEF Body
    <3> QED
      BY <2>1
  <2>6. \A k \in 0..m+1 : k = m + 1 \/ k \in 0..m
    OBVIOUS
  <2> HIDE DEF Body
  <2>7. \A k \in 0..m+1 : g[k] = Body(f, k)
    BY <2>2, <2>5, <2>6
  <2>8. g = [k \in 0..m+1 |-> Body(g, k)]
    BY <2>4, <2>7
  <2> QED
    BY <2>8
<1> HIDE DEF Walks
<1>4. Walks(Len(p))
  <2>1. 0 \in S /\ \A k \in 0..Len(p) : k < Len(p) /\ k \in S => k + 1 \in S
    BY <1>2, <1>3
  <2> HIDE DEF S
  <2>2. \A k \in 0..Len(p) : k \in S
    BY <2>1, Climb
  <2>3. Len(p) \in S
    BY <2>2
  <2> QED
    BY <2>3 DEF S
<1>5. node = [k \in 0..Len(p) |-> Body(node, k)]
  BY <1>4 DEF Walks
<1> HIDE DEF node
<1>6. \A k \in 0..Len(p) : node[k] = Body(node, k)
  <2> HIDE DEF Body
  <2> QED
    BY <1>5
<1> QED
  BY <1>1, <1>6

\* The entries that are read of a directory are in the file.
LEMMA EntriesBound ==
    ASSUME NEW u, NEW len, NEW base, TreeTyped(u, len, base), NEW n \in Offsets
    PROVE  /\ EntriesAt(u, len, n) \in 0..MaxEntries
           /\ \A i \in 1..EntriesAt(u, len, n) :
                 /\ u[n + i] \in Unit /\ ChildOf(u[n + i], base) \in Offsets
                 /\ u[n + i].dir \in BOOLEAN
<1>1. FileMax \in Nat /\ RelMax \in Nat /\ MaxEntries \in Nat
  BY ResourceAssumption
<1>2. n \in Nat /\ len \in 0..FileMax /\ base \in 0..FileMax /\ u \in [0..FileMax-1 -> Unit]
  BY <1>1 DEF TreeTyped, Offsets
<1>3. EntriesAt(u, len, n) \in 0..MaxEntries /\ \A i \in 1..EntriesAt(u, len, n) : n + i < len
  <2>1. CASE n >= len
    BY <1>1, <1>2, <2>1 DEF EntriesAt
  <2>2. CASE ~(n >= len)
    <3>1. n \in 0..FileMax-1
      BY <1>1, <1>2, <2>2
    <3>2. PICK num \in Nat : num = u[n].num
      BY <1>2, <3>1 DEF Unit
    <3>3. EntriesAt(u, len, n) = Least(Least(num, MaxEntries), len - n - 1)
      BY <2>2, <3>2 DEF EntriesAt
    <3> QED
      BY <1>1, <1>2, <2>2, <3>3 DEF Least
  <2> QED
    BY <2>1, <2>2
<1>4. ASSUME NEW i \in 1..EntriesAt(u, len, n)
      PROVE  u[n + i] \in Unit /\ ChildOf(u[n + i], base) \in Offsets /\ u[n + i].dir \in BOOLEAN
  <2>1. n + i \in 0..FileMax-1
    BY <1>1, <1>2, <1>3
  <2>2. u[n + i] \in Unit
    BY <1>2, <2>1
  <2>3. u[n + i].rel \in 0..RelMax /\ u[n + i].dir \in BOOLEAN
    BY <2>2 DEF Unit
  <2> QED
    BY <1>1, <1>2, <2>2, <2>3 DEF ChildOf, Offsets
<1> QED
  BY <1>3, <1>4

\* The path that takes entry i and then goes on along q.
Via(i, q) == [j \in 1..Len(q)+1 |-> IF j = 1 THEN i ELSE q[j-1]]

LEMMA PathTyped ==
    ASSUME NEW m \in Nat, NEW p \in PathsOf(m)
    PROVE  /\ Len(p) \in 1..m /\ p \in [1..Len(p) -> 1..MaxEntries]
           /\ p \in Seq(Nat) /\ p[1] \in 1..MaxEntries
<1>1. PICK k \in 1..m : p \in [1..k -> 1..MaxEntries]
  BY DEF PathsOf
<1>2. 1..MaxEntries \subseteq Nat /\ 1 \in 1..k
  BY ResourceAssumption
<1>3. p \in Seq(Nat) /\ Len(p) = k
  BY <1>1, <1>2
<1> QED
  BY <1>1, <1>2, <1>3

LEMMA ViaTyped ==
    ASSUME NEW m \in Nat, NEW q \in PathsOf(m), NEW i \in 1..MaxEntries
    PROVE  /\ Via(i, q) \in PathsOf(m + 1) /\ Len(Via(i, q)) = Len(q) + 1
           /\ Via(i, q)[1] = i /\ \A j \in 1..Len(q) : Via(i, q)[j+1] = q[j]
<1>1. Len(q) \in 1..m /\ q \in [1..Len(q) -> 1..MaxEntries]
  BY PathTyped
<1>2. PICK l \in 1..m : l = Len(q)
  BY <1>1
<1>3. Via(i, q) \in [1..l+1 -> 1..MaxEntries]
  BY <1>1, <1>2 DEF Via
<1>4. l + 1 \in 1..m+1 /\ l + 1 \in Nat
  BY <1>2
<1>5. Len(Via(i, q)) = l + 1
  BY <1>2, <1>4 DEF Via
<1>6. Via(i, q) \in PathsOf(m + 1)
  BY <1>3, <1>4 DEF PathsOf
<1>7. Via(i, q)[1] = i /\ \A j \in 1..l : Via(i, q)[j+1] = q[j]
  BY <1>2 DEF Via
<1> QED
  BY <1>2, <1>5, <1>6, <1>7

\* Behind its first entry a path is one from the child.
LEMMA WalkVia ==
    ASSUME NEW u, NEW base, NEW n, NEW m \in Nat, NEW q \in PathsOf(m), NEW i \in 1..MaxEntries
    PROVE  \A k \in 0..Len(q) :
               Walk(u, base, n, Via(i, q))[k+1] = Walk(u, base, ChildOf(u[n + i], base), q)[k]
<1> DEFINE child == ChildOf(u[n + i], base)
           p == Via(i, q)
<1>1. PICK l \in 1..m : l = Len(q)
  BY PathTyped
<1>2. Len(p) = l + 1 /\ p[1] = i /\ \A j \in 1..l : p[j+1] = q[j]
  BY <1>1, ViaTyped
<1> HIDE DEF child, p
<1>3. /\ Walk(u, base, n, p)[0] = n
      /\ \A k \in 1..l+1 : Walk(u, base, n, p)[k] = ChildOf(u[Walk(u, base, n, p)[k-1] + p[k]], base)
  BY <1>1, <1>2, WalkIs
<1>4. /\ Walk(u, base, child, q)[0] = child
      /\ \A k \in 1..l : Walk(u, base, child, q)[k] = ChildOf(u[Walk(u, base, child, q)[k-1] + q[k]], base)
  BY <1>1, WalkIs
<1> DEFINE S == {k \in 0..l : Walk(u, base, n, p)[k+1] = Walk(u, base, child, q)[k]}
<1>5. 0 \in S
  <2>1. 1 \in 1..l+1 /\ 1 - 1 = 0 /\ 0 + 1 = 1 /\ 0 \in 0..l
    BY <1>1
  <2> QED
    BY <1>2, <1>3, <1>4, <2>1 DEF child
<1>6. ASSUME NEW k \in 0..l, k < l, k \in S
      PROVE  k + 1 \in S
  <2>1. k + 2 \in 1..l+1 /\ k + 1 \in 1..l /\ k + 1 \in 0..l /\ (k + 2) - 1 = k + 1 /\ (k + 1) - 1 = k /\ (k + 1) + 1 = k + 2
    BY <1>6
  <2>2. Walk(u, base, n, p)[k+2] = ChildOf(u[Walk(u, base, n, p)[k+1] + p[k+2]], base)
    BY <1>3, <2>1
  <2>3. Walk(u, base, child, q)[k+1] = ChildOf(u[Walk(u, base, child, q)[k] + q[k+1]], base)
    BY <1>4, <2>1
  <2>4. p[k+2] = q[k+1]
    BY <1>2, <2>1
  <2> QED
    BY <1>6, <2>1, <2>2, <2>3, <2>4
<1>7. \A k \in 0..l : k \in S
  <2> HIDE DEF S
  <2> QED
    BY <1>5, <1>6, Climb
<1> QED
  BY <1>1, <1>7 DEF p, child

LEMMA LeafVia ==
    ASSUME NEW u, NEW len, NEW base, TreeTyped(u, len, base), NEW n \in Offsets,
           NEW i \in 1..EntriesAt(u, len, n), u[n + i].dir, NEW m \in Nat, NEW q \in PathsOf(m)
    PROVE  /\ LeafFrom(u, len, base, n, Via(i, q)) <=> LeafFrom(u, len, base, ChildOf(u[n + i], base), q)
           /\ EndOf(u, base, n, Via(i, q)) = EndOf(u, base, ChildOf(u[n + i], base), q)
<1> DEFINE child == ChildOf(u[n + i], base)
           p == Via(i, q)
           wp == Walk(u, base, n, p)
           wq == Walk(u, base, child, q)
<1>1. PICK l \in Nat \ {0} : l = Len(q)
  BY PathTyped
<1>2. PICK e \in Nat : e = EntriesAt(u, len, n) /\ e <= MaxEntries /\ i \in 1..e
  BY EntriesBound, ResourceAssumption
<1>3. i \in 1..MaxEntries
  BY <1>2, ResourceAssumption
<1>4. Len(p) = l + 1 /\ p[1] = i /\ \A j \in 1..l : p[j+1] = q[j]
  BY <1>1, <1>3, ViaTyped
<1>5. \A k \in 0..l : wp[k+1] = wq[k]
  BY <1>1, <1>3, WalkVia
<1>6. wp[0] = n
  BY <1>4, <1>1, WalkIs
<1> DEFINE Good(w, r, k, z) == r[k] <= EntriesAt(u, len, w[k-1]) /\ (u[w[k-1] + r[k]].dir <=> k < z)
<1>7. LeafFrom(u, len, base, n, p) <=> \A k \in 1..l+1 : Good(wp, p, k, l + 1)
  BY <1>4 DEF LeafFrom
<1>8. LeafFrom(u, len, base, child, q) <=> \A k \in 1..l : Good(wq, q, k, l)
  BY <1>1 DEF LeafFrom
<1> HIDE DEF p, wp, wq, child
<1>9. Good(wp, p, 1, l + 1)
  <2>1. 1 - 1 = 0 /\ 1 < l + 1
    BY <1>1
  <2> QED
    BY <1>2, <1>4, <1>6, <2>1
<1>10. ASSUME NEW k \in 1..l
       PROVE  Good(wp, p, k + 1, l + 1) <=> Good(wq, q, k, l)
  <2>1. (k + 1) - 1 = k /\ k - 1 \in 0..l /\ (k - 1) + 1 = k
    BY <1>1
  <2>2. wp[k] = wq[k-1] /\ p[k+1] = q[k]
    BY <1>4, <1>5, <2>1
  <2>3. k + 1 < l + 1 <=> k < l
    BY <1>1
  <2> QED
    BY <2>1, <2>2, <2>3
<1> HIDE DEF Good
<1>11. \A k \in 1..l+1 : k = 1 \/ \E j \in 1..l : k = j + 1
  <2>1. \A k \in 1..l+1 : k # 1 => k - 1 \in 1..l /\ k = (k - 1) + 1
    BY <1>1
  <2> QED
    BY <2>1
<1>12. \A k \in 1..l : k + 1 \in 1..l+1
  BY <1>1
<1>13. LeafFrom(u, len, base, n, p) <=> LeafFrom(u, len, base, child, q)
  BY <1>7, <1>8, <1>9, <1>10, <1>11, <1>12
<1>14. EndOf(u, base, n, p) = wp[l+1] /\ EndOf(u, base, child, q) = wq[l]
  BY <1>1, <1>4 DEF EndOf, wp, wq
<1>15. wp[l+1] = wq[l]
  BY <1>1, <1>5
<1> QED
  BY <1>13, <1>14, <1>15 DEF p, child

Rest(p) == [j \in 1..Len(p)-1 |-> p[j+1]]

\* A path is one entry, of a leaf, or an entry of a directory and a path from there.
LEMMA LeafSplit ==
    ASSUME NEW u, NEW len, NEW base, TreeTyped(u, len, base), NEW n \in Offsets, NEW m \in Nat \ {0},
           NEW p \in LeafPaths(u, len, base, n, m)
    PROVE  /\ p[1] \in 1..EntriesAt(u, len, n)
           /\ ~u[n + p[1]].dir => p = [j \in 1..1 |-> p[1]]
           /\ u[n + p[1]].dir => m > 1 /\ Rest(p) \in PathsOf(m - 1) /\ p = Via(p[1], Rest(p))
<1>1. p \in PathsOf(m) /\ LeafFrom(u, len, base, n, p)
  BY DEF LeafPaths
<1>2. PICK l \in 1..m : l = Len(p)
  BY <1>1, PathTyped
<1>3. p \in [1..l -> 1..MaxEntries] /\ p[1] \in 1..MaxEntries
  BY <1>1, <1>2, PathTyped
<1>4. Walk(u, base, n, p)[0] = n
  BY <1>2, WalkIs
<1>5. p[1] <= EntriesAt(u, len, n) /\ (u[n + p[1]].dir <=> 1 < l)
  <2>1. 1 \in 1..l /\ 1 - 1 = 0
    BY <1>2
  <2> QED
    BY <1>1, <1>2, <1>4, <2>1 DEF LeafFrom
<1>6. p[1] \in 1..EntriesAt(u, len, n)
  BY <1>3, <1>5, EntriesBound
<1>7. CASE l = 1
  BY <1>3, <1>5, <1>6, <1>7
<1>8. CASE l # 1
  <2>1. 1 < l /\ l - 1 \in 1..m-1 /\ m > 1
    BY <1>2, <1>8
  <2>2. Rest(p) \in [1..l-1 -> 1..MaxEntries]
    BY <1>2, <1>3 DEF Rest
  <2>3. Rest(p) \in PathsOf(m - 1)
    BY <2>1, <2>2 DEF PathsOf
  <2>4. Len(Rest(p)) = l - 1
    BY <1>2, <2>1 DEF Rest
  <2>5. Via(p[1], Rest(p)) = [j \in 1..l |-> IF j = 1 THEN p[1] ELSE Rest(p)[j-1]]
    <3>1. (l - 1) + 1 = l
      BY <1>2
    <3> QED
      BY <2>4, <3>1 DEF Via
  <2>6. \A j \in 1..l : j # 1 => Rest(p)[j-1] = p[j]
    BY <1>2 DEF Rest
  <2>7. p = Via(p[1], Rest(p))
    BY <1>3, <2>5, <2>6
  <2> QED
    BY <1>5, <1>6, <2>1, <2>3, <2>7
<1> QED
  BY <1>7, <1>8

-----------------------------------------------------------------------------
(* The leafs that are listed *)

\* s lists, for each path of P just once, the node it leads to.
ListedBy(b, x, s, P, u, base, n) ==
    /\ b \in [1..x -> P]
    /\ \A j, k \in 1..x : b[j] = b[k] => j = k
    /\ \A p \in P : \E k \in 1..x : b[k] = p
    /\ \A k \in 1..x : s[k] = EndOf(u, base, n, b[k])
Listed(s, P, u, base, n) == s \in Seq(Nat) /\ \E b : ListedBy(b, Len(s), s, P, u, base, n)

LEMMA ListedNone ==
    ASSUME NEW u, NEW base, NEW n
    PROVE  Listed(<<>>, {}, u, base, n)
<1> DEFINE b == [k \in 1..0 |-> 0]
<1>1. b \in [1..0 -> {}] /\ \A k \in 1..0 : FALSE
  OBVIOUS
<1>2. <<>> \in Seq(Nat) /\ Len(<<>>) = 0
  OBVIOUS
<1> HIDE DEF b
<1>3. ListedBy(b, 0, <<>>, {}, u, base, n)
  BY <1>1 DEF ListedBy
<1> QED
  BY <1>2, <1>3 DEF Listed

LEMMA ListedOne ==
    ASSUME NEW u, NEW base, NEW n, NEW p, EndOf(u, base, n, p) \in Nat
    PROVE  Listed(<<EndOf(u, base, n, p)>>, {p}, u, base, n)
<1> DEFINE b == [k \in 1..1 |-> p]
           e == EndOf(u, base, n, p)
           s == <<e>>
<1>1. s \in Seq(Nat) /\ Len(s) = 1 /\ s[1] = e
  OBVIOUS
<1>2. b \in [1..1 -> {p}] /\ b[1] = p /\ \A k \in 1..1 : k = 1
  OBVIOUS
<1> HIDE DEF b
<1>3. \A k \in 1..1 : s[k] = EndOf(u, base, n, b[k])
  BY <1>1, <1>2
<1> HIDE DEF s
<1>4. ListedBy(b, 1, s, {p}, u, base, n)
  BY <1>2, <1>3 DEF ListedBy
<1> QED
  BY <1>1, <1>4 DEF Listed, s

\* One list behind the other.
LEMMA ListedJoin ==
    ASSUME NEW u, NEW base, NEW n, NEW s, NEW t, NEW P, NEW Q, P \cap Q = {},
           Listed(s, P, u, base, n), Listed(t, Q, u, base, n)
    PROVE  Listed(s \o t, P \cup Q, u, base, n)
<1>1. s \in Seq(Nat) /\ t \in Seq(Nat)
  BY DEF Listed
<1>2. PICK x \in Nat : x = Len(s)
  BY <1>1
<1>3. PICK y \in Nat : y = Len(t)
  BY <1>1
<1>l. PICK b : ListedBy(b, x, s, P, u, base, n)
  BY <1>2 DEF Listed
<1>m. PICK c : ListedBy(c, y, t, Q, u, base, n)
  BY <1>3 DEF Listed
<1>4. /\ b \in [1..x -> P]
      /\ \A j, k \in 1..x : b[j] = b[k] => j = k
      /\ \A p \in P : \E k \in 1..x : b[k] = p
      /\ \A k \in 1..x : s[k] = EndOf(u, base, n, b[k])
  BY <1>l DEF ListedBy
<1>5. /\ c \in [1..y -> Q]
      /\ \A j, k \in 1..y : c[j] = c[k] => j = k
      /\ \A p \in Q : \E k \in 1..y : c[k] = p
      /\ \A k \in 1..y : t[k] = EndOf(u, base, n, c[k])
  BY <1>m DEF ListedBy
<1> DEFINE r == s \o t
           d == [k \in 1..x+y |-> IF k <= x THEN b[k] ELSE c[k-x]]
<1>6. /\ r \in Seq(Nat) /\ Len(r) = x + y
      /\ \A k \in 1..x+y : r[k] = IF k <= x THEN s[k] ELSE t[k-x]
  BY <1>1, <1>2, <1>3
<1>7. \A k \in 1..x+y : IF k <= x THEN k \in 1..x ELSE k - x \in 1..y
  BY <1>2, <1>3
<1>8. \A k \in 1..x+y : d[k] = IF k <= x THEN b[k] ELSE c[k-x]
  OBVIOUS
<1>d. d = [k \in 1..x+y |-> d[k]]
  OBVIOUS
<1> HIDE DEF d, r
<1>9. \A k \in 1..x+y : IF k <= x THEN d[k] \in P ELSE d[k] \in Q
  BY <1>4, <1>5, <1>7, <1>8
<1>10. d \in [1..x+y -> P \cup Q]
  BY <1>9, <1>d
<1>11. ASSUME NEW j \in 1..x+y, NEW k \in 1..x+y, d[j] = d[k]
       PROVE  j = k
  <2>1. CASE j <= x /\ k <= x
    BY <1>4, <1>7, <1>8, <1>11, <2>1
  <2>2. CASE ~(j <= x) /\ ~(k <= x)
    <3>1. j - x \in 1..y /\ k - x \in 1..y /\ c[j-x] = c[k-x]
      BY <1>7, <1>8, <1>11, <2>2
    <3>2. j - x = k - x
      BY <1>5, <3>1
    <3> QED
      BY <1>2, <1>3, <3>2
  <2>3. CASE (j <= x) # (k <= x)
    BY <1>9, <1>11, <2>3
  <2> QED
    BY <2>1, <2>2, <2>3
<1>12. ASSUME NEW p \in P \cup Q
       PROVE  \E k \in 1..x+y : d[k] = p
  <2>1. CASE p \in P
    <3>1. PICK k \in 1..x : b[k] = p
      BY <1>4, <2>1
    <3>2. k \in 1..x+y /\ k <= x
      BY <1>2, <1>3
    <3> QED
      BY <1>8, <3>1, <3>2
  <2>2. CASE p \in Q
    <3>1. PICK k \in 1..y : c[k] = p
      BY <1>5, <2>2
    <3>2. k + x \in 1..x+y /\ ~(k + x <= x) /\ (k + x) - x = k
      BY <1>2, <1>3
    <3>3. d[k + x] = c[k]
      BY <1>8, <3>2
    <3> QED
      BY <3>1, <3>2, <3>3
  <2> QED
    BY <2>1, <2>2
<1>13. ASSUME NEW k \in 1..x+y
       PROVE  r[k] = EndOf(u, base, n, d[k])
  <2>1. CASE k <= x
    BY <1>4, <1>6, <1>7, <1>8, <2>1
  <2>2. CASE ~(k <= x)
    <3>1. r[k] = t[k-x] /\ d[k] = c[k-x] /\ k - x \in 1..y
      BY <1>6, <1>7, <1>8, <2>2
    <3> QED
      BY <1>5, <3>1
  <2> QED
    BY <2>1, <2>2
<1>14. ListedBy(d, x + y, r, P \cup Q, u, base, n)
  BY <1>10, <1>11, <1>12, <1>13 DEF ListedBy
<1>15. Listed(r, P \cup Q, u, base, n)
  BY <1>6, <1>14 DEF Listed
<1> QED
  BY <1>15 DEF r

\* The leafs below entry i of the directory at n, which is at depth d.
EntryLeafs(u, len, base, d, n, i) ==
    IF ~u[n + i].dir THEN <<ChildOf(u[n + i], base)>>
    ELSE IF TooDeep(d) THEN <<>> ELSE Below(u, len, base)[d + 1][ChildOf(u[n + i], base)]

Through(u, len, base, n, m, i) == {p \in LeafPaths(u, len, base, n, m) : p[1] = i}

\* What is put in the album for one entry is what its paths lead to, when that
\* is true of the directories one level deeper.
LEMMA EntryListed ==
    ASSUME NEW u, NEW len, NEW base, TreeTyped(u, len, base), NEW d \in 0..MaxDepth-1,
           ~TooDeep(d) => \A c \in Offsets :
               Listed(Below(u, len, base)[d + 1][c], LeafPaths(u, len, base, c, MaxDepth - (d + 1)), u, base, c),
           NEW n \in Offsets, NEW i \in 1..EntriesAt(u, len, n)
    PROVE  Listed(EntryLeafs(u, len, base, d, n, i), Through(u, len, base, n, MaxDepth - d, i), u, base, n)
<1> DEFINE child == ChildOf(u[n + i], base)
           mine == Through(u, len, base, n, MaxDepth - d, i)
<1>1. PICK m \in Nat \ {0} : m = MaxDepth - d
  BY ResourceAssumption
<1>2. child \in Offsets /\ u[n + i].dir \in BOOLEAN /\ i \in 1..MaxEntries
  BY EntriesBound, ResourceAssumption
<1>3. CASE ~u[n + i].dir
  <2> DEFINE p == [j \in 1..1 |-> i]
  <2>1. p[1] = i /\ Len(p) = 1 /\ p \in [1..1 -> 1..MaxEntries]
    BY <1>2
  <2>2. p \in PathsOf(m)
    BY <1>1, <2>1 DEF PathsOf
  <2>3. Walk(u, base, n, p)[0] = n /\ Walk(u, base, n, p)[1] = child
    <3>1. Len(p) \in Nat /\ 1 \in 1..Len(p) /\ 1 - 1 = 0
      BY <2>1
    <3> HIDE DEF p
    <3>2. /\ Walk(u, base, n, p)[0] = n
          /\ Walk(u, base, n, p)[1] = ChildOf(u[Walk(u, base, n, p)[1-1] + p[1]], base)
      BY <3>1, WalkIs
    <3> QED
      BY <2>1, <3>1, <3>2
  <2> HIDE DEF p
  <2>4. EndOf(u, base, n, p) = child
    BY <2>1, <2>3 DEF EndOf
  <2>5. LeafFrom(u, len, base, n, p)
    <3>1. \A k \in 1..1 : k = 1 /\ k - 1 = 0 /\ ~(k < 1)
      OBVIOUS
    <3>2. i <= EntriesAt(u, len, n)
      BY EntriesBound
    <3> QED
      BY <1>3, <2>1, <2>3, <3>1, <3>2 DEF LeafFrom
  <2>6. mine = {p}
    <3>1. p \in mine
      BY <1>1, <2>1, <2>2, <2>5 DEF Through, LeafPaths
    <3>2. ASSUME NEW q \in mine
          PROVE  q = p
      <4>1. q \in LeafPaths(u, len, base, n, m) /\ q[1] = i
        BY <1>1 DEF Through
      <4> QED
        BY <1>3, <4>1, LeafSplit DEF p
    <3> QED
      BY <3>1, <3>2
  <2>7. EntryLeafs(u, len, base, d, n, i) = <<child>>
    BY <1>3 DEF EntryLeafs
  <2>8. child \in Nat
    BY <1>2, ResourceAssumption DEF Offsets
  <2> QED
    BY <2>4, <2>6, <2>7, <2>8, ListedOne
<1>4. CASE u[n + i].dir /\ TooDeep(d)
  <2>1. m = 1
    BY <1>1, <1>4, ResourceAssumption DEF TooDeep
  <2>2. ASSUME NEW q \in mine
        PROVE  FALSE
    <3>1. q \in LeafPaths(u, len, base, n, m) /\ q[1] = i
      BY <1>1 DEF Through
    <3>2. m > 1
      BY <1>4, <3>1, LeafSplit
    <3> QED
      BY <2>1, <3>2
  <2>3. mine = {}
    BY <2>2
  <2>4. EntryLeafs(u, len, base, d, n, i) = <<>>
    BY <1>4 DEF EntryLeafs
  <2> QED
    BY <2>3, <2>4, ListedNone
<1>5. CASE u[n + i].dir /\ ~TooDeep(d)
  <2> DEFINE s == Below(u, len, base)[d + 1][child]
             deeper == LeafPaths(u, len, base, child, MaxDepth - (d + 1))
  <2>1. MaxDepth - (d + 1) = m - 1 /\ m - 1 \in Nat /\ (m - 1) + 1 = m
    BY <1>1, <1>5, ResourceAssumption DEF TooDeep
  <2>2. Listed(s, deeper, u, base, child)
    BY <1>2, <1>5
  <2>3. EntryLeafs(u, len, base, d, n, i) = s
    BY <1>5 DEF EntryLeafs
  <2> HIDE DEF s
  <2>4. PICK x \in Nat : x = Len(s)
    BY <2>2 DEF Listed
  <2>l. PICK b : ListedBy(b, x, s, deeper, u, base, child)
    BY <2>2, <2>4 DEF Listed
  <2>5. /\ b \in [1..x -> deeper]
        /\ \A j, k \in 1..x : b[j] = b[k] => j = k
        /\ \A p \in deeper : \E k \in 1..x : b[k] = p
        /\ \A k \in 1..x : s[k] = EndOf(u, base, child, b[k])
    BY <2>l DEF ListedBy
  <2>6. ASSUME NEW q \in deeper
        PROVE  /\ Via(i, q) \in mine /\ EndOf(u, base, n, Via(i, q)) = EndOf(u, base, child, q)
               /\ Len(Via(i, q)) = Len(q) + 1 /\ \A j \in 1..Len(q) : Via(i, q)[j+1] = q[j]
               /\ q \in PathsOf(m - 1)
    <3>1. q \in PathsOf(m - 1) /\ LeafFrom(u, len, base, child, q)
      BY <2>1 DEF LeafPaths
    <3>2. /\ Via(i, q) \in PathsOf(m) /\ Via(i, q)[1] = i
          /\ Len(Via(i, q)) = Len(q) + 1 /\ \A j \in 1..Len(q) : Via(i, q)[j+1] = q[j]
      BY <1>2, <2>1, <3>1, ViaTyped
    <3>3. LeafFrom(u, len, base, n, Via(i, q)) /\ EndOf(u, base, n, Via(i, q)) = EndOf(u, base, child, q)
      BY <1>5, <2>1, <3>1, LeafVia
    <3> QED
      BY <1>1, <3>1, <3>2, <3>3 DEF Through, LeafPaths
  <2> DEFINE c == [k \in 1..x |-> Via(i, b[k])]
  <2>7. c \in [1..x -> mine] /\ \A k \in 1..x : c[k] = Via(i, b[k]) /\ b[k] \in deeper
    BY <2>5, <2>6
  <2> HIDE DEF c, deeper, mine, child
  <2>8. ASSUME NEW q \in deeper, NEW r \in deeper, Via(i, q) = Via(i, r)
        PROVE  q = r
    <3>1. /\ Len(q) \in 1..m-1 /\ q \in [1..Len(q) -> 1..MaxEntries]
          /\ Len(r) \in 1..m-1 /\ r \in [1..Len(r) -> 1..MaxEntries]
      BY <2>1, <2>6, PathTyped
    <3>2. Len(q) + 1 = Len(r) + 1
      BY <2>6, <2>8
    <3>3. Len(q) = Len(r)
      <4>1. Len(q) \in Nat /\ Len(r) \in Nat
        BY <3>1
      <4>2. \A x1, x2 \in Nat : x1 + 1 = x2 + 1 => x1 = x2
        OBVIOUS
      <4> QED
        BY <3>2, <4>1, <4>2
    <3>4. \A j \in 1..Len(q) : q[j] = r[j]
      BY <2>6, <2>8, <3>3
    <3> QED
      BY <3>1, <3>3, <3>4
  <2>9. ASSUME NEW j \in 1..x, NEW k \in 1..x, c[j] = c[k]
        PROVE  j = k
    BY <2>5, <2>7, <2>8, <2>9
  <2>10. ASSUME NEW p \in mine
         PROVE  \E k \in 1..x : c[k] = p
    <3>1. p \in LeafPaths(u, len, base, n, m) /\ p[1] = i
      BY <1>1 DEF Through, mine
    <3>2. Rest(p) \in PathsOf(m - 1) /\ p = Via(i, Rest(p))
      BY <1>5, <3>1, LeafSplit
    <3>3. LeafFrom(u, len, base, n, p)
      BY <3>1 DEF LeafPaths
    <3>4. LeafFrom(u, len, base, child, Rest(p))
      BY <1>5, <2>1, <3>2, <3>3, LeafVia DEF child
    <3>5. Rest(p) \in deeper
      BY <2>1, <3>2, <3>4 DEF deeper, LeafPaths
    <3>6. PICK k \in 1..x : b[k] = Rest(p)
      BY <2>5, <3>5
    <3> QED
      BY <2>7, <3>2, <3>6
  <2>11. \A k \in 1..x : s[k] = EndOf(u, base, n, c[k])
    BY <2>5, <2>6, <2>7
  <2>12. s \in Seq(Nat)
    BY <2>2 DEF Listed
  <2>13. ListedBy(c, x, s, mine, u, base, n)
    BY <2>7, <2>9, <2>10, <2>11 DEF ListedBy
  <2> QED
    BY <2>3, <2>4, <2>12, <2>13 DEF Listed, mine
<1> QED
  BY <1>2, <1>3, <1>4, <1>5

\* FlattenSeq joins one sequence after the other.
Joining(f, s, e) == f[1] = s[1] /\ \A i \in 1..e : i # 1 => f[i] = f[i-1] \o s[i]
LEMMA FlattenSteps ==
    ASSUME NEW s, NEW e \in Nat \ {0}, Len(s) = e
    PROVE  \E f : FlattenSeq(s) = f[e] /\ Joining(f, s, e)
<1> DEFINE Body(f, i) == IF i = 1 THEN s[i] ELSE f[i-1] \o s[i]
           flatten == CHOOSE f : f = [i \in 1..e |-> Body(f, i)]
           Joins(m) == m # 0 => \E f : f = [i \in 1..m |-> Body(f, i)]
           S == {m \in 0..e : Joins(m)}
<1>1. FlattenSeq(s) = flatten[e]
  BY DEF FlattenSeq
<1>2. Joins(0)
  OBVIOUS
<1>3. ASSUME NEW m \in 0..e, m < e, Joins(m)
      PROVE  Joins(m + 1)
  <2>1. CASE m = 0
    <3> DEFINE f == [i \in 1..1 |-> s[1]]
    <3>1. \A i \in 1..1 : Body(f, i) = s[1]
      OBVIOUS
    <3>2. f = [i \in 1..1 |-> Body(f, i)]
      BY <3>1
    <3> HIDE DEF f, Body
    <3>3. m + 1 = 1
      BY <2>1
    <3> QED
      BY <3>2, <3>3
  <2>2. CASE m # 0
    <3>1. PICK f : f = [i \in 1..m |-> Body(f, i)]
      BY <1>3, <2>2
    <3> DEFINE g == [i \in 1..m+1 |-> IF i = m + 1 THEN Body(f, m + 1) ELSE f[i]]
    <3>2. \A i \in 1..m : g[i] = f[i] /\ i \in 1..m+1 /\ i # m + 1
      OBVIOUS
    <3>3. \A i \in 1..m+1 : i # 1 => i - 1 \in 1..m
      OBVIOUS
    <3>4. \A i \in 1..m+1 : Body(g, i) = Body(f, i)
      BY <3>2, <3>3
    <3>5. \A i \in 1..m : f[i] = Body(f, i)
      <4> HIDE DEF Body
      <4> QED
        BY <3>1
    <3>6. \A i \in 1..m+1 : i = m + 1 \/ i \in 1..m
      OBVIOUS
    <3> HIDE DEF Body
    <3>7. \A i \in 1..m+1 : g[i] = Body(f, i)
      BY <3>2, <3>5, <3>6
    <3>8. g = [i \in 1..m+1 |-> Body(g, i)]
      BY <3>4, <3>7
    <3> QED
      BY <3>8
  <2> QED
    BY <2>1, <2>2
<1> HIDE DEF Joins
<1>4. Joins(e)
  <2>1. 0 \in S /\ \A k \in 0..e : k < e /\ k \in S => k + 1 \in S
    BY <1>2, <1>3
  <2> HIDE DEF S
  <2>2. \A k \in 0..e : k \in S
    BY <2>1, Climb
  <2>3. e \in S
    BY <2>2
  <2> QED
    BY <2>3 DEF S
<1>5. flatten = [i \in 1..e |-> Body(flatten, i)]
  BY <1>4 DEF Joins
<1> HIDE DEF flatten
<1>6. \A i \in 1..e : flatten[i] = Body(flatten, i)
  <2> HIDE DEF Body
  <2> QED
    BY <1>5
<1>7. flatten[1] = s[1]
  <2>1. 1 \in 1..e
    OBVIOUS
  <2> QED
    BY <1>6, <2>1
<1>8. \A i \in 1..e : i # 1 => flatten[i] = flatten[i-1] \o s[i]
  BY <1>6
<1> QED
  BY <1>1, <1>7, <1>8 DEF Joining

LEMMA FamilyLength ==
    ASSUME NEW e \in Nat, NEW s \in [1..e -> Seq(Nat)]
    PROVE  Len(s) = e
<1>1. s \in Seq(Seq(Nat)) /\ Len(s) = e
  OBVIOUS
<1> QED
  BY <1>1

LEMMA FlattenNone ==
    ASSUME NEW s \in [1..0 -> Seq(Nat)]
    PROVE  FlattenSeq(s) = <<>>
<1>1. s = <<>> /\ Len(s) = 0
  OBVIOUS
<1> QED
  BY <1>1 DEF FlattenSeq

\* The lists for the entries of a directory, joined, are a list for all its paths.
LEMMA DirListed ==
    ASSUME NEW u, NEW len, NEW base, TreeTyped(u, len, base), NEW n \in Offsets, NEW m \in Nat \ {0},
           NEW s, s = [i \in 1..EntriesAt(u, len, n) |-> s[i]],
           \A i \in 1..EntriesAt(u, len, n) : Listed(s[i], Through(u, len, base, n, m, i), u, base, n)
    PROVE  Listed(FlattenSeq(s), LeafPaths(u, len, base, n, m), u, base, n)
<1> DEFINE all == LeafPaths(u, len, base, n, m)
           Upto(i) == {p \in all : p[1] <= i}
<1>1. PICK e \in Nat : e = EntriesAt(u, len, n)
  BY EntriesBound
<1>2. s \in [1..e -> Seq(Nat)] /\ Len(s) = e
  <2>1. \A i \in 1..e : s[i] \in Seq(Nat)
    BY <1>1 DEF Listed
  <2>2. s = [i \in 1..e |-> s[i]]
    BY <1>1
  <2>3. s \in [1..e -> Seq(Nat)]
    BY <2>1, <2>2
  <2> QED
    BY <2>3, FamilyLength
<1>3. \A p \in all : p[1] \in 1..e
  BY <1>1, LeafSplit
<1>t. \A i : Through(u, len, base, n, m, i) = {p \in all : p[1] = i}
  BY DEF Through
<1> HIDE DEF all
<1>4. CASE e = 0
  <2>1. all = {}
    BY <1>3, <1>4
  <2>2. FlattenSeq(s) = <<>>
    BY <1>2, <1>4, FlattenNone
  <2> QED
    BY <2>1, <2>2, ListedNone DEF all
<1>5. CASE e # 0
  <2>p. PICK f : FlattenSeq(s) = f[e] /\ Joining(f, s, e)
    BY <1>2, <1>5, FlattenSteps
  <2>1. f[1] = s[1] /\ \A i \in 1..e : i # 1 => f[i] = f[i-1] \o s[i]
    BY <2>p DEF Joining
  <2> DEFINE S == {k \in 0..e : k # 0 => Listed(f[k], Upto(k), u, base, n)}
  <2>2. 0 \in S
    BY <1>5
  <2>3. ASSUME NEW k \in 0..e, k < e, k \in S
        PROVE  k + 1 \in S
    <3>1. k + 1 \in 1..e /\ k + 1 # 0
      BY <2>3
    <3>2. Listed(s[k+1], {p \in all : p[1] = k + 1}, u, base, n)
      BY <1>1, <1>t, <3>1
    <3>3. CASE k = 0
      <4>1. Upto(1) = {p \in all : p[1] = 1}
        BY <1>3
      <4>2. Listed(s[1], {p \in all : p[1] = 1}, u, base, n)
        <5>1. k + 1 = 1
          BY <3>3
        <5> QED
          BY <3>2, <5>1
      <4>3. Listed(f[1], Upto(1), u, base, n)
        BY <2>1, <4>1, <4>2
      <4>4. k + 1 = 1
        BY <3>3
      <4> HIDE DEF Upto
      <4> QED
        BY <3>1, <4>3, <4>4
    <3>4. CASE k # 0
      <4>1. f[k+1] = f[k] \o s[k+1]
        <5>1. k + 1 # 1 /\ (k + 1) - 1 = k
          BY <2>3, <3>4
        <5> QED
          BY <2>1, <3>1, <5>1
      <4>2. Listed(f[k], Upto(k), u, base, n)
        BY <2>3, <3>4
      <4>3. Upto(k) \cap {p \in all : p[1] = k + 1} = {}
        <5>1. ~(k + 1 <= k)
          BY <2>3
        <5> QED
          BY <5>1
      <4>4. Upto(k + 1) = Upto(k) \cup {p \in all : p[1] = k + 1}
        <5>1. \A x \in 1..e : x <= k + 1 <=> x <= k \/ x = k + 1
          BY <2>3
        <5> QED
          BY <1>3, <5>1
      <4> HIDE DEF Upto
      <4>5. Listed(f[k+1], Upto(k + 1), u, base, n)
        BY <3>2, <4>1, <4>2, <4>3, <4>4, ListedJoin
      <4> QED
        BY <3>1, <4>5
    <3> QED
      BY <3>3, <3>4
  <2> HIDE DEF S
  <2>4. \A k \in 0..e : k \in S
    BY <2>2, <2>3, Climb
  <2>5. Listed(f[e], Upto(e), u, base, n)
    <3>1. e \in S
      BY <2>4
    <3> HIDE DEF Upto
    <3> QED
      BY <1>5, <3>1 DEF S
  <2>6. Upto(e) = all
    BY <1>3
  <2> QED
    BY <2>p, <2>5, <2>6 DEF all
<1> QED
  BY <1>4, <1>5

-----------------------------------------------------------------------------
(* The walk *)

\* The lists of all directories at depth d, from those one level deeper.
Row(u, len, base, d, deeper) ==
    [n \in Offsets |-> FlattenSeq([i \in 1..EntriesAt(u, len, n) |->
        IF ~u[n + i].dir THEN <<ChildOf(u[n + i], base)>>
        ELSE IF TooDeep(d) THEN <<>> ELSE deeper[ChildOf(u[n + i], base)]])]

LEMMA LastRow ==
    ASSUME NEW u, NEW len, NEW base, NEW d, TooDeep(d), NEW x, NEW y
    PROVE  Row(u, len, base, d, x) = Row(u, len, base, d, y)
<1> DEFINE Lists(z, n) == [i \in 1..EntriesAt(u, len, n) |->
               IF ~u[n + i].dir THEN <<ChildOf(u[n + i], base)>>
               ELSE IF TooDeep(d) THEN <<>> ELSE z[ChildOf(u[n + i], base)]]
<1>1. \A n : Lists(x, n) = Lists(y, n)
  OBVIOUS
<1>2. \A z : Row(u, len, base, d, z) = [n \in Offsets |-> FlattenSeq(Lists(z, n))]
  BY DEF Row
<1> HIDE DEF Lists
<1> QED
  BY <1>1, <1>2

\* There is such a table of lists.
LEMMA BelowRows ==
    ASSUME NEW u, NEW len, NEW base
    PROVE  \A d \in 0..MaxDepth :
               Below(u, len, base)[d] = Row(u, len, base, d, Below(u, len, base)[d + 1])
<1> DEFINE R(f, d) == Row(u, len, base, d, f[d + 1])
           below == CHOOSE f : f = [d \in 0..MaxDepth |-> R(f, d)]
           Built(k) == \E f : f = [d \in MaxDepth-k..MaxDepth |-> R(f, d)]
           S == {k \in 0..MaxDepth : Built(k)}
<1>m. MaxDepth \in Nat \ {0}
  BY ResourceAssumption
<1>1. Below(u, len, base) = below
  BY DEF Below, Row
<1>l. \A d \in 0..MaxDepth : d >= MaxDepth - 1 => TooDeep(d)
  BY <1>m DEF TooDeep
<1>2. Built(0)
  <2> DEFINE f == [d \in MaxDepth..MaxDepth |-> R(<<>>, d)]
  <2>1. \A d \in MaxDepth..MaxDepth : R(f, d) = R(<<>>, d)
    BY <1>m, <1>l, LastRow
  <2> HIDE DEF R
  <2>2. f = [d \in MaxDepth..MaxDepth |-> R(f, d)]
    BY <2>1
  <2>3. MaxDepth - 0 = MaxDepth
    BY <1>m
  <2> HIDE DEF f
  <2> QED
    BY <2>2, <2>3
<1>3. ASSUME NEW k \in 0..MaxDepth, k < MaxDepth, Built(k)
      PROVE  Built(k + 1)
  <2>1. PICK f : f = [d \in MaxDepth-k..MaxDepth |-> R(f, d)]
    BY <1>3
  <2> DEFINE first == MaxDepth - (k + 1)
             g == [d \in first..MaxDepth |-> IF d = first THEN R(f, first) ELSE f[d]]
  <2>2. first \in Int /\ first + 1 = MaxDepth - k /\ first \in 0..MaxDepth
    BY <1>m, <1>3
  <2>g. \A d \in first..MaxDepth : g[d] = IF d = first THEN R(f, first) ELSE f[d]
    OBVIOUS
  <2>f. g = [d \in first..MaxDepth |-> g[d]]
    OBVIOUS
  <2> HIDE DEF first, g
  <2>3. \A d \in MaxDepth-k..MaxDepth : d \in first..MaxDepth /\ d # first
    BY <1>m, <1>3, <2>2
  <2>4. \A d \in first..MaxDepth : d = first \/ d \in MaxDepth-k..MaxDepth
    BY <1>m, <1>3, <2>2
  <2>5. \A d \in MaxDepth-k..MaxDepth : g[d] = f[d]
    BY <2>g, <2>3
  <2>6. \A d \in first..MaxDepth : d \in 0..MaxDepth /\ (d < MaxDepth - 1 => d + 1 \in MaxDepth-k..MaxDepth)
    BY <1>m, <1>3, <2>2
  <2>7. ASSUME NEW d \in first..MaxDepth
        PROVE  R(g, d) = R(f, d)
    <3>1. CASE d < MaxDepth - 1
      BY <2>5, <2>6, <3>1
    <3>2. CASE ~(d < MaxDepth - 1)
      <4>1. d >= MaxDepth - 1 /\ d \in 0..MaxDepth
        BY <1>m, <2>6, <3>2
      <4> QED
        BY <1>l, <4>1, LastRow
    <3> QED
      BY <3>1, <3>2
  <2> HIDE DEF R
  <2>8. \A d \in MaxDepth-k..MaxDepth : f[d] = R(f, d)
    BY <2>1
  <2>9. \A d \in first..MaxDepth : g[d] = R(f, d)
    BY <2>g, <2>4, <2>5, <2>8
  <2>10. g = [d \in first..MaxDepth |-> R(g, d)]
    BY <2>7, <2>9, <2>f
  <2> QED
    BY <2>10 DEF first
<1> HIDE DEF Built
<1>4. Built(MaxDepth)
  <2>1. 0 \in S /\ \A k \in 0..MaxDepth : k < MaxDepth /\ k \in S => k + 1 \in S
    BY <1>m, <1>2, <1>3
  <2> HIDE DEF S
  <2>2. \A k \in 0..MaxDepth : k \in S
    BY <1>m, <2>1, Climb
  <2>3. MaxDepth \in S
    BY <1>m, <2>2
  <2> QED
    BY <2>3 DEF S
<1>5. \E f : f = [d \in 0..MaxDepth |-> R(f, d)]
  <2>1. MaxDepth - MaxDepth = 0
    BY <1>m
  <2> HIDE DEF R
  <2> QED
    BY <1>4, <2>1 DEF Built
<1>6. below = [d \in 0..MaxDepth |-> R(below, d)]
  BY <1>5
<1> HIDE DEF below
<1>7. \A d \in 0..MaxDepth : below[d] = R(below, d)
  <2> HIDE DEF R
  <2> QED
    BY <1>6
<1> QED
  BY <1>1, <1>7

\* The leafs below the entries of the directory at n, which is at depth d.
EntryLists(u, len, base, d, n) ==
    [i \in 1..EntriesAt(u, len, n) |-> EntryLeafs(u, len, base, d, n, i)]

LEMMA BelowIs ==
    ASSUME NEW u, NEW len, NEW base, NEW d \in 0..MaxDepth, NEW n \in Offsets
    PROVE  Below(u, len, base)[d][n] = FlattenSeq(EntryLists(u, len, base, d, n))
<1>1. Below(u, len, base)[d] = Row(u, len, base, d, Below(u, len, base)[d + 1])
  BY BelowRows
<1>2. \A f : Row(u, len, base, d, f)[n] =
          FlattenSeq([i \in 1..EntriesAt(u, len, n) |->
              IF ~u[n + i].dir THEN <<ChildOf(u[n + i], base)>>
              ELSE IF TooDeep(d) THEN <<>> ELSE f[ChildOf(u[n + i], base)]])
  BY DEF Row
<1> QED
  BY <1>1, <1>2 DEF EntryLists, EntryLeafs

\* At every depth the walk lists the leafs at the ends of the paths that are
\* short enough, by induction from the deepest level upwards.
LEMMA DepthListed ==
    ASSUME NEW u, NEW len, NEW base, TreeTyped(u, len, base)
    PROVE  \A d \in 0..MaxDepth-1 : \A n \in Offsets :
               Listed(Below(u, len, base)[d][n], LeafPaths(u, len, base, n, MaxDepth - d), u, base, n)
<1> DEFINE Done(d) == \A n \in Offsets :
               Listed(Below(u, len, base)[d][n], LeafPaths(u, len, base, n, MaxDepth - d), u, base, n)
           last == MaxDepth - 1
           S == {k \in 0..last : Done(last - k)}
<1>m. MaxDepth \in Nat \ {0} /\ last \in Nat
  BY ResourceAssumption
<1>1. ASSUME NEW d \in 0..last, ~TooDeep(d) => Done(d + 1)
      PROVE  Done(d)
  <2>1. ASSUME NEW n \in Offsets
        PROVE  Listed(Below(u, len, base)[d][n], LeafPaths(u, len, base, n, MaxDepth - d), u, base, n)
    <3>1. PICK m \in Nat \ {0} : m = MaxDepth - d
      BY <1>m
    <3>2. PICK s : s = EntryLists(u, len, base, d, n)
      OBVIOUS
    <3>3. s = [i \in 1..EntriesAt(u, len, n) |-> s[i]]
      BY <3>2 DEF EntryLists
    <3>4. \A i \in 1..EntriesAt(u, len, n) : Listed(s[i], Through(u, len, base, n, m, i), u, base, n)
      BY <1>1, <3>1, <3>2, EntryListed DEF EntryLists
    <3>5. Listed(FlattenSeq(s), LeafPaths(u, len, base, n, m), u, base, n)
      BY <3>3, <3>4, DirListed
    <3>6. d \in 0..MaxDepth
      BY <1>m
    <3> QED
      BY <3>1, <3>2, <3>5, <3>6, BelowIs
  <2> QED
    BY <2>1
<1> HIDE DEF Done
<1>2. 0 \in S
  <2>1. last \in 0..last /\ TooDeep(last) /\ last - 0 = last /\ 0 \in 0..last
    BY <1>m DEF TooDeep
  <2> HIDE DEF last
  <2> QED
    BY <1>1, <2>1
<1>3. ASSUME NEW k \in 0..last, k < last, k \in S
      PROVE  k + 1 \in S
  <2>1. last - (k + 1) \in 0..last /\ (last - (k + 1)) + 1 = last - k /\ k + 1 \in 0..last
    BY <1>m, <1>3
  <2>2. Done(last - k)
    BY <1>3
  <2> HIDE DEF last
  <2>3. Done(last - (k + 1))
    BY <1>1, <2>1, <2>2
  <2> QED
    BY <2>1, <2>3
<1>4. \A k \in 0..last : k \in S
  <2> HIDE DEF S, last
  <2> QED
    BY <1>m, <1>2, <1>3, Climb
<1>5. ASSUME NEW d \in 0..last
      PROVE  Done(d)
  <2>1. last - d \in 0..last /\ last - (last - d) = d
    BY <1>m
  <2>2. last - d \in S
    BY <1>4, <2>1
  <2> HIDE DEF last
  <2> QED
    BY <2>1, <2>2
<1> QED
  BY <1>5 DEF Done

-----------------------------------------------------------------------------
(* The album of a tree *)

Values(s) == {s[k] : k \in 1..Len(s)}
Ends(u, base, n, P) == {EndOf(u, base, n, p) : p \in P}
Places(leafs) == {l.at : l \in Range(leafs)}
Firsts(P) == {p[1] : p \in P}

AlbumOf(u, len, base, w) ==
    [i \in {j \in 1..EntriesAt(u, len, base) : LeafsOf(u, len, base, j) # <<>>} |-> Leafs(u, len, base, i, w)]

\* A list of all paths of a set has as many members as the set, and its values
\* are the ends of these paths.
LEMMA ListedCounts ==
    ASSUME NEW s, NEW P, NEW u, NEW base, NEW n, Listed(s, P, u, base, n)
    PROVE  /\ Len(s) \in Nat /\ Len(s) = Cardinality(P)
           /\ Values(s) = Ends(u, base, n, P)
           /\ s = <<>> <=> P = {}
<1>1. s \in Seq(Nat)
  BY DEF Listed
<1>2. PICK x \in Nat : x = Len(s)
  BY <1>1
<1>3. PICK b : ListedBy(b, x, s, P, u, base, n)
  BY <1>2 DEF Listed
<1>4. /\ b \in [1..x -> P]
      /\ \A j, k \in 1..x : b[j] = b[k] => j = k
      /\ \A p \in P : \E k \in 1..x : b[k] = p
      /\ \A k \in 1..x : s[k] = EndOf(u, base, n, b[k])
  BY <1>3 DEF ListedBy
<1>5. Cardinality(P) = x
  <2>1. b \in Bijection(1..x, P)
    BY <1>4 DEF Bijection, Injection, Surjection, IsInjective
  <2>2. ExistsBijection(1..x, P)
    BY <2>1 DEF ExistsBijection
  <2> QED
    BY <2>2, FS_CountingElements
<1>6. Values(s) = Ends(u, base, n, P)
  BY <1>2, <1>4 DEF Values, Ends
<1>7. s = <<>> <=> x = 0
  BY <1>1, <1>2
<1>8. x = 0 <=> P = {}
  <2>1. x = 0 => P = {}
    BY <1>4
  <2>2. x # 0 => b[1] \in P
    BY <1>4
  <2> QED
    BY <2>1, <2>2
<1> QED
  BY <1>2, <1>5, <1>6, <1>7, <1>8

\* The leafs below an entry of the root are what the paths through it lead to.
LEMMA TopListed ==
    ASSUME NEW u, NEW len, NEW base, TreeTyped(u, len, base), NEW i \in 1..EntriesAt(u, len, base)
    PROVE  Listed(LeafsOf(u, len, base, i), Through(u, len, base, base, MaxDepth, i), u, base, base)
<1>1. MaxDepth \in Nat \ {0} /\ FileMax \in Nat /\ RelMax \in Nat
  BY ResourceAssumption
<1>2. 0 \in 0..MaxDepth-1 /\ MaxDepth - 0 = MaxDepth /\ base \in Offsets
  BY <1>1 DEF TreeTyped, Offsets
<1>3. ASSUME ~TooDeep(0), NEW c \in Offsets
      PROVE  Listed(Below(u, len, base)[0 + 1][c], LeafPaths(u, len, base, c, MaxDepth - (0 + 1)), u, base, c)
  <2>1. 0 + 1 \in 0..MaxDepth-1
    BY <1>1, <1>3 DEF TooDeep
  <2> QED
    BY <2>1, DepthListed
<1>4. Listed(EntryLeafs(u, len, base, 0, base, i), Through(u, len, base, base, MaxDepth - 0, i), u, base, base)
  BY <1>2, <1>3, EntryListed
<1>5. EntryLeafs(u, len, base, 0, base, i) = LeafsOf(u, len, base, i)
  BY DEF EntryLeafs, LeafsOf
<1> QED
  BY <1>2, <1>4, <1>5

\* The wrappers that are made for a list of leafs are as many, at the same places.
LEMMA LeafWrappersOf ==
    ASSUME NEW u, NEW len, NEW base, NEW i, NEW w, LeafsOf(u, len, base, i) \in Seq(Nat)
    PROVE  /\ Len(Leafs(u, len, base, i, w)) = Len(LeafsOf(u, len, base, i))
           /\ Places(Leafs(u, len, base, i, w)) = Values(LeafsOf(u, len, base, i))
<1>1. PICK at : at = LeafsOf(u, len, base, i)
  OBVIOUS
<1>2. PICK x \in Nat : x = Len(at)
  BY <1>1
<1> DEFINE f == [k \in 1..x |-> [made |-> w, top |-> i, nr |-> k, at |-> at[k]]]
<1>3. Leafs(u, len, base, i, w) = f
  BY <1>1, <1>2 DEF Leafs
<1>4. Len(f) = x
  OBVIOUS
<1>5. Range(f) = {f[k] : k \in 1..x}
  BY DEF Range
<1>6. \A k \in 1..x : f[k].at = at[k]
  OBVIOUS
<1> HIDE DEF f
<1>7. Places(f) = Values(at)
  BY <1>2, <1>5, <1>6 DEF Places, Values
<1> QED
  BY <1>1, <1>2, <1>3, <1>4, <1>7

\* An album that was filled from a tree holds one leaf for every path.
LEMMA AlbumOfTree ==
    ASSUME NEW u, NEW len, NEW base, TreeTyped(u, len, base), NEW w, NEW al,
           al = AlbumOf(u, len, base, w)
    PROVE  /\ DOMAIN al = Firsts(LeafPaths(u, len, base, base, MaxDepth))
           /\ \A i \in DOMAIN al :
                 /\ Len(al[i]) = Cardinality(Through(u, len, base, base, MaxDepth, i))
                 /\ Places(al[i]) = Ends(u, base, base, Through(u, len, base, base, MaxDepth, i))
<1> DEFINE n == EntriesAt(u, len, base)
           all == LeafPaths(u, len, base, base, MaxDepth)
           mine(i) == Through(u, len, base, base, MaxDepth, i)
<1>1. ASSUME NEW i \in 1..n
      PROVE  /\ LeafsOf(u, len, base, i) \in Seq(Nat)
             /\ LeafsOf(u, len, base, i) = <<>> <=> mine(i) = {}
             /\ Len(LeafsOf(u, len, base, i)) = Cardinality(mine(i))
             /\ Values(LeafsOf(u, len, base, i)) = Ends(u, base, base, mine(i))
  <2>1. Listed(LeafsOf(u, len, base, i), mine(i), u, base, base)
    BY <1>1, TopListed
  <2>2. LeafsOf(u, len, base, i) \in Seq(Nat)
    BY <2>1 DEF Listed
  <2> HIDE DEF mine
  <2>3. PICK at : at = LeafsOf(u, len, base, i)
    OBVIOUS
  <2>4. Listed(at, mine(i), u, base, base)
    BY <2>1, <2>3
  <2>5. /\ Len(at) = Cardinality(mine(i)) /\ (at = <<>> <=> mine(i) = {})
        /\ Values(at) = Ends(u, base, base, mine(i))
    BY <2>4, ListedCounts
  <2> QED
    BY <2>2, <2>3, <2>5
<1>2. \A p \in all : p[1] \in 1..n
  <2>1. base \in Offsets /\ MaxDepth \in Nat \ {0}
    BY ResourceAssumption DEF TreeTyped, Offsets
  <2> QED
    BY <2>1, LeafSplit
<1>3. \A i : mine(i) = {p \in all : p[1] = i}
  BY DEF Through
<1>4. DOMAIN al = {j \in 1..n : LeafsOf(u, len, base, j) # <<>>}
  BY DEF AlbumOf
<1>5. ASSUME NEW i \in DOMAIN al
      PROVE  i \in 1..n /\ al[i] = Leafs(u, len, base, i, w)
  BY <1>5 DEF AlbumOf
<1> HIDE DEF n, all, mine
<1>6. \A j \in 1..n : LeafsOf(u, len, base, j) # <<>> <=> \E p \in all : p[1] = j
  BY <1>1, <1>3
<1>7. DOMAIN al = Firsts(all)
  BY <1>2, <1>4, <1>6 DEF Firsts
<1>8. ASSUME NEW i \in DOMAIN al
      PROVE  /\ Len(al[i]) = Cardinality(mine(i))
             /\ Places(al[i]) = Ends(u, base, base, mine(i))
  <2>1. i \in 1..n /\ al[i] = Leafs(u, len, base, i, w)
    BY <1>5
  <2>2. PICK at : at = LeafsOf(u, len, base, i)
    OBVIOUS
  <2>3. /\ at \in Seq(Nat) /\ Len(at) = Cardinality(mine(i))
        /\ Values(at) = Ends(u, base, base, mine(i))
    BY <1>1, <2>1, <2>2
  <2>4. Len(al[i]) = Len(at) /\ Places(al[i]) = Values(at)
    BY <2>1, <2>2, <2>3, LeafWrappersOf
  <2> QED
    BY <2>3, <2>4
<1> QED
  BY <1>7, <1>8 DEF all, mine

-----------------------------------------------------------------------------
(* The tree in the file and the album *)

\* The album is the one of the tree that the file holds now.
Walked == \E w : allLeafs = AlbumOf(units, fileLen, root, w)

TreeInv ==
    /\ TreeTyped(units, fileLen, root)
    /\ entriesNum = EntriesAt(units, fileLen, root)
    /\ Walked

LEMMA WalkedIsPaths == TreeInv => LeafsAreThePaths
<1> SUFFICES ASSUME TreeInv
             PROVE  LeafsAreThePaths
  OBVIOUS
<1>1. PICK w : allLeafs = AlbumOf(units, fileLen, root, w)
  BY DEF TreeInv, Walked
<1> DEFINE all == LeafPaths(units, fileLen, root, root, MaxDepth)
           paths == {p \in Paths : IsLeafPath(p)}
<1>2. /\ DOMAIN allLeafs = Firsts(all)
      /\ \A i \in DOMAIN allLeafs :
            /\ Len(allLeafs[i]) = Cardinality(Through(units, fileLen, root, root, MaxDepth, i))
            /\ Places(allLeafs[i]) = Ends(units, root, root, Through(units, fileLen, root, root, MaxDepth, i))
  <2>1. TreeTyped(units, fileLen, root)
    BY DEF TreeInv
  <2> QED
    BY <1>1, <2>1, AlbumOfTree
<1>3. \A p : PathNode(p) = Walk(units, root, root, p)
  BY DEF PathNode, Walk
<1>4. \A p : IsLeafPath(p) <=> LeafFrom(units, fileLen, root, root, p)
  BY <1>3 DEF IsLeafPath, LeafFrom
<1>5. Paths = PathsOf(MaxDepth)
  BY DEF Paths, PathsOf
<1>6. paths = all
  BY <1>4, <1>5 DEF LeafPaths
<1>7. \A i : {p \in paths : p[1] = i} = Through(units, fileLen, root, root, MaxDepth, i)
  BY <1>6 DEF Through
<1> HIDE DEF all, paths
<1>8. \A p : PathNode(p)[Len(p)] = EndOf(units, root, root, p)
  BY <1>3 DEF EndOf
<1>9. ASSUME NEW i \in DOMAIN allLeafs
      PROVE  /\ Len(allLeafs[i]) = Cardinality({p \in paths : p[1] = i})
             /\ {l.at : l \in Range(allLeafs[i])}
                  = {PathNode(p)[Len(p)] : p \in {q \in paths : q[1] = i}}
  <2>1. PICK P : P = {p \in paths : p[1] = i}
    OBVIOUS
  <2>2. P = Through(units, fileLen, root, root, MaxDepth, i)
    BY <1>7, <2>1
  <2>3. Len(allLeafs[i]) = Cardinality(P) /\ Places(allLeafs[i]) = Ends(units, root, root, P)
    BY <1>2, <1>9, <2>2
  <2>4. {PathNode(p)[Len(p)] : p \in P} = Ends(units, root, root, P)
    BY <1>8 DEF Ends
  <2>5. {l.at : l \in Range(allLeafs[i])} = Places(allLeafs[i])
    BY DEF Places
  <2> QED
    BY <2>1, <2>3, <2>4, <2>5
<1> QED
  BY <1>2, <1>6, <1>9 DEF LeafsAreThePaths, paths, Firsts

LEMMA ZeroTyped == ZeroUnit \in Unit
  BY ResourceAssumption DEF ZeroUnit, Unit

LEMMA CutTyped ==
    ASSUME NEW u \in [0..FileMax-1 -> Unit], NEW len
    PROVE  CutTo(u, len, ZeroUnit) \in [0..FileMax-1 -> Unit]
  BY ZeroTyped DEF CutTo

\* An area that is moved inside of the file leaves units.
LEMMA MovedTyped ==
    ASSUME NEW u \in [0..FileMax-1 -> Unit], NEW from \in Nat, NEW to \in Nat, NEW size \in Nat,
           from + size <= FileMax, to + size <= FileMax,
           NEW v \in Moved(u, from, to, size, ZeroUnit)
    PROVE  v \in [0..FileMax-1 -> Unit]
<1>m. FileMax \in Nat
  BY ResourceAssumption
<1>1. PICK c \in Copies(u, from, to, size) : v = FillContent(c, from, size, ZeroUnit)
  BY DEF Moved
<1>2. ASSUME NEW o \in Area(to, size)
      PROVE  /\ from + (o - to) \in 0..FileMax-1
             /\ from < to /\ to < from + size => from + ((o - to) % (to - from)) \in 0..FileMax-1
  <2>1. o \in Nat /\ to <= o /\ o - to < size /\ o - to \in Nat
    BY DEF Area
  <2>2. from + (o - to) \in 0..FileMax-1
    BY <2>1, <1>m
  <2>3. ASSUME from < to, to < from + size
        PROVE  from + ((o - to) % (to - from)) \in 0..FileMax-1
    <3>1. PICK x \in Nat, y \in Nat : x = o - to /\ y = to - from /\ y > 0
      BY <2>1, <2>3
    <3>2. x % y \in 0..y-1
      BY <3>1
    <3> QED
      BY <2>3, <3>1, <3>2, <1>m
  <2> QED
    BY <2>2, <2>3
<1>3. c \in [0..FileMax-1 -> Unit]
  <2>1. \/ c = [o \in 0..FileMax-1 |-> IF o \in Area(to, size) THEN u[from + (o - to)] ELSE u[o]]
        \/ /\ from < to /\ to < from + size
           /\ c = [o \in 0..FileMax-1 |-> IF o \in Area(to, size) THEN u[from + ((o - to) % (to - from))] ELSE u[o]]
    BY DEF Copies
  <2> QED
    BY <1>2, <2>1
<1> QED
  BY <1>1, <1>3, ZeroTyped DEF FillContent

LEMMA TreeInit == Init => TreeInv
<1> SUFFICES ASSUME Init
             PROVE  TreeInv
  OBVIOUS
<1>1. PICK f \in Files :
        /\ units = f.units /\ fileLen = f.len /\ root = f.root
        /\ entriesNum = EntriesAt(f.units, f.len, f.root)
        /\ allLeafs = [i \in {j \in 1..entriesNum : LeafsOf(units, fileLen, root, j) # <<>>} |->
                          Leafs(units, fileLen, root, i, 1)]
  BY DEF Init
<1>2. TreeTyped(units, fileLen, root)
  BY <1>1, FilesAssumption DEF TreeTyped
<1>3. entriesNum = EntriesAt(units, fileLen, root)
  BY <1>1
<1>4. Walked
  BY <1>1, <1>3 DEF Walked, AlbumOf
<1> QED
  BY <1>2, <1>3, <1>4 DEF TreeInv

\* Wrapping the root, wherever it is and whatever the file holds, walks its tree.
LEMMA WrappedTree ==
    ASSUME WrapRoot(units', fileLen', root'), TreeTyped(units', fileLen', root')
    PROVE  TreeInv'
<1>1. /\ entriesNum' = EntriesAt(units', fileLen', root')
      /\ allLeafs' = AlbumOf(units', fileLen', root', wraps')
  BY DEF WrapRoot, AlbumOf
<1>2. Walked'
  BY <1>1 DEF Walked
<1> QED
  BY <1>1, <1>2 DEF TreeInv

LEMMA ResizedTree ==
    ASSUME TreeInv, NEW len \in Lengths \cup {fileLen}, Resize(len)
    PROVE  TreeInv'
<1>1. FileMax \in Nat /\ Lengths \subseteq 1..FileMax
  BY ResourceAssumption
<1>2. TreeTyped(units, fileLen, root)
  BY DEF TreeInv
<1>3. units' = CutTo(units, len, ZeroUnit) /\ fileLen' = len /\ root' = root
  BY DEF Resize
<1>4. WrapRoot(CutTo(units, len, ZeroUnit), len, root)
  BY DEF Resize
<1>5. WrapRoot(units', fileLen', root')
  BY <1>3, <1>4
<1>6. TreeTyped(units', fileLen', root')
  BY <1>1, <1>2, <1>3, CutTyped DEF TreeTyped
<1> QED
  BY <1>5, <1>6, WrappedTree

\* What is moved is the header and the entries that are in the file.
LEMMA MovedTree ==
    ASSUME TreeInv, NEW to \in 0..FileMax-1, MoveDir(to)
    PROVE  TreeInv'
<1>1. FileMax \in Nat /\ RelMax \in Nat /\ MaxEntries \in Nat
  BY ResourceAssumption
<1>2. units \in [0..FileMax-1 -> Unit] /\ fileLen \in 0..FileMax /\ root \in 0..FileMax
  BY DEF TreeInv, TreeTyped
<1>3. /\ root < fileLen /\ units' \in Moved(units, root, to, 1 + entriesNum, ZeroUnit)
      /\ IsAreaEmpty(units, fileLen, to, 1 + entriesNum, ZeroUnit)
      /\ root' = to /\ fileLen' = fileLen /\ WrapRoot(units', fileLen, to)
  BY DEF MoveDir
<1>4. entriesNum \in Nat /\ root + (1 + entriesNum) <= fileLen
  <2>1. root \in Offsets /\ entriesNum = EntriesAt(units, fileLen, root)
    BY <1>1, <1>2 DEF Offsets, TreeInv
  <2>2. entriesNum \in Nat
    BY <1>1, <2>1, EntriesBound DEF TreeInv
  <2>3. PICK num \in Nat : num = units[root].num
    BY <1>1, <1>2, <1>3 DEF Unit
  <2>4. entriesNum = Least(Least(num, MaxEntries), fileLen - root - 1)
    BY <1>1, <1>2, <1>3, <2>1, <2>3 DEF EntriesAt
  <2> QED
    BY <1>1, <1>2, <1>3, <2>2, <2>4 DEF Least
<1>5. PICK size \in Nat : size = 1 + entriesNum
  BY <1>4
<1>6. root + size <= FileMax /\ to + size <= FileMax
  BY <1>1, <1>2, <1>3, <1>4, <1>5 DEF IsAreaEmpty
<1>7. units' \in [0..FileMax-1 -> Unit]
  BY <1>1, <1>2, <1>3, <1>5, <1>6, MovedTyped
<1>8. TreeTyped(units', fileLen', root')
  BY <1>1, <1>2, <1>3, <1>7 DEF TreeTyped
<1> QED
  BY <1>3, <1>8, WrappedTree

LEMMA TreeStep == TreeInv /\ [Next]_vars => TreeInv'
<1> SUFFICES ASSUME TreeInv, [Next]_vars
             PROVE  TreeInv'
  OBVIOUS
<1>1. ASSUME NEW len \in Lengths \cup {fileLen}, Resize(len)
      PROVE  TreeInv'
  BY <1>1, ResizedTree
<1>2. ASSUME NEW to \in 0..FileMax-1, MoveDir(to)
      PROVE  TreeInv'
  BY <1>2, MovedTree
<1>3. CASE UNCHANGED vars
  BY <1>3 DEF vars, file, album, TreeInv, Walked
<1> QED
  BY <1>1, <1>2, <1>3 DEF Next

\* The album holds one leaf for every path of at most MAX_DEPTH directories, and
\* no other, for every file, also when directories point back to their ancestors
\* or share children, and after every resize and move (LeafsAreThePaths).
THEOREM LeafsStayThePaths == Spec => []LeafsAreThePaths
<1>1. Init => TreeInv
  BY TreeInit
<1>2. TreeInv /\ [Next]_vars => TreeInv'
  BY TreeStep
<1>3. TreeInv => LeafsAreThePaths
  BY WalkedIsPaths
<1> QED
  BY <1>1, <1>2, <1>3, PTL DEF Spec

================================================================================
