--------------------------- MODULE Workspace_proofs ---------------------------
(* What holds of an extraction for every archive, every limit and every      *)
(* sequence of calls.                                                         *)
EXTENDS Workspace, Induction

-----------------------------------------------------------------------------
(* The file system *)

NoLinks(d) == \A f \in d : f.kind # "link"

LEMMA RealPath ==
    ASSUME NEW d, NEW p, NoLinks(d)
    PROVE  Real(d, p) = p
<1>1. {f \in d : f.kind = "link" /\ withinRoot(f.path, p)} = {} BY DEF NoLinks
<1> QED BY <1>1 DEF Real

\* MkdirAll adds directories and takes nothing away.
LEMMA Mkdir ==
    ASSUME NEW d, NEW p
    PROVE  d \subseteq MkdirAll(d, p) /\ \A f \in MkdirAll(d, p) \ d : f.kind = "dir"
BY DEF MkdirAll, Node

LEMMA MkdirLinks ==
    ASSUME NEW d, NEW p, NoLinks(d)
    PROVE  NoLinks(MkdirAll(d, p))
BY Mkdir DEF NoLinks

LEMMA PutAt ==
    ASSUME NEW d, NEW p, NEW size, NEW holds, NoLinks(d)
    PROVE  /\ Put(d, p, size, holds) = {f \in d : f.path # p} \cup {File(p, size, holds)}
           /\ NoLinks(Put(d, p, size, holds))
<1>1. Real(d, p) = p BY RealPath
<1>2. Put(d, p, size, holds) = {f \in d : f.path # p} \cup {File(p, size, holds)} BY <1>1 DEF Put
<1>3. File(p, size, holds).kind = "file" BY DEF File, Node
<1> QED BY <1>2, <1>3 DEF NoLinks

\* What differs between two disks is a directory or lies below a place.
Below(place, d, e) ==
    \A f \in (d \ e) \cup (e \ d) : f.kind # "dir" => withinRoot(place, f.path)

LEMMA MkdirBelow ==
    ASSUME NEW d, NEW p, NEW place
    PROVE  Below(place, d, MkdirAll(d, p))
BY Mkdir DEF Below

LEMMA PutBelow ==
    ASSUME NEW d, NEW dir, NEW p, NEW size, NEW holds, NEW place, NoLinks(d), withinRoot(place, p)
    PROVE  Below(place, d, Put(MkdirAll(d, dir), p, size, holds))
<1>1. NoLinks(MkdirAll(d, dir)) BY MkdirLinks
<1>2. Put(MkdirAll(d, dir), p, size, holds)
        = {f \in MkdirAll(d, dir) : f.path # p} \cup {File(p, size, holds)} BY <1>1, PutAt
<1>3. File(p, size, holds).path = p BY DEF File, Node
<1> QED BY <1>2, <1>3, Mkdir DEF Below

-----------------------------------------------------------------------------
(* Paths are sequences of names, and stay so when they are cleaned *)

Names == STRING \cup {"sast"} \cup allowedArtifacts
Path == Seq(Names)

LEMMA RootPath == Root \in Path /\ Root # <<>> /\ SastDir \in Path /\ withinRoot(Root, Root) /\ withinRoot(Root, SastDir)
<1>1. Root \in Seq(STRING) /\ STRING \subseteq Names /\ "sast" \in Names BY WorkspaceAssumption DEF Names
<1>2. Root \in Path BY <1>1, SeqMonotonic DEF Path
<1> HIDE DEF Names
<1>3. SastDir \in Path BY <1>1, <1>2 DEF SastDir, Path
<1>4. Len(Root) \in Nat /\ DOMAIN Root = 1..Len(Root) BY <1>2 DEF Path
<1>5. withinRoot(Root, Root) BY <1>4 DEF withinRoot
<1>6. withinRoot(Root, SastDir) BY <1>1, <1>2, <1>4, AppendProperties DEF withinRoot, SastDir, Path
<1> QED BY <1>2, <1>3, <1>5, <1>6, WorkspaceAssumption

LEMMA CleanPath ==
    ASSUME NEW p \in Path
    PROVE  Clean(p) \in Path
<1> DEFINE Enter(q, m) == IF m = "." THEN q
                          ELSE IF m # ".." THEN Append(q, m)
                          ELSE IF q = <<>> THEN q ELSE Front(q)
           n == Len(p)
           Eq(g) == g = [k \in 0..n |-> IF k = 0 THEN <<>> ELSE Enter(g[k - 1], p[k])]
           at == CHOOSE g : Eq(g)
<1>1. n \in Nat /\ \A k \in 1..n : p[k] \in Names BY LenProperties, ElementOfSeq DEF Path
<1>2. \A q \in Path, m \in Names : Enter(q, m) \in Path
  <2>1. SUFFICES ASSUME NEW q \in Path, NEW m \in Names PROVE Enter(q, m) \in Path OBVIOUS
  <2>2. Append(q, m) \in Path BY DEF Path
  <2>3. q # <<>> => Front(q) \in Path
    <3>1. Len(q) \in Nat /\ \A i \in 1..(Len(q) - 1) : q[i] \in Names BY DEF Path
    <3>2. SubSeq(q, 1, Len(q) - 1) \in Seq(Names) BY <3>1, SubSeqProperties
    <3> QED BY <3>2 DEF Front, Path
  <2> QED BY <2>2, <2>3
<1>3. \E g : Eq(g)
  <2> DEFINE base == <<>>
             step == [v \in Path \X (1..n) |-> Enter(v[1], p[v[2]])]
  <2>1. base \in Path BY DEF Path
  <2>2. \A v \in Path, k \in 1..n : step[<<v, k>>] = Enter(v, p[k]) OBVIOUS
  <2>3. step \in [Path \X (1..n) -> Path]
    <3> HIDE DEF Enter
    <3> QED BY <1>1, <1>2
  <2> HIDE DEF base, step, n, Enter
  <2>4. PICK h : Solution(h, Path, n, base, step) BY <1>1, <2>1, <2>3, Recursion
  <2>5. \A k \in 1..n : k - 1 \in 0..n /\ k # 0 BY <1>1
  <2>6. h[0] = base /\ h = [k \in 0..n |-> h[k]] BY <2>4 DEF Solution
  <2>7. \A k \in 1..n : h[k] = Enter(h[k - 1], p[k]) BY <2>2, <2>4, <2>5 DEF Solution
  <2>8. \A k \in 0..n : k # 0 => k \in 1..n BY <1>1
  <2>9. \A k \in 0..n : h[k] = IF k = 0 THEN base ELSE Enter(h[k - 1], p[k]) BY <2>6, <2>7, <2>8
  <2>10. [k \in 0..n |-> h[k]] = [k \in 0..n |-> IF k = 0 THEN base ELSE Enter(h[k - 1], p[k])] BY <2>9, Zenon
  <2>11. h = [k \in 0..n |-> IF k = 0 THEN base ELSE Enter(h[k - 1], p[k])] BY <2>6, <2>10, Zenon
  <2> QED BY <2>11 DEF base
<1>4. Eq(at) BY <1>3
<1>5. Clean(p) = at[n] BY DEF Clean
<1> HIDE DEF at, Enter
<1> DEFINE T == {k \in Nat : k <= n => at[k] \in Path}
<1>6. 0 \in T
  <2>1. 0 \in 0..n /\ <<>> \in Path BY <1>1 DEF Path
  <2> QED BY <1>4, <2>1
<1>7. ASSUME NEW k \in Nat, k \in T PROVE k + 1 \in T
  <2>1. SUFFICES ASSUME k + 1 <= n PROVE at[k + 1] \in Path OBVIOUS
  <2>2. k + 1 \in 0..n /\ k + 1 \in 1..n /\ k + 1 # 0 /\ (k + 1) - 1 = k BY <1>1, <2>1
  <2>3. at[k + 1] = Enter(at[k], p[k + 1]) BY <1>4, <2>2
  <2>4. at[k] \in Path /\ p[k + 1] \in Names BY <1>1, <1>7, <2>1, <2>2
  <2> QED BY <1>2, <2>3, <2>4
<1>8. Nat \subseteq T
  <2> HIDE DEF T
  <2> QED BY <1>6, <1>7, Numbers
<1>9. n \in T
  <2> HIDE DEF T, n
  <2> QED BY <1>1, <1>8
<1>10. n <= n BY <1>1
<1> HIDE DEF n
<1> QED BY <1>5, <1>9, <1>10

LEMMA NamePath ==
    ASSUME NEW dest \in Path, NEW name \in Name
    PROVE  Clean(dest \o name.parts) \in Path
<1>1. name.parts \in Seq(STRING) BY DEF Name
<1>2. name.parts \in Path BY <1>1, SeqMonotonic DEF Path, Names
<1>3. dest \o name.parts \in Path BY <1>2, ConcatProperties DEF Path
<1> QED BY <1>3, CleanPath

LEMMA Resolved ==
    ASSUME NEW rel \in Name, resolve(rel).ok
    PROVE  resolve(rel).path \in Path /\ withinRoot(Root, resolve(rel).path)
BY RootPath, NamePath DEF resolve, None

LEMMA Joined ==
    ASSUME NEW dest \in Path, NEW name \in Name, safeJoin(dest, name).ok
    PROVE  safeJoin(dest, name).path \in Path /\ withinRoot(dest, safeJoin(dest, name).path)
BY NamePath DEF safeJoin, None

LEMMA WithinWithin ==
    ASSUME NEW p \in Path, NEW q \in Path, NEW r, withinRoot(p, q), withinRoot(q, r), Len(r) \in Nat
    PROVE  withinRoot(p, r)
<1>1. Len(p) \in Nat /\ DOMAIN p = 1..Len(p) /\ Len(q) \in Nat /\ DOMAIN q = 1..Len(q) BY DEF Path
<1>2. Len(p) <= Len(q) /\ Len(q) <= Len(r) BY DEF withinRoot
<1>3. \A i \in DOMAIN p : i \in DOMAIN q /\ q[i] = p[i] /\ r[i] = q[i] BY <1>1, <1>2 DEF withinRoot
<1>4. Len(p) <= Len(r) BY <1>1, <1>2
<1> QED BY <1>3, <1>4 DEF withinRoot

\* The directory of a path.
LEMMA FrontPath ==
    ASSUME NEW p \in Path, p # <<>>
    PROVE  /\ Front(p) \in Path /\ Len(Front(p)) = Len(p) - 1 /\ Len(p) \in Nat \ {0}
           /\ \A i \in 1..(Len(p) - 1) : Front(p)[i] = p[i]
<1>1. Len(p) \in Nat \ {0} /\ \A i \in 1..(Len(p) - 1) : p[i] \in Names BY EmptySeq DEF Path
<1>2. /\ SubSeq(p, 1, Len(p) - 1) \in Seq(Names)
      /\ Len(SubSeq(p, 1, Len(p) - 1)) = IF 1 <= Len(p) - 1 THEN (Len(p) - 1) - 1 + 1 ELSE 0
      /\ \A i \in 1..((Len(p) - 1) - 1 + 1) : SubSeq(p, 1, Len(p) - 1)[i] = p[1 + i - 1]
  BY <1>1, SubSeqProperties
<1>3. \A i \in 1..(Len(p) - 1) : 1 + i - 1 = i /\ i \in 1..((Len(p) - 1) - 1 + 1) BY <1>1
<1>4. \A n \in Nat \ {0} : (IF 1 <= n - 1 THEN (n - 1) - 1 + 1 ELSE 0) = n - 1
  <2> TAKE n \in Nat \ {0}
  <2>1. CASE n = 1 BY <2>1
  <2>2. CASE n # 1 BY <2>2
  <2> QED BY <2>1, <2>2
<1> QED BY <1>1, <1>2, <1>3, <1>4 DEF Front, Path

-----------------------------------------------------------------------------
(* The nodes and their size *)

NodeOK(f) ==
    /\ f.path \in Path /\ withinRoot(Root, f.path) /\ f.size \in Nat
    /\ f.kind = "file" \/ f = Node(f.path, "dir", 0, "none", <<>>)

\* Finitely many nodes below the root, each path once.
NodesOK(d) == IsFiniteSet(d) /\ (\A f \in d : NodeOK(f)) /\ \A f, g \in d : f.path = g.path => f = g

LEMMA PathPart ==
    ASSUME NEW p \in Path, withinRoot(Root, p), NEW k \in Len(Root)..Len(p)
    PROVE  /\ SubSeq(p, 1, k) \in Path /\ withinRoot(Root, SubSeq(p, 1, k)) /\ withinRoot(SubSeq(p, 1, k), p)
<1>1. Len(p) \in Nat /\ Len(Root) \in Nat \ {0} /\ DOMAIN Root = 1..Len(Root) BY RootPath, EmptySeq DEF Path
<1>2. k \in Nat \ {0} /\ k <= Len(p) /\ Len(Root) <= k BY <1>1
<1>3. \A i \in 1..k : p[i] \in Names BY <1>1, <1>2, ElementOfSeq DEF Path
<1>4. /\ SubSeq(p, 1, k) \in Seq(Names)
      /\ Len(SubSeq(p, 1, k)) = k
      /\ \A i \in 1..k : SubSeq(p, 1, k)[i] = p[i]
  <2>1. /\ SubSeq(p, 1, k) \in Seq(Names)
        /\ Len(SubSeq(p, 1, k)) = IF 1 <= k THEN k - 1 + 1 ELSE 0
        /\ \A i \in 1..(k - 1 + 1) : SubSeq(p, 1, k)[i] = p[1 + i - 1]
    BY <1>2, <1>3, SubSeqProperties
  <2>2. 1 <= k /\ k - 1 + 1 = k /\ \A i \in 1..k : 1 + i - 1 = i BY <1>2
  <2> QED BY <2>1, <2>2
<1>5. DOMAIN SubSeq(p, 1, k) = 1..k BY <1>4, LenProperties
<1>6. \A i \in DOMAIN Root : i \in 1..k /\ p[i] = Root[i] BY <1>1, <1>2 DEF withinRoot
<1>7. withinRoot(Root, SubSeq(p, 1, k)) BY <1>2, <1>4, <1>6 DEF withinRoot
<1>8. withinRoot(SubSeq(p, 1, k), p) BY <1>2, <1>4, <1>5 DEF withinRoot
<1> QED BY <1>4, <1>7, <1>8 DEF Path

\* Directories are made where nothing lies in the way.
LEMMA MkdirNodes ==
    ASSUME NEW d, NodesOK(d), NoLinks(d), NEW p \in Path, Len(p) > Len(Root) => withinRoot(Root, p), ~Blocked(d, p)
    PROVE  /\ NodesOK(MkdirAll(d, p)) /\ Files(MkdirAll(d, p)) = Files(d)
           /\ \A x \in MkdirAll(d, p) \ d : withinRoot(x.path, p)
<1> DEFINE K == (Len(Root) + 1)..Len(p)
           dir == [k \in K |-> Node(SubSeq(p, 1, k), "dir", 0, "none", <<>>)]
           new == {dir[k] : k \in K}
<1>1. Len(p) \in Nat /\ Len(Root) \in Nat BY RootPath DEF Path
<1>2. Real(d, p) = p BY RealPath
<1>3. MkdirAll(d, p) = d \cup new BY <1>2 DEF MkdirAll
<1>4. IsFiniteSet(new)
  <2>1. IsFiniteSet(K) BY <1>1, FS_Interval
  <2> HIDE DEF K
  <2>2. DOMAIN dir = K OBVIOUS
  <2> HIDE DEF dir
  <2> QED BY <2>1, <2>2, ImageFinite
<1>5. \A x \in new : NodeOK(x) /\ x.kind = "dir" /\ withinRoot(x.path, p) /\ x = Node(x.path, "dir", 0, "none", <<>>)
  <2> SUFFICES ASSUME NEW k \in K
               PROVE  NodeOK(dir[k]) /\ dir[k].kind = "dir" /\ withinRoot(dir[k].path, p)
                        /\ dir[k] = Node(dir[k].path, "dir", 0, "none", <<>>)
    OBVIOUS
  <2>1. k \in Len(Root)..Len(p) /\ withinRoot(Root, p) BY <1>1
  <2>2. SubSeq(p, 1, k) \in Path /\ withinRoot(Root, SubSeq(p, 1, k)) /\ withinRoot(SubSeq(p, 1, k), p)
    BY <2>1, PathPart
  <2> QED BY <2>2 DEF NodeOK, Node
<1>6. \A x \in new, f \in d : x.path = f.path => x = f
  <2> SUFFICES ASSUME NEW x \in new, NEW f \in d, x.path = f.path PROVE x = f OBVIOUS
  <2>1. f.kind # "file" BY <1>2, <1>5 DEF Blocked
  <2> HIDE DEF new
  <2> QED BY <2>1, <1>5 DEF NodesOK, NodeOK
<1> HIDE DEF new
<1>7. IsFiniteSet(d \cup new) BY <1>4, FS_Union DEF NodesOK
<1>8. \A f, g \in d \cup new : f.path = g.path => f = g BY <1>5, <1>6 DEF NodesOK
<1>9. NodesOK(MkdirAll(d, p)) BY <1>3, <1>5, <1>7, <1>8 DEF NodesOK
<1>10. Files(MkdirAll(d, p)) = Files(d) BY <1>3, <1>5 DEF Files
<1>11. \A x \in MkdirAll(d, p) \ d : withinRoot(x.path, p) BY <1>3, <1>5
<1> QED BY <1>9, <1>10, <1>11

LEMMA PutNodes ==
    ASSUME NEW d, NodesOK(d), NoLinks(d), NEW p \in Path, withinRoot(Root, p), NEW size \in Nat, NEW holds
    PROVE  /\ NodesOK(Put(d, p, size, holds))
           /\ Files(Put(d, p, size, holds)) \subseteq Files(d) \cup {File(p, size, holds)}
<1> DEFINE kept == {f \in d : f.path # p}
           x == File(p, size, holds)
<1>1. Put(d, p, size, holds) = kept \cup {x} BY PutAt
<1>2. NodeOK(x) /\ x.path = p BY DEF NodeOK, File, Node
<1>3. IsFiniteSet(kept) /\ \A f \in kept : NodeOK(f) /\ f.path # p
  BY FS_Subset DEF NodesOK
<1>4. IsFiniteSet(kept \cup {x})
  <2> HIDE DEF kept, x
  <2> QED BY <1>3, FS_AddElement
<1>5. \A f, g \in kept \cup {x} : f.path = g.path => f = g
  <2>1. \A f, g \in kept : f.path = g.path => f = g BY DEF NodesOK
  <2> HIDE DEF kept, x
  <2> QED BY <1>2, <1>3, <2>1
<1>6. NodesOK(Put(d, p, size, holds))
  <2>1. \A f \in kept \cup {x} : NodeOK(f) BY <1>2, <1>3
  <2> HIDE DEF kept, x
  <2> QED BY <1>1, <1>4, <1>5, <2>1 DEF NodesOK
<1> QED BY <1>1, <1>6 DEF Files

\* Bytes adds up the sizes.
LEMMA BytesSums ==
    ASSUME NEW S, IsFiniteSet(S), \A f \in S : f.size \in Nat
    PROVE  \E g : Sums(g, S, [f \in S |-> f.size]) /\ Bytes(S) = g[S]
<1> DEFINE w == [f \in S |-> f.size]
           Eq(g) == g = [s \in SUBSET S |-> IF s = {} THEN 0
                                            ELSE LET x == CHOOSE x \in s : TRUE IN x.size + g[s \ {x}]]
           iter == CHOOSE g : Eq(g)
<1>1. w \in [S -> Nat] OBVIOUS
<1>2. PICK h : Sums(h, S, w) BY <1>1, SumsExist
<1>3. Eq(h)
  <2>1. h = [s \in SUBSET S |-> h[s]] BY <1>2 DEF Sums
  <2>2. ASSUME NEW s \in SUBSET S
        PROVE  h[s] = IF s = {} THEN 0 ELSE LET x == CHOOSE x \in s : TRUE IN x.size + h[s \ {x}]
    <3>1. CASE s = {} BY <1>2, <3>1 DEF Sums
    <3>2. CASE s # {}
      <4> DEFINE x == CHOOSE x \in s : TRUE
      <4>1. x \in s BY <3>2
      <4>2. w[x] = x.size BY <4>1
      <4>3. h[s] = w[x] + h[s \ {x}] BY <1>2, <3>2 DEF Sums
      <4> QED BY <3>2, <4>2, <4>3
    <3> QED BY <3>1, <3>2
  <2>3. [s \in SUBSET S |-> h[s]]
          = [s \in SUBSET S |-> IF s = {} THEN 0 ELSE LET x == CHOOSE x \in s : TRUE IN x.size + h[s \ {x}]]
    BY <2>2, Zenon
  <2> QED BY <2>1, <2>3, Zenon
<1>4. Eq(iter) BY <1>3
<1>5. Bytes(S) = iter[S] BY DEF Bytes, MapThenSumSet, MapThenFoldSet
<1> HIDE DEF iter
<1>6. Sums(iter, S, w)
  <2> DEFINE F == {s \in SUBSET S : iter[s] = h[s]}
  <2>1. ASSUME NEW s \in SUBSET S, \A x \in s : s \ {x} \in F PROVE s \in F
    <3>1. CASE s = {} BY <1>3, <1>4, <3>1
    <3>2. CASE s # {}
      <4> DEFINE x == CHOOSE x \in s : TRUE
      <4>1. x \in s BY <3>2
      <4>2. iter[s \ {x}] = h[s \ {x}] BY <2>1, <4>1
      <4>3. iter[s] = x.size + iter[s \ {x}] BY <1>4, <3>2
      <4>4. h[s] = x.size + h[s \ {x}] BY <1>3, <3>2
      <4> QED BY <4>2, <4>3, <4>4
    <3> QED BY <3>1, <3>2
  <2>2. \A s \in SUBSET S : s \in F
    <3> HIDE DEF F
    <3> QED BY <2>1, FiniteParts
  <2>3. iter = [s \in SUBSET S |-> iter[s]] BY <1>4
  <2>4. h = [s \in SUBSET S |-> h[s]] BY <1>2 DEF Sums
  <2>5. [s \in SUBSET S |-> iter[s]] = [s \in SUBSET S |-> h[s]] BY <2>2, Zenon
  <2> QED BY <1>2, <2>3, <2>4, <2>5, Zenon
<1> HIDE DEF w
<1> QED BY <1>5, <1>6 DEF w

LEMMA NoBytes == Bytes({}) = 0
<1>1. IsFiniteSet({}) BY FS_EmptySet
<1>2. PICK g : Sums(g, {}, [f \in {} |-> f.size]) /\ Bytes({}) = g[{}] BY <1>1, BytesSums
<1> QED BY <1>2 DEF Sums

LEMMA BytesPart ==
    ASSUME NEW U, IsFiniteSet(U), NEW w, \A f \in U : f.size \in Nat /\ w[f] = f.size,
           NEW g, Sums(g, U, w), NEW R \in SUBSET U
    PROVE  Bytes(R) = g[R]
<1>1. IsFiniteSet(R) /\ \A f \in R : f.size \in Nat BY FS_Subset
<1>2. PICK h, v : Sums(h, R, v) /\ (\A f \in R : v[f] = f.size) /\ Bytes(R) = h[R]
  <2> DEFINE v == [f \in R |-> f.size]
  <2>1. PICK h : Sums(h, R, v) /\ Bytes(R) = h[R] BY <1>1, BytesSums
  <2>2. \A f \in R : v[f] = f.size OBVIOUS
  <2> HIDE DEF v
  <2> QED BY <2>1, <2>2
<1>3. SameOn(R, v, w) BY <1>2 DEF SameOn
<1>4. SameOn(SUBSET R, g, h) BY <1>2, <1>3, SumsAgree
<1>5. R \in SUBSET R OBVIOUS
<1> QED BY <1>2, <1>4, <1>5 DEF SameOn

\* One file more adds at most its size.
LEMMA BytesBound ==
    ASSUME NEW S, IsFiniteSet(S), NEW x, \A f \in S \cup {x} : f.size \in Nat, NEW T \in SUBSET (S \cup {x})
    PROVE  Bytes(T) <= Bytes(S) + x.size /\ Bytes(T) \in Nat /\ Bytes(S) \in Nat
<1> DEFINE U == S \cup {x}
           w == [f \in U |-> f.size]
<1>1. IsFiniteSet(U) /\ IsFiniteSet(T)
  <2>1. IsFiniteSet(U) BY FS_AddElement
  <2> QED BY <2>1, FS_Subset
<1>2. w \in [U -> Nat] /\ x \in U /\ S \in SUBSET U /\ T \in SUBSET U OBVIOUS
<1>3. PICK g : Sums(g, U, w) BY <1>1, <1>2, SumsExist
<1>4. \A R \in SUBSET U : Bytes(R) = g[R]
  <2>1. \A f \in U : f.size \in Nat /\ w[f] = f.size OBVIOUS
  <2> HIDE DEF U, w
  <2> QED BY <1>1, <1>3, <2>1, BytesPart
<1>5. Bytes(T) = g[T] /\ Bytes(S) = g[S] BY <1>2, <1>4
<1>6. w[x] = x.size BY <1>2
<1> HIDE DEF w
<1>7. g[T] \in Nat /\ g[S] \in Nat /\ g[U] \in Nat /\ x.size \in Nat BY <1>2, <1>3 DEF Sums
<1>8. g[U] <= x.size + g[S]
  <2>1. CASE x \in S
    <3>1. U = S BY <2>1
    <3> QED BY <3>1, <1>7
  <2>2. CASE x \notin S
    <3>1. U \ {x} = S BY <2>2
    <3>2. g[U] = w[x] + g[U \ {x}]
      <4>1. U \in SUBSET U /\ x \in U OBVIOUS
      <4> HIDE DEF U
      <4> QED BY <4>1, <1>1, <1>2, <1>3, SumsAny
    <3>3. g[U \ {x}] = g[S] BY <3>1
    <3> HIDE DEF U
    <3> QED BY <3>2, <3>3, <1>6, <1>7
  <2> HIDE DEF U
  <2> QED BY <2>1, <2>2
<1>9. g[T] <= g[U]
  <2>1. U \in SUBSET U /\ T \in SUBSET U OBVIOUS
  <2> HIDE DEF U
  <2> QED BY <2>1, <1>1, <1>2, <1>3, SumsGrow
<1> HIDE DEF U
<1> QED BY <1>5, <1>7, <1>8, <1>9

-----------------------------------------------------------------------------
(* The invariant *)

\* The record of the extraction has the fields that the steps change.
JobShape ==
    /\ job = [stage |-> job.stage, holds |-> job.holds, format |-> job.format, dest |-> job.dest,
              i |-> job.i, n |-> job.n, total |-> job.total, before |-> job.before]
    /\ job.i \in Nat \ {0}

Before(i) == {k \in Taken : k < i}
Whole(k) == File(Target(k), Entries[k].size, Entries[k].holds) \in disk

\* The entries before the current one that are files have been counted and, but
\* for those that a later one of them replaced, are on the disk.
Progress ==
    job.stage = "extracting" =>
        /\ job.holds \in DOMAIN Archives
        /\ job.i <= Len(Entries) + 1
        /\ job.n = Cardinality(Before(job.i))
        /\ \A k \in Before(job.i) : (\A l \in Before(job.i) : l > k => Target(l) # Target(k)) => Whole(k)

IInv == NoLinks(disk) /\ JobShape /\ Progress /\ SuccessIsComplete

LEMMA LessOrHere == \A k, i \in Nat : k < i + 1 <=> k < i \/ k = i
OBVIOUS

LEMMA EntriesType ==
    ASSUME job.holds \in DOMAIN Archives
    PROVE  /\ DOMAIN Entries = 1..Len(Entries) /\ Len(Entries) \in Nat
           /\ \A k \in 1..Len(Entries) : /\ Entries[k].type \in {"dir", "file", "link"}
                                         /\ Entries[k].name \in Name /\ Entries[k].size \in Nat
<1> DEFINE E == [name : Name, type : {"dir", "file", "link"}, size : Nat, holds : STRING, to : Seq(STRING)]
<1>1. Entries \in Seq(E) BY ArchivesAssumption DEF Entries
<1>2. \A e \in E : e.type \in {"dir", "file", "link"} /\ e.name \in Name /\ e.size \in Nat OBVIOUS
<1> HIDE DEF E
<1> QED BY <1>1, <1>2

LEMMA BeforeFinite ==
    ASSUME job.holds \in DOMAIN Archives, NEW i \in Nat
    PROVE  IsFiniteSet(Before(i)) /\ Before(i) \subseteq Nat
<1>1. Before(i) \subseteq 1..Len(Entries) BY EntriesType DEF Before, Taken
<1>2. IsFiniteSet(1..Len(Entries)) BY EntriesType, FS_Interval
<1> QED BY <1>1, <1>2, FS_Subset, EntriesType

\* An extraction under way is not a success.
LEMMA NotOver ==
    ASSUME job.stage = "extracting" \/ reply.error \/ reply.tool # "extract_archive"
    PROVE  SuccessIsComplete
BY DEF SuccessIsComplete

LEMMA OverShape ==
    ASSUME JobShape, NEW error, Over(error)
    PROVE  JobShape' /\ job' = [job EXCEPT !.stage = "idle"] /\ job'.stage = "idle"
             /\ reply'.tool = "extract_archive" /\ reply'.error = error
BY DEF JobShape, Over, Answer, Reply

LEMMA AdvanceShape ==
    ASSUME JobShape, NEW n, NEW total, Advance(n, total)
    PROVE  /\ JobShape' /\ job'.stage = job.stage /\ job'.holds = job.holds /\ job'.format = job.format
           /\ job'.dest = job.dest /\ job'.i = job.i + 1 /\ job'.n = n /\ job'.total = total
           /\ job'.before = job.before
<1>1. job' = [stage |-> job.stage, holds |-> job.holds, format |-> job.format, dest |-> job.dest,
              i |-> job.i + 1, n |-> n, total |-> total, before |-> job.before]
  <2>1. job' = [job EXCEPT !.i = @ + 1, !.n = n, !.total = total] BY DEF Advance
  <2>2. job = [stage |-> job.stage, holds |-> job.holds, format |-> job.format, dest |-> job.dest,
               i |-> job.i, n |-> job.n, total |-> job.total, before |-> job.before]
    BY DEF JobShape
  <2> QED BY <2>1, <2>2
<1>2. job.i + 1 \in Nat \ {0} BY DEF JobShape
<1> QED BY <1>1, <1>2 DEF JobShape

\* Which entries are files, and where they go, does not change on the way.
LEMMA SameArchive ==
    ASSUME job'.holds = job.holds, job'.format = job.format, job'.dest = job.dest
    PROVE  Entries' = Entries /\ Taken' = Taken /\ \A k : Target(k)' = Target(k)
BY DEF Entries, Taken, Target

-----------------------------------------------------------------------------
(* Steps of an extraction *)

\* A step that passes over an entry that is no file.
LEMMA PassEntry ==
    ASSUME IInv, job.stage = "extracting", job.i <= Len(Entries), job.i \notin Taken,
           Advance(job.n, job.total), disk \subseteq disk', NoLinks(disk')
    PROVE  IInv'
<1>1. /\ JobShape' /\ job'.stage = "extracting" /\ job'.holds = job.holds /\ job'.format = job.format
      /\ job'.dest = job.dest /\ job'.i = job.i + 1 /\ job'.n = job.n
  BY AdvanceShape DEF IInv
<1>2. Entries' = Entries /\ Taken' = Taken /\ \A k : Target(k)' = Target(k) BY <1>1, SameArchive
<1>3. job.holds \in DOMAIN Archives /\ job.i \in Nat BY DEF IInv, Progress, JobShape
<1>4. Taken \subseteq Nat BY <1>3, EntriesType DEF Taken
<1>5. Before(job.i)' = Before(job.i)
  <2>1. Before(job.i)' = {k \in Taken : k < job.i + 1} BY <1>1, <1>2 DEF Before
  <2>2. \A k \in Taken : k < job.i + 1 <=> k < job.i
    <3>1. \A k \in Taken : k \in Nat /\ k # job.i BY <1>4
    <3> QED BY <3>1, <1>3, LessOrHere
  <2> QED BY <2>1, <2>2 DEF Before
<1>6. \A k : Whole(k) => Whole(k)' BY <1>2 DEF Whole
<1>7. Progress'
  BY <1>1, <1>2, <1>3, <1>5, <1>6, EntriesType DEF Progress, IInv
<1>8. SuccessIsComplete' BY <1>1 DEF SuccessIsComplete
<1> QED BY <1>1, <1>7, <1>8 DEF IInv

\* A step that puts a file where it belongs.
LEMMA PutEntry ==
    ASSUME IInv, job.stage = "extracting", job.i <= Len(Entries), job.i \in Taken,
           NEW total, Advance(job.n + 1, total), NoLinks(disk'),
           {f \in disk : f.kind # "dir" /\ f.path # Target(job.i)} \subseteq disk',
           File(Target(job.i), Entries[job.i].size, Entries[job.i].holds) \in disk'
    PROVE  IInv'
<1>1. /\ JobShape' /\ job'.stage = "extracting" /\ job'.holds = job.holds /\ job'.format = job.format
      /\ job'.dest = job.dest /\ job'.i = job.i + 1 /\ job'.n = job.n + 1
  BY AdvanceShape DEF IInv
<1>2. Entries' = Entries /\ Taken' = Taken /\ \A k : Target(k)' = Target(k) BY <1>1, SameArchive
<1>3. job.holds \in DOMAIN Archives /\ job.i \in Nat BY DEF IInv, Progress, JobShape
<1>4. Taken \subseteq Nat BY <1>3, EntriesType DEF Taken
<1>5. Before(job.i)' = Before(job.i) \cup {job.i} /\ job.i \notin Before(job.i)
  <2>1. Before(job.i)' = {k \in Taken : k < job.i + 1} BY <1>1, <1>2 DEF Before
  <2>2. \A k \in Taken : k < job.i + 1 <=> k < job.i \/ k = job.i BY <1>3, <1>4, LessOrHere
  <2>3. ~(job.i < job.i) BY <1>3
  <2> QED BY <2>1, <2>2, <2>3 DEF Before
<1>6. job'.n = Cardinality(Before(job.i)')
  <2>1. IsFiniteSet(Before(job.i)) BY <1>3, BeforeFinite
  <2>2. Cardinality(Before(job.i) \cup {job.i}) = Cardinality(Before(job.i)) + 1
    BY <1>5, <2>1, FS_AddElement
  <2> QED BY <1>1, <1>5, <2>2 DEF IInv, Progress
<1>7. ASSUME NEW k \in Before(job.i)', \A l \in Before(job.i)' : l > k => Target(l)' # Target(k)'
      PROVE  Whole(k)'
  <2>1. CASE k = job.i BY <2>1, <1>2 DEF Whole
  <2>2. CASE k # job.i
    <3>1. k \in Before(job.i) BY <1>5, <2>2
    <3>2. \A l \in Before(job.i) : l > k => Target(l) # Target(k) BY <1>2, <1>5, <1>7
    <3>3. Whole(k) BY <3>1, <3>2 DEF IInv, Progress
    <3>4. k < job.i BY <3>1 DEF Before
    <3>5. Target(job.i) # Target(k)
      <4>1. k \in Nat BY <3>1, <1>4 DEF Before
      <4>2. job.i > k BY <3>4, <4>1, <1>3
      <4> QED BY <4>2, <1>2, <1>5, <1>7
    <3> QED BY <3>3, <3>5, <1>2 DEF Whole, File, Node
  <2> QED BY <2>1, <2>2
<1>8. Progress'
  BY <1>1, <1>2, <1>3, <1>6, <1>7, EntriesType DEF Progress
<1>9. SuccessIsComplete' BY <1>1 DEF SuccessIsComplete
<1> QED BY <1>1, <1>8, <1>9 DEF IInv

\* A step that gives up.
LEMMA GiveUp ==
    ASSUME IInv, Over(TRUE), NoLinks(disk')
    PROVE  IInv'
<1>1. JobShape' /\ job'.stage = "idle" /\ reply'.error = TRUE BY OverShape DEF IInv
<1> QED BY <1>1 DEF IInv, Progress, SuccessIsComplete

LEMMA JoinBelow ==
    ASSUME NEW dest, NEW name, safeJoin(dest, name).ok
    PROVE  withinRoot(dest, safeJoin(dest, name).path)
BY DEF safeJoin, None

\* A file of the archive is whole when the extraction goes on behind it.
LEMMA FileEntry ==
    ASSUME IInv, job.stage = "extracting", job.i <= Len(Entries), job.i \in Taken,
           safeJoin(job.dest, Entry.name).ok, ExtractFile(Target(job.i))
    PROVE  IInv' /\ Below(job.dest, disk, disk')
<1> DEFINE target == Target(job.i)
           made == MkdirAll(disk, Front(target))
<1>1. NoLinks(disk) /\ NoLinks(made) BY MkdirLinks DEF IInv
<1>2. withinRoot(job.dest, target) BY JoinBelow DEF Target, Entry
<1>3. Below(job.dest, disk, disk) /\ Below(job.dest, disk, made) BY MkdirBelow DEF Below
<1>4. \A size, holds : /\ Put(made, target, size, holds) = {f \in made : f.path # target} \cup {File(target, size, holds)}
                       /\ NoLinks(Put(made, target, size, holds))
  BY <1>1, PutAt
<1>5. \A size, holds : Below(job.dest, disk, Put(made, target, size, holds)) BY <1>1, <1>2, PutBelow
<1>6. CASE disk' = disk /\ Over(TRUE) BY <1>6, <1>1, <1>3, GiveUp
<1>7. CASE disk' = made /\ Over(TRUE) BY <1>7, <1>1, <1>3, GiveUp
<1>8. ASSUME NEW size, NEW holds, disk' = Put(made, target, size, holds), Over(TRUE)
      PROVE  IInv' /\ Below(job.dest, disk, disk')
  BY <1>8, <1>4, <1>5, GiveUp
<1>9. ASSUME NEW total, Advance(job.n + 1, total), disk' = Put(made, target, Entry.size, Entry.holds)
      PROVE  IInv' /\ Below(job.dest, disk, disk')
  <2>1. File(target, Entries[job.i].size, Entries[job.i].holds) \in disk' BY <1>9, <1>4 DEF Entry
  <2>2. {f \in disk : f.kind # "dir" /\ f.path # target} \subseteq disk' BY <1>9, <1>4, Mkdir
  <2>3. NoLinks(disk') BY <1>9, <1>4
  <2>4. IInv' BY <1>9, <2>1, <2>2, <2>3, PutEntry
  <2> QED BY <2>4, <1>9, <1>5
<1>10. CASE writeCapped(made, target, job.n + 1, MaxExtractBytes - job.total)
  <2>1. \/ disk' = Put(made, target, 0, "cut") /\ Over(TRUE)
        \/ \E size, holds : disk' = Put(made, target, size, holds) /\ Over(TRUE)
        \/ \E total : Advance(job.n + 1, total) /\ disk' = Put(made, target, Entry.size, Entry.holds)
    BY <1>10 DEF writeCapped
  <2> QED BY <2>1, <1>8, <1>9
<1> QED BY <1>6, <1>7, <1>10 DEF ExtractFile

LEMMA EntryStep ==
    ASSUME IInv, ExtractEntry
    PROVE  IInv' /\ Below(job.dest, disk, disk')
<1>1. job.stage = "extracting" /\ job.i <= Len(Entries) BY DEF ExtractEntry
<1>2. job.holds \in DOMAIN Archives /\ job.i \in 1..Len(Entries)
  BY <1>1, EntriesType DEF IInv, Progress, JobShape
<1>3. Entry.type \in {"dir", "file", "link"} /\ job.i \in DOMAIN Entries BY <1>2, EntriesType DEF Entry
<1>4. NoLinks(disk) /\ Below(job.dest, disk, disk) BY DEF IInv, Below
<1>5. CASE Over(TRUE) /\ UNCHANGED disk BY <1>5, <1>4, GiveUp
<1>6. ASSUME safeJoin(job.dest, Entry.name).ok, Entry.type = "dir", ExtractDir(Target(job.i))
      PROVE  IInv' /\ Below(job.dest, disk, disk')
  <2>1. job.i \notin Taken BY <1>6 DEF Taken, Entry
  <2>2. disk' = disk \/ disk' = MkdirAll(disk, Target(job.i)) BY <1>6 DEF ExtractDir
  <2>3. disk \subseteq disk' /\ NoLinks(disk') /\ Below(job.dest, disk, disk')
    BY <2>2, <1>4, Mkdir, MkdirLinks, MkdirBelow
  <2>4. Advance(job.n, job.total) BY <1>6 DEF ExtractDir
  <2> QED BY <2>1, <2>3, <2>4, <1>1, PassEntry
<1>7. ASSUME safeJoin(job.dest, Entry.name).ok, Entry.type = "link", ExtractLink(Target(job.i))
      PROVE  IInv' /\ Below(job.dest, disk, disk')
  <2>1. CASE job.format = "zip"
    <3>1. job.i \in Taken BY <1>3, <1>7, <2>1 DEF Taken, Entry
    <3> QED BY <3>1, <1>1, <1>7, <2>1, FileEntry DEF ExtractLink
  <2>2. CASE job.format # "zip"
    <3>1. job.i \notin Taken BY <1>7, <2>2 DEF Taken, Entry
    <3>2. Advance(job.n, job.total) /\ disk' = disk BY <1>7, <2>2 DEF ExtractLink
    <3>3. IInv' BY <3>1, <3>2, <1>1, <1>4, PassEntry
    <3> QED BY <3>2, <3>3, <1>4
  <2> QED BY <2>1, <2>2
<1>8. ASSUME safeJoin(job.dest, Entry.name).ok, Entry.type = "file", ExtractFile(Target(job.i))
      PROVE  IInv' /\ Below(job.dest, disk, disk')
  <2>1. job.i \in Taken BY <1>3, <1>8 DEF Taken, Entry
  <2> QED BY <2>1, <1>1, <1>8, FileEntry
<1>9. CASE /\ safeJoin(job.dest, Entry.name).ok
           /\ CASE Entry.type = "dir" -> ExtractDir(Target(job.i))
                [] Entry.type = "link" -> ExtractLink(Target(job.i))
                [] Entry.type = "file" -> ExtractFile(Target(job.i))
  BY <1>9, <1>3, <1>6, <1>7, <1>8
<1> QED BY <1>5, <1>9 DEF ExtractEntry, Target, Entry

LEMMA ExtractedStep ==
    ASSUME IInv, Extracted
    PROVE  IInv' /\ disk' = disk
<1>1. job.stage = "extracting" /\ job.i > Len(Entries) /\ Over(FALSE) /\ disk' = disk BY DEF Extracted
<1>2. job' = [job EXCEPT !.stage = "idle"] /\ job'.stage = "idle" /\ JobShape' BY <1>1, OverShape DEF IInv
<1>3. job'.holds = job.holds /\ job'.format = job.format /\ job'.dest = job.dest /\ job'.n = job.n
  BY <1>2 DEF IInv, JobShape
<1>4. Entries' = Entries /\ Taken' = Taken /\ \A k : Target(k)' = Target(k) BY <1>3, SameArchive
<1>5. job.holds \in DOMAIN Archives /\ job.i = Len(Entries) + 1
  BY <1>1, EntriesType DEF IInv, Progress, JobShape
<1>6. Before(job.i) = Taken BY <1>5, EntriesType DEF Before, Taken
<1>7. job.n = Cardinality(Taken) BY <1>1, <1>6 DEF IInv, Progress
<1>8. \A k \in Taken : (\A l \in Taken : l > k => Target(l) # Target(k)) => Whole(k)
  BY <1>1, <1>6 DEF IInv, Progress
<1>9. SuccessIsComplete' BY <1>1, <1>3, <1>4, <1>7, <1>8 DEF SuccessIsComplete, Whole
<1> QED BY <1>1, <1>2, <1>9 DEF IInv, Progress

-----------------------------------------------------------------------------
(* The other tools *)

\* A tool that leaves the extraction alone and answers in its own name.
LEMMA OtherTool ==
    ASSUME IInv, job.stage = "idle", UNCHANGED job, reply'.tool # "extract_archive", NoLinks(disk')
    PROVE  IInv'
BY DEF IInv, JobShape, Progress, SuccessIsComplete

LEMMA ArchiveStep ==
    ASSUME IInv, NEW c \in Calls, ExtractArchive(c)
    PROVE  IInv' /\ Below(SastDir, disk, disk')
<1> DEFINE made == MkdirAll(disk, resolve(c.dest).path)
<1>1. NoLinks(disk) /\ NoLinks(made) /\ Below(SastDir, disk, disk) /\ Below(SastDir, disk, made)
  BY MkdirLinks, MkdirBelow DEF IInv, Below
<1>2. CASE Answer(Reply(c.tool, TRUE)) /\ \E d : job' = [Idle EXCEPT !.before = d]
  <2>1. reply'.error BY <1>2 DEF Answer, Reply
  <2>2. JobShape' /\ job'.stage = "idle" BY <1>2 DEF JobShape, Idle
  <2> QED BY <2>1, <2>2, <1>1 DEF ExtractArchive, IInv, Progress, SuccessIsComplete
<1>3. ASSUME NEW holds \in DOMAIN Archives, disk' = made,
             job' = [Idle EXCEPT !.stage = "extracting", !.holds = holds, !.format = FormatOf[Last(resolve(c.path).path)],
                                 !.dest = resolve(c.dest).path, !.before = made]
      PROVE  IInv' /\ Below(SastDir, disk, disk')
  <2>1. JobShape' /\ job'.stage = "extracting" /\ job'.holds = holds /\ job'.i = 1 /\ job'.n = 0
    <3>1. job' = [stage |-> "extracting", holds |-> holds, format |-> FormatOf[Last(resolve(c.path).path)],
                  dest |-> resolve(c.dest).path, i |-> 1, n |-> 0, total |-> 0, before |-> made]
      BY <1>3 DEF Idle
    <3> QED BY <3>1 DEF JobShape
  <2>2. Entries' = Archives[holds].entries BY <2>1 DEF Entries
  <2>3. DOMAIN Entries' = 1..Len(Entries') /\ Len(Entries') \in Nat
    BY <2>2, <1>3, ArchivesAssumption
  <2>4. Before(job.i)' = {} BY <2>1, <2>3 DEF Before, Taken
  <2>5. Progress'
    <3>1. Cardinality(Before(job.i)') = 0 BY <2>4, FS_EmptySet
    <3>2. job'.holds \in DOMAIN Archives /\ job'.i <= Len(Entries') + 1 BY <2>1, <2>3
    <3>3. job'.n = Cardinality(Before(job.i)') BY <2>1, <3>1
    <3> QED BY <2>4, <3>2, <3>3 DEF Progress
  <2>6. SuccessIsComplete' BY <2>1 DEF SuccessIsComplete
  <2> QED BY <2>1, <2>5, <2>6, <1>1, <1>3 DEF IInv
<1>4. \/ Answer(Reply(c.tool, TRUE)) /\ \E d : job' = [Idle EXCEPT !.before = d]
      \/ \E holds \in DOMAIN Archives :
           /\ disk' = made
           /\ job' = [Idle EXCEPT !.stage = "extracting", !.holds = holds, !.format = FormatOf[Last(resolve(c.path).path)],
                                  !.dest = resolve(c.dest).path, !.before = made]
  BY DEF ExtractArchive
<1> QED BY <1>2, <1>3, <1>4

LEMMA ArtifactStep ==
    ASSUME IInv, NEW c \in Calls, WriteArtifact(c)
    PROVE  IInv' /\ Below(SastDir, disk, disk')
<1> DEFINE made == MkdirAll(disk, SastDir)
           path == Append(SastDir, c.name)
<1>1. NoLinks(disk) /\ NoLinks(made) /\ Below(SastDir, disk, disk) /\ Below(SastDir, disk, made)
  BY MkdirLinks, MkdirBelow DEF IInv, Below
<1>2. job.stage = "idle" /\ UNCHANGED job /\ c.tool = "write_artifact" BY DEF WriteArtifact, Free
<1>3. reply'.tool = "write_artifact" BY <1>2 DEF WriteArtifact, Answer, Reply
<1>4. CASE disk' = disk BY <1>4, <1>1, <1>2, <1>3, OtherTool
<1>5. CASE disk' = made BY <1>5, <1>1, <1>2, <1>3, OtherTool
<1>6. ASSUME c.name \in allowedArtifacts, NEW content, disk' = Put(made, path, 1, content)
      PROVE  IInv' /\ Below(SastDir, disk, disk')
  <2>1. SastDir \in Seq(STRING \cup {"sast"})
    <3>1. Root \in Seq(STRING) BY WorkspaceAssumption
    <3>2. Root \in Seq(STRING \cup {"sast"}) BY <3>1
    <3> QED BY <3>2 DEF SastDir
  <2>2. SastDir \in Seq(STRING \cup {"sast", c.name}) BY <2>1
  <2>3. withinRoot(SastDir, path) BY <2>1, <2>2 DEF withinRoot
  <2>4. NoLinks(disk') BY <1>1, <1>6, PutAt
  <2>5. Below(SastDir, disk, disk') BY <1>1, <1>6, <2>3, PutBelow
  <2> QED BY <2>4, <2>5, <1>2, <1>3, OtherTool
<1>7. \/ disk' = disk \/ disk' = made
      \/ c.name \in allowedArtifacts /\ \E content : disk' = Put(made, path, 1, content)
  BY DEF WriteArtifact
<1> QED BY <1>4, <1>5, <1>6, <1>7

\* The tools that only read answer in their own name, and count.
LEMMA Answered ==
    ASSUME NEW c, ListFiles(c) \/ ReadFile(c) \/ SearchCode(c) \/ Knowledge(c) \/ ValidateOpenAPI(c)
    PROVE  reply'.tool = c.tool /\ c.tool # "extract_archive" /\ reply'.tool # "extract_archive" /\ calls' = calls + 1
<1>1. CASE ListFiles(c) BY <1>1 DEF ListFiles, Answer
<1>2. CASE ReadFile(c)
  <2>1. c.tool = "read_file" BY <1>2 DEF ReadFile
  <2>2. PICK r : Answer(r) /\ r.tool = c.tool
    <3>1. Reply(c.tool, TRUE).tool = c.tool BY DEF Reply
    <3>2. \A told, left : [tool |-> c.tool, error |-> FALSE, told |-> told, left |-> left].tool = c.tool OBVIOUS
    <3> QED BY <1>2, <3>1, <3>2, Zenon DEF ReadFile
  <2>3. reply'.tool = c.tool /\ calls' = calls + 1 BY <2>2 DEF Answer
  <2> QED BY <2>1, <2>3
<1>3. CASE SearchCode(c) BY <1>3 DEF SearchCode, Answer
<1>4. CASE Knowledge(c) BY <1>4 DEF Knowledge, Answer, Reply
<1>5. CASE ValidateOpenAPI(c) BY <1>5 DEF ValidateOpenAPI, Answer, Reply
<1> QED BY <1>1, <1>2, <1>3, <1>4, <1>5

\* The tools that only read.
LEMMA ReadStep ==
    ASSUME IInv, NEW c \in Calls,
           ListFiles(c) \/ ReadFile(c) \/ SearchCode(c) \/ Knowledge(c) \/ ValidateOpenAPI(c)
    PROVE  IInv' /\ disk' = disk
<1>1. job.stage = "idle" /\ UNCHANGED job /\ disk' = disk
  <2>1. CASE ListFiles(c) BY <2>1 DEF ListFiles, Free
  <2>2. CASE ReadFile(c) BY <2>2 DEF ReadFile, Free
  <2>3. CASE SearchCode(c) BY <2>3 DEF SearchCode, Free
  <2>4. CASE Knowledge(c) BY <2>4 DEF Knowledge, Free
  <2>5. CASE ValidateOpenAPI(c) BY <2>5 DEF ValidateOpenAPI, Free
  <2> QED BY <2>1, <2>2, <2>3, <2>4, <2>5
<1>2. reply'.tool # "extract_archive" BY Answered
<1> QED BY <1>1, <1>2, OtherTool DEF IInv

-----------------------------------------------------------------------------
(* The limits of an extraction *)

JobOK ==
    /\ job.stage \in {"idle", "extracting"}
    /\ job.dest \in Path /\ withinRoot(Root, job.dest)
    /\ job.n \in 0..MaxExtractFiles /\ job.total \in 0..MaxExtractBytes
    /\ calls \in 0..MaxCalls /\ (job.stage = "extracting" => calls < MaxCalls)

\* What is on the disk has been counted.
Counted == job.stage = "extracting" => Cardinality(Added) <= job.n /\ Bytes(Added) <= job.total

Limits == NodesOK(disk) /\ JobOK /\ Counted /\ ExtractionIsBounded

LEMMA Numbered ==
    /\ MaxExtractFiles \in Nat \ {0} /\ MaxExtractBytes \in Nat \ {0}
    /\ ReadDefault \in Nat \ {0} /\ ReadHardCap \in Nat \ {0}
    /\ ListDefault \in Nat \ {0} /\ SearchDefault \in Nat \ {0}
    /\ MaxCalls \in Nat
BY WorkspaceAssumption

LEMMA MinTwo ==
    ASSUME NEW a \in Int, NEW b \in Int
    PROVE  Min({a, b}) = IF a <= b THEN a ELSE b
<1>1. CASE a <= b BY <1>1 DEF Min
<1>2. CASE ~(a <= b) BY <1>2 DEF Min
<1> QED BY <1>1, <1>2

LEMMA MaxTwo ==
    ASSUME NEW a \in Int, NEW b \in Int
    PROVE  Max({a, b}) = IF a >= b THEN a ELSE b
<1>1. CASE a >= b BY <1>1 DEF Max
<1>2. CASE ~(a >= b) BY <1>2 DEF Max
<1> QED BY <1>1, <1>2

\* What a disk has that another has not.
AddedOf(d, before) == {f \in Files(d) : f \notin before}

LEMMA AddedOK ==
    ASSUME NEW d, NodesOK(d), NEW before
    PROVE  /\ IsFiniteSet(AddedOf(d, before)) /\ Cardinality(AddedOf(d, before)) \in Nat
           /\ \A f \in AddedOf(d, before) : f.size \in Nat
<1>1. AddedOf(d, before) \subseteq d BY DEF AddedOf, Files
<1>2. IsFiniteSet(AddedOf(d, before)) BY <1>1, FS_Subset DEF NodesOK
<1> QED BY <1>1, <1>2, FS_CardinalityType DEF NodesOK, NodeOK

LEMMA BytesPrime == Bytes(Added)' = Bytes(Added')
BY DEF Bytes, MapThenSumSet, MapThenFoldSet

\* A step that adds no file.
LEMMA SameFiles ==
    ASSUME IInv, Limits, job.stage = "extracting", NodesOK(disk'), Files(disk') = Files(disk),
           (\E error : Over(error)) \/ Advance(job.n, job.total)
    PROVE  Limits'
<1>1. /\ JobShape /\ job.dest \in Path /\ withinRoot(Root, job.dest)
      /\ job.n \in 0..MaxExtractFiles /\ job.total \in 0..MaxExtractBytes
      /\ calls \in 0..MaxCalls /\ calls < MaxCalls
      /\ Cardinality(Added) <= job.n /\ Bytes(Added) <= job.total
  BY DEF IInv, Limits, JobOK, Counted
<1>2. /\ job'.dest = job.dest /\ job'.n = job.n /\ job'.total = job.total /\ job'.before = job.before
      /\ \/ job'.stage = "idle" /\ calls' = calls + 1
         \/ job'.stage = "extracting" /\ calls' = calls
  <2>1. CASE \E error : Over(error) BY <2>1, <1>1 DEF JobShape, Over, Answer
  <2>2. CASE Advance(job.n, job.total)
    <3>1. calls' = calls BY <2>2 DEF Advance
    <3> QED BY <2>2, <3>1, <1>1, AdvanceShape
  <2> QED BY <2>1, <2>2
<1>3. Added' = Added BY <1>2 DEF Added, Files
<1>4. Bytes(Added)' = Bytes(Added) BY <1>3, BytesPrime
<1>5. JobOK' BY <1>1, <1>2, Numbered DEF JobOK
<1>6. Counted' BY <1>1, <1>2, <1>3, <1>4 DEF Counted
<1>7. ExtractionIsBounded'
  <2>1. Cardinality(Added) \in Nat /\ Bytes(Added) \in Nat
    <3>1. Added = AddedOf(disk, job.before) BY DEF Added, AddedOf
    <3>2. IsFiniteSet(Added) /\ Cardinality(Added) \in Nat /\ \A f \in Added : f.size \in Nat
      BY <3>1, AddedOK DEF Limits
    <3>3. PICK g : Sums(g, Added, [f \in Added |-> f.size]) /\ Bytes(Added) = g[Added] BY <3>2, BytesSums
    <3>4. Added \in SUBSET Added OBVIOUS
    <3> QED BY <3>2, <3>3, <3>4 DEF Sums
  <2>2. Cardinality(Added) <= MaxExtractFiles /\ Bytes(Added) <= MaxExtractBytes + 1 BY <1>1, <2>1, Numbered
  <2> QED BY <2>2, <1>3, <1>4 DEF ExtractionIsBounded
<1> QED BY <1>5, <1>6, <1>7 DEF Limits

\* A step that puts one file.
LEMMA OneFile ==
    ASSUME IInv, Limits, job.stage = "extracting", NodesOK(disk'),
           NEW x, x.size \in Nat, Files(disk') \subseteq Files(disk) \cup {x}, job.n + 1 <= MaxExtractFiles,
           \/ (\E error : Over(error)) /\ x.size <= MaxExtractBytes - job.total + 1
           \/ Advance(job.n + 1, job.total + x.size) /\ x.size <= MaxExtractBytes - job.total
    PROVE  Limits'
<1>1. /\ JobShape /\ job.dest \in Path /\ withinRoot(Root, job.dest)
      /\ job.n \in 0..MaxExtractFiles /\ job.total \in 0..MaxExtractBytes
      /\ calls \in 0..MaxCalls /\ calls < MaxCalls
      /\ Cardinality(Added) <= job.n /\ Bytes(Added) <= job.total
  BY DEF IInv, Limits, JobOK, Counted
<1>2. /\ job'.dest = job.dest /\ job'.before = job.before
      /\ \/ /\ job'.stage = "idle" /\ calls' = calls + 1 /\ job'.n = job.n /\ job'.total = job.total
            /\ x.size <= MaxExtractBytes - job.total + 1
         \/ /\ job'.stage = "extracting" /\ calls' = calls /\ job'.n = job.n + 1 /\ job'.total = job.total + x.size
            /\ x.size <= MaxExtractBytes - job.total
  <2>1. CASE (\E error : Over(error)) /\ x.size <= MaxExtractBytes - job.total + 1
    BY <2>1, <1>1 DEF JobShape, Over, Answer
  <2>2. CASE Advance(job.n + 1, job.total + x.size) /\ x.size <= MaxExtractBytes - job.total
    <3>1. calls' = calls BY <2>2 DEF Advance
    <3> QED BY <2>2, <3>1, <1>1, AdvanceShape
  <2> QED BY <2>1, <2>2
<1>3. Added = AddedOf(disk, job.before) /\ Added' = AddedOf(disk', job.before)
  BY <1>2 DEF Added, AddedOf, Files
<1>4. /\ IsFiniteSet(Added) /\ Cardinality(Added) \in Nat /\ \A f \in Added : f.size \in Nat
      /\ IsFiniteSet(Added') /\ Cardinality(Added') \in Nat
  <2>1. NodesOK(disk) /\ NodesOK(disk') BY DEF Limits
  <2>2. /\ IsFiniteSet(AddedOf(disk, job.before)) /\ Cardinality(AddedOf(disk, job.before)) \in Nat
        /\ \A f \in AddedOf(disk, job.before) : f.size \in Nat
    BY <2>1, AddedOK
  <2>3. IsFiniteSet(AddedOf(disk', job.before)) /\ Cardinality(AddedOf(disk', job.before)) \in Nat
    BY <2>1, AddedOK
  <2> HIDE DEF Added
  <2> QED BY <2>2, <2>3, <1>3
<1>5. Added' \subseteq Added \cup {x} BY <1>3 DEF AddedOf
<1>6. Bytes(Added') <= Bytes(Added) + x.size /\ Bytes(Added') \in Nat /\ Bytes(Added) \in Nat
  <2>1. \A f \in Added \cup {x} : f.size \in Nat BY <1>4
  <2> HIDE DEF Added
  <2> QED BY <1>4, <1>5, <2>1, BytesBound
<1>7. Cardinality(Added') <= Cardinality(Added) + 1
  <2>1. IsFiniteSet(Added \cup {x}) /\ Cardinality(Added \cup {x}) <= Cardinality(Added) + 1
    <3>1. /\ IsFiniteSet(Added \cup {x})
          /\ Cardinality(Added \cup {x}) = IF x \in Added THEN Cardinality(Added) ELSE Cardinality(Added) + 1
      BY <1>4, FS_AddElement
    <3> HIDE DEF Added
    <3> QED BY <1>4, <3>1
  <2>2. Cardinality(Added') <= Cardinality(Added \cup {x}) BY <2>1, <1>5, FS_Subset
  <2>3. Cardinality(Added \cup {x}) \in Nat BY <2>1, FS_CardinalityType
  <2> QED BY <2>1, <2>2, <2>3, <1>4
<1>8. Cardinality(Added') <= job.n + 1 /\ Bytes(Added') <= job.total + x.size
  BY <1>1, <1>4, <1>6, <1>7
<1>9. Bytes(Added)' = Bytes(Added') BY BytesPrime
<1>10. JobOK'
  <2>1. CASE job'.stage = "idle" BY <1>1, <1>2, <2>1, Numbered DEF JobOK
  <2>2. CASE job'.stage = "extracting" BY <1>1, <1>2, <2>2, Numbered DEF JobOK
  <2> QED BY <1>2, <2>1, <2>2
<1>11. Counted' BY <1>2, <1>8, <1>9 DEF Counted
<1>12. ExtractionIsBounded'
  <2>1. Cardinality(Added') <= MaxExtractFiles BY <1>1, <1>4, <1>8, Numbered
  <2>2. job.total + x.size <= MaxExtractBytes + 1 BY <1>1, <1>2, Numbered
  <2>3. Bytes(Added') <= MaxExtractBytes + 1 BY <1>1, <1>6, <1>8, <2>2, Numbered
  <2> QED BY <2>1, <2>3, <1>9 DEF ExtractionIsBounded
<1> QED BY <1>10, <1>11, <1>12 DEF Limits

LEMMA FrontWithin ==
    ASSUME NEW p \in Path, withinRoot(Root, p)
    PROVE  /\ p # <<>> /\ Front(p) \in Path /\ (Len(Front(p)) > Len(Root) => withinRoot(Root, Front(p)))
           /\ \A q \in Path : withinRoot(q, Front(p)) => withinRoot(q, p) /\ Len(q) < Len(p)
<1>1. Len(Root) \in Nat \ {0} /\ DOMAIN Root = 1..Len(Root) BY RootPath, EmptySeq DEF Path
<1>2. Len(p) >= Len(Root) /\ Len(p) \in Nat BY DEF withinRoot, Path
<1>3. p # <<>> BY <1>1, <1>2, EmptySeq
<1>4. Front(p) \in Path /\ Len(Front(p)) = Len(p) - 1 /\ \A i \in 1..(Len(p) - 1) : Front(p)[i] = p[i]
  BY <1>3, FrontPath
<1>5. ASSUME Len(Front(p)) > Len(Root) PROVE withinRoot(Root, Front(p))
  <2>1. \A i \in DOMAIN Root : i \in 1..(Len(p) - 1) /\ p[i] = Root[i] BY <1>1, <1>2, <1>4, <1>5 DEF withinRoot
  <2>2. Len(Root) <= Len(Front(p)) BY <1>1, <1>2, <1>4, <1>5
  <2> QED BY <2>1, <2>2, <1>4 DEF withinRoot
<1>6. ASSUME NEW q \in Path, withinRoot(q, Front(p)) PROVE withinRoot(q, p) /\ Len(q) < Len(p)
  <2>1. Len(q) \in Nat /\ DOMAIN q = 1..Len(q) BY DEF Path
  <2>2. Len(q) <= Len(p) - 1 /\ \A i \in DOMAIN q : Front(p)[i] = q[i] BY <1>4, <1>6 DEF withinRoot
  <2>3. \A i \in DOMAIN q : i \in 1..(Len(p) - 1) BY <1>2, <2>1, <2>2
  <2>4. Len(q) <= Len(p) /\ Len(q) < Len(p) BY <1>2, <2>1, <2>2
  <2> QED BY <1>4, <2>2, <2>3, <2>4 DEF withinRoot
<1> QED BY <1>3, <1>4, <1>5, <1>6

LEMMA FileLimits ==
    ASSUME IInv, Limits, job.stage = "extracting", job.i \in 1..Len(Entries), job.holds \in DOMAIN Archives,
           safeJoin(job.dest, Entry.name).ok, ExtractFile(Target(job.i))
    PROVE  Limits'
<1> DEFINE target == Target(job.i)
           dir == Front(target)
           made == MkdirAll(disk, dir)
           limit == MaxExtractBytes - job.total
<1>1. target \in Path /\ withinRoot(Root, target)
  <2>1. Entry.name \in Name /\ target = safeJoin(job.dest, Entry.name).path BY EntriesType DEF Entry, Target
  <2>2. job.dest \in Path /\ withinRoot(Root, job.dest) BY DEF Limits, JobOK
  <2>3. target \in Path /\ withinRoot(job.dest, target) BY <2>1, <2>2, Joined
  <2>4. Len(target) \in Nat BY <2>3 DEF Path
  <2> HIDE DEF target
  <2> QED BY <2>2, <2>3, <2>4, RootPath, WithinWithin
<1>2. Entry.size \in Nat BY EntriesType DEF Entry
<1> HIDE DEF target
<1>3. NodesOK(disk) /\ NoLinks(disk) BY DEF Limits, IInv
<1>4. dir \in Path /\ (Len(dir) > Len(Root) => withinRoot(Root, dir)) BY <1>1, FrontWithin
<1>5. CASE Over(TRUE) /\ disk' = disk
  <2>1. NodesOK(disk') /\ Files(disk') = Files(disk) BY <1>3, <1>5
  <2>2. \E error : Over(error) BY <1>5
  <2> QED BY <2>1, <2>2, SameFiles
<1>6. ASSUME ~(job.n + 1 > MaxExtractFiles), ~Blocked(disk, dir),
             \/ disk' = made /\ Over(TRUE)
             \/ writeCapped(made, target, job.n + 1, limit)
      PROVE  Limits'
  <2> HIDE DEF dir
  <2>1. NodesOK(made) /\ Files(made) = Files(disk) /\ NoLinks(made) BY <1>3, <1>4, <1>6, MkdirNodes, MkdirLinks
  <2>2. job.n \in Nat /\ job.total \in 0..MaxExtractBytes /\ limit \in Int /\ job.n + 1 <= MaxExtractFiles
    BY <1>6, Numbered DEF Limits, JobOK
  <2>3. CASE disk' = made /\ Over(TRUE)
    <3>1. NodesOK(disk') /\ Files(disk') = Files(disk) BY <2>1, <2>3
    <3>2. \E error : Over(error) BY <2>3
    <3> QED BY <3>1, <3>2, SameFiles
  <2>4. ASSUME NEW w \in Nat, NEW holds, disk' = Put(made, target, w, holds),
               \/ Over(TRUE) /\ w <= limit + 1
               \/ Advance(job.n + 1, job.total + w) /\ w <= limit
        PROVE  Limits'
    <3> DEFINE x == File(target, w, holds)
    <3>1. x.size = w BY DEF File, Node
    <3>2. NodesOK(disk') /\ Files(disk') \subseteq Files(disk) \cup {x} BY <1>1, <2>1, <2>4, PutNodes
    <3>3. \/ (\E error : Over(error)) /\ x.size <= limit + 1
          \/ Advance(job.n + 1, job.total + x.size) /\ x.size <= limit
      BY <2>4, <3>1
    <3>4. x.size \in Nat BY <3>1
    <3> HIDE DEF x
    <3> QED BY <2>2, <3>2, <3>3, <3>4, OneFile
  <2>5. CASE limit <= 0 /\ writeCapped(made, target, job.n + 1, limit)
    <3>1. disk' = Put(made, target, 0, "cut") /\ Over(TRUE) BY <2>5 DEF writeCapped
    <3>2. 0 <= limit + 1 BY <2>2, Numbered
    <3> QED BY <3>1, <3>2, <2>4
  <2>6. CASE ~(limit <= 0) /\ writeCapped(made, target, job.n + 1, limit)
    <3>1. PICK w \in 0..Min({Entry.size, limit + 1}) :
              /\ disk' = Put(made, target, w, IF w = Entry.size THEN Entry.holds ELSE "cut")
              /\ \/ w <= limit /\ w = Entry.size /\ Advance(job.n + 1, MaxExtractBytes - limit + w)
                 \/ Over(TRUE)
      BY <2>6 DEF writeCapped
    <3>2. Min({Entry.size, limit + 1}) = IF Entry.size <= limit + 1 THEN Entry.size ELSE limit + 1
      BY <1>2, <2>2, MinTwo
    <3>3. w \in Nat /\ w <= limit + 1 BY <1>2, <2>2, <3>1, <3>2
    <3>4. MaxExtractBytes - limit + w = job.total + w BY <2>2, <3>3, Numbered
    <3>5. CASE Over(TRUE) BY <3>1, <3>3, <3>5, <2>4
    <3>6. CASE w <= limit /\ Advance(job.n + 1, MaxExtractBytes - limit + w)
      <4>1. Advance(job.n + 1, job.total + w) BY <3>4, <3>6
      <4> QED BY <3>1, <3>3, <3>6, <4>1, <2>4
    <3> QED BY <3>1, <3>5, <3>6
  <2> HIDE DEF limit, made
  <2> QED BY <1>6, <2>3, <2>5, <2>6
<1> HIDE DEF limit, made, dir
<1> QED BY <1>5, <1>6 DEF ExtractFile, made, limit, dir, target

LEMMA EntryLimits ==
    ASSUME IInv, Limits, ExtractEntry
    PROVE  Limits'
<1>1. job.stage = "extracting" /\ job.i <= Len(Entries) BY DEF ExtractEntry
<1>2. job.holds \in DOMAIN Archives /\ job.i \in 1..Len(Entries)
  BY <1>1, EntriesType DEF IInv, Progress, JobShape
<1>3. /\ Entry.type \in {"dir", "file", "link"} /\ Entry.name \in Name
      /\ Target(job.i) = safeJoin(job.dest, Entry.name).path
  BY <1>2, EntriesType DEF Entry, Target
<1>4. NodesOK(disk) /\ NoLinks(disk) /\ job.dest \in Path /\ withinRoot(Root, job.dest)
  BY DEF Limits, JobOK, IInv
<1>5. CASE Over(TRUE) /\ UNCHANGED disk
  <2>1. NodesOK(disk') /\ Files(disk') = Files(disk) /\ \E error : Over(error) BY <1>4, <1>5
  <2> QED BY <2>1, <1>1, SameFiles
<1>6. ASSUME safeJoin(job.dest, Entry.name).ok, ExtractDir(Target(job.i)) PROVE Limits'
  <2> DEFINE target == Target(job.i)
  <2>1. target \in Path /\ withinRoot(Root, target)
    <3>1. target \in Path /\ withinRoot(job.dest, target) BY <1>3, <1>4, <1>6, Joined
    <3>2. Len(target) \in Nat BY <3>1 DEF Path
    <3> HIDE DEF target
    <3> QED BY <1>4, <3>1, <3>2, RootPath, WithinWithin
  <2> HIDE DEF target
  <2>2. NodesOK(disk') /\ Files(disk') = Files(disk)
    <3>1. CASE Blocked(disk, target)
      <4>1. disk' = disk BY <1>6, <3>1 DEF ExtractDir, target
      <4> QED BY <4>1, <1>4
    <3>2. CASE ~Blocked(disk, target)
      <4>1. disk' = MkdirAll(disk, target) BY <1>6, <3>2 DEF ExtractDir, target
      <4> QED BY <4>1, <1>4, <2>1, <3>2, MkdirNodes
    <3> QED BY <3>1, <3>2
  <2>3. Advance(job.n, job.total) BY <1>6 DEF ExtractDir
  <2> QED BY <1>1, <2>2, <2>3, SameFiles
<1>7. ASSUME safeJoin(job.dest, Entry.name).ok, ExtractFile(Target(job.i)) PROVE Limits'
  BY <1>1, <1>2, <1>7, FileLimits
<1>8. ASSUME safeJoin(job.dest, Entry.name).ok, ExtractLink(Target(job.i)) PROVE Limits'
  <2>1. CASE job.format = "zip" BY <1>7, <1>8, <2>1 DEF ExtractLink
  <2>2. CASE job.format # "zip"
    <3>1. Advance(job.n, job.total) /\ disk' = disk BY <1>8, <2>2 DEF ExtractLink
    <3>2. NodesOK(disk') /\ Files(disk') = Files(disk) BY <3>1, <1>4
    <3> QED BY <3>1, <3>2, <1>1, SameFiles
  <2> QED BY <2>1, <2>2
<1>9. CASE /\ safeJoin(job.dest, Entry.name).ok
           /\ CASE Entry.type = "dir" -> ExtractDir(Target(job.i))
                [] Entry.type = "link" -> ExtractLink(Target(job.i))
                [] Entry.type = "file" -> ExtractFile(Target(job.i))
  BY <1>9, <1>3, <1>6, <1>7, <1>8
<1> QED BY <1>5, <1>9 DEF ExtractEntry, Target, Entry

LEMMA ExtractedLimits ==
    ASSUME IInv, Limits, Extracted
    PROVE  Limits'
<1>1. job.stage = "extracting" /\ Over(FALSE) /\ disk' = disk BY DEF Extracted
<1>2. NodesOK(disk') /\ Files(disk') = Files(disk) /\ \E error : Over(error) BY <1>1 DEF Limits
<1> QED BY <1>1, <1>2, SameFiles

\* A tool that answers at once and leaves the extraction alone.
LEMMA AtOnce ==
    ASSUME Limits, job.stage = "idle", UNCHANGED job, calls < MaxCalls, calls' = calls + 1,
           reply'.tool # "extract_archive", NodesOK(disk')
    PROVE  Limits'
<1>1. JobOK' BY Numbered DEF Limits, JobOK
<1> QED BY <1>1 DEF Limits, Counted, ExtractionIsBounded

LEMMA ArchiveLimits ==
    ASSUME IInv, Limits, NEW c \in Calls, ExtractArchive(c)
    PROVE  Limits'
<1> DEFINE dest == resolve(c.dest).path
           made == MkdirAll(disk, dest)
<1>1. /\ NodesOK(disk) /\ NoLinks(disk) /\ calls \in 0..MaxCalls /\ calls < MaxCalls
      /\ c.tool = "extract_archive"
  BY DEF Limits, JobOK, IInv, ExtractArchive, Free
<1>2. ASSUME NodesOK(disk'), NEW before, Files(disk') \subseteq before, NEW holds, NEW format, NEW stage, NEW place,
             place \in Path, withinRoot(Root, place),
             job' = [stage |-> stage, holds |-> holds, format |-> format, dest |-> place, i |-> 1, n |-> 0, total |-> 0,
                     before |-> before],
             \/ stage = "idle" /\ calls' = calls + 1
             \/ stage = "extracting" /\ calls' = calls
      PROVE  Limits'
  <2>1. Added' = {} BY <1>2 DEF Added
  <2>2. Cardinality(Added') = 0 /\ Bytes(Added)' = 0 BY <2>1, NoBytes, BytesPrime, FS_EmptySet
  <2>3. JobOK' BY <1>1, <1>2, Numbered DEF JobOK
  <2>4. Counted'
    <3>1. job'.n = 0 /\ job'.total = 0 BY <1>2
    <3> QED BY <2>2, <3>1 DEF Counted
  <2>5. ExtractionIsBounded' BY <2>2, Numbered DEF ExtractionIsBounded
  <2> QED BY <1>2, <2>3, <2>4, <2>5 DEF Limits
<1>3. \A d : Files(d) \subseteq d BY DEF Files
<1>4. CASE ~resolve(c.path).ok \/ ~resolve(c.dest).ok \/ Blocked(disk, dest)
  <2>1. job' = [Idle EXCEPT !.before = disk] /\ disk' = disk /\ calls' = calls + 1
    BY <1>4 DEF ExtractArchive, Answer
  <2>2. job' = [stage |-> "idle", holds |-> "none", format |-> "none", dest |-> Root, i |-> 1, n |-> 0, total |-> 0,
                before |-> disk]
    BY <2>1 DEF Idle
  <2>3. NodesOK(disk') /\ Files(disk') \subseteq disk BY <1>1, <1>3, <2>1
  <2> QED BY <1>2, <2>1, <2>2, <2>3, RootPath
<1>5. CASE resolve(c.path).ok /\ resolve(c.dest).ok /\ ~Blocked(disk, dest)
  <2>1. c.dest \in Name BY <1>1, CallsAssumption
  <2>2. dest \in Path /\ withinRoot(Root, dest) BY <1>5, <2>1, Resolved
  <2>3. disk' = made BY <1>5 DEF ExtractArchive
  <2> HIDE DEF dest
  <2>4. NodesOK(disk') /\ Files(disk') \subseteq made BY <1>1, <1>3, <1>5, <2>2, <2>3, MkdirNodes
  <2>5. \/ job' = [Idle EXCEPT !.before = made] /\ calls' = calls + 1
        \/ /\ \E holds : job' = [Idle EXCEPT !.stage = "extracting", !.holds = holds,
                                             !.format = FormatOf[Last(resolve(c.path).path)],
                                             !.dest = dest, !.before = made]
           /\ calls' = calls
    BY <1>5 DEF ExtractArchive, Answer, dest
  <2> HIDE DEF made
  <2>6. CASE job' = [Idle EXCEPT !.before = made] /\ calls' = calls + 1
    <3>1. job' = [stage |-> "idle", holds |-> "none", format |-> "none", dest |-> Root, i |-> 1, n |-> 0, total |-> 0,
                  before |-> made]
      BY <2>6 DEF Idle
    <3> QED BY <1>2, <2>4, <2>6, <3>1, RootPath
  <2>7. ASSUME NEW holds, calls' = calls,
               job' = [Idle EXCEPT !.stage = "extracting", !.holds = holds,
                                   !.format = FormatOf[Last(resolve(c.path).path)],
                                   !.dest = dest, !.before = made]
        PROVE  Limits'
    <3>1. job' = [stage |-> "extracting", holds |-> holds, format |-> FormatOf[Last(resolve(c.path).path)],
                  dest |-> dest, i |-> 1, n |-> 0, total |-> 0, before |-> made]
      BY <2>7 DEF Idle
    <3> QED BY <1>2, <2>2, <2>4, <2>7, <3>1
  <2> QED BY <2>5, <2>6, <2>7
<1> QED BY <1>4, <1>5

LEMMA ArtifactLimits ==
    ASSUME IInv, Limits, NEW c \in Calls, WriteArtifact(c)
    PROVE  Limits'
<1> DEFINE made == MkdirAll(disk, SastDir)
           path == Append(SastDir, c.name)
<1>1. /\ NodesOK(disk) /\ NoLinks(disk) /\ calls < MaxCalls /\ job.stage = "idle" /\ UNCHANGED job
      /\ c.tool = "write_artifact"
  BY DEF Limits, IInv, WriteArtifact, Free
<1>2. calls' = calls + 1 /\ reply'.tool = "write_artifact" BY <1>1 DEF WriteArtifact, Answer, Reply
<1>3. \/ disk' = disk
      \/ /\ ~Blocked(disk, SastDir)
         /\ \/ disk' = made
            \/ c.name \in allowedArtifacts /\ \E content : disk' = Put(made, path, 1, content)
  BY DEF WriteArtifact
<1>4. ASSUME ~Blocked(disk, SastDir) PROVE NodesOK(made) /\ NoLinks(made)
  BY <1>1, <1>4, RootPath, MkdirNodes, MkdirLinks
<1>5. ASSUME c.name \in allowedArtifacts PROVE path \in Path /\ withinRoot(Root, path)
  <2>1. SastDir \in Seq(Names) /\ c.name \in Names BY <1>5, RootPath DEF Path, Names
  <2> HIDE DEF Names
  <2>2. path \in Seq(Names) /\ Len(path) = Len(SastDir) + 1 /\ \A i \in 1..Len(SastDir) : path[i] = SastDir[i]
    BY <2>1, AppendProperties
  <2>3. Len(SastDir) \in Nat /\ DOMAIN SastDir = 1..Len(SastDir) BY <2>1
  <2>4. withinRoot(SastDir, path) BY <2>2, <2>3 DEF withinRoot
  <2>5. Len(path) \in Nat BY <2>2, <2>3
  <2> HIDE DEF path
  <2> QED BY <2>2, <2>4, <2>5, RootPath, WithinWithin DEF Path
<1>6. NodesOK(disk')
  <2>1. ASSUME ~Blocked(disk, SastDir), c.name \in allowedArtifacts, NEW content, disk' = Put(made, path, 1, content)
        PROVE  NodesOK(disk')
    <3>1. NodesOK(made) /\ NoLinks(made) /\ path \in Path /\ withinRoot(Root, path) BY <1>4, <1>5, <2>1
    <3> HIDE DEF made, path
    <3> QED BY <2>1, <3>1, PutNodes
  <2> QED BY <1>1, <1>3, <1>4, <2>1
<1> QED BY <1>1, <1>2, <1>6, AtOnce

LEMMA ReadLimits ==
    ASSUME IInv, Limits, NEW c \in Calls,
           ListFiles(c) \/ ReadFile(c) \/ SearchCode(c) \/ Knowledge(c) \/ ValidateOpenAPI(c)
    PROVE  Limits'
<1>1. job.stage = "idle" /\ UNCHANGED job /\ disk' = disk /\ calls < MaxCalls
  <2>1. CASE ListFiles(c) BY <2>1 DEF ListFiles, Free
  <2>2. CASE ReadFile(c) BY <2>2 DEF ReadFile, Free
  <2>3. CASE SearchCode(c) BY <2>3 DEF SearchCode, Free
  <2>4. CASE Knowledge(c) BY <2>4 DEF Knowledge, Free
  <2>5. CASE ValidateOpenAPI(c) BY <2>5 DEF ValidateOpenAPI, Free
  <2> QED BY <2>1, <2>2, <2>3, <2>4, <2>5
<1>2. reply'.tool # "extract_archive" /\ calls' = calls + 1 BY Answered
<1>3. NodesOK(disk') BY <1>1 DEF Limits
<1> QED BY <1>1, <1>2, <1>3, AtOnce

LEMMA InitLimits == Init => Limits
<1> SUFFICES ASSUME Init PROVE Limits OBVIOUS
<1>1. PICK u \in Uploads :
        disk = (UNION {MkdirAll({}, Front(f.path)) : f \in u}) \cup u \cup {Node(Root, "dir", 0, "none", <<>>)}
  BY DEF Init
<1> DEFINE made == [f \in u |-> MkdirAll({}, Front(f.path))]
           dirs == UNION {made[f] : f \in u}
           root == Node(Root, "dir", 0, "none", <<>>)
<1>2. disk = dirs \cup u \cup {root} BY <1>1
<1>3. /\ IsFiniteSet(u)
      /\ \A f \in u : /\ f.path \in Path /\ f.size \in Nat /\ f.kind = "file"
                      /\ withinRoot(Root, f.path) /\ Len(f.path) > Len(Root)
      /\ \A f, g \in u : withinRoot(f.path, g.path) => f = g
  <2>1. \A f \in u : f \in [path : Seq(STRING), kind : {"file"}, size : Nat, holds : STRING, to : {<<>>}]
    BY UploadsAssumption
  <2>2. \A f \in u : f.path \in Seq(STRING) /\ f.size \in Nat /\ f.kind = "file" BY <2>1
  <2>3. \A f \in u : f.path \in Path BY <2>2, SeqMonotonic DEF Path, Names
  <2> QED BY <2>2, <2>3, UploadsAssumption
<1>4. ASSUME NEW f \in u
      PROVE  /\ NodesOK(made[f])
             /\ \A x \in made[f] : x.kind = "dir" /\ withinRoot(x.path, f.path) /\ Len(x.path) < Len(f.path)
  <2> DEFINE p == Front(f.path)
  <2>1. p \in Path /\ (Len(p) > Len(Root) => withinRoot(Root, p)) BY <1>3, FrontWithin
  <2>2. NodesOK({}) /\ NoLinks({}) /\ ~Blocked({}, p) BY FS_EmptySet DEF NodesOK, NoLinks, Blocked
  <2>3. /\ NodesOK(MkdirAll({}, p))
        /\ \A x \in MkdirAll({}, p) \ {} : withinRoot(x.path, p)
    <3> HIDE DEF p
    <3> QED BY <2>1, <2>2, MkdirNodes
  <2>4. \A x \in MkdirAll({}, p) : x.kind = "dir" /\ withinRoot(x.path, p) /\ x.path \in Path
    BY <2>3, Mkdir DEF NodesOK, NodeOK
  <2> QED BY <1>3, <2>3, <2>4, FrontWithin
<1>5. IsFiniteSet(dirs)
  <2>1. DOMAIN made = u OBVIOUS
  <2>2. \A T \in {made[f] : f \in u} : IsFiniteSet(T) BY <1>4 DEF NodesOK
  <2> HIDE DEF made
  <2>3. IsFiniteSet({made[f] : f \in u}) BY <1>3, <2>1, ImageFinite
  <2> QED BY <2>2, <2>3, FS_UNION
<1> HIDE DEF made
<1>6. \A x \in dirs : /\ NodeOK(x) /\ x.kind = "dir" /\ x = Node(x.path, "dir", 0, "none", <<>>)
                      /\ \E f \in u : withinRoot(x.path, f.path) /\ Len(x.path) < Len(f.path)
  BY <1>4 DEF NodesOK, NodeOK
<1> HIDE DEF dirs
<1>7. NodeOK(root) /\ root.path = Root /\ root.kind = "dir" BY RootPath DEF NodeOK, Node
<1> HIDE DEF root
<1>8. \A f \in disk : NodeOK(f) BY <1>2, <1>3, <1>6, <1>7 DEF NodeOK
<1>9. IsFiniteSet(disk)
  <2>1. IsFiniteSet(dirs \cup u) BY <1>3, <1>5, FS_Union
  <2> QED BY <1>2, <2>1, FS_AddElement
<1>10. ASSUME NEW f \in u, NEW x \in disk, x.path = f.path PROVE x = f
  <2>1. Len(f.path) \in Nat /\ Len(Root) \in Nat BY <1>3, RootPath DEF Path
  <2>2. CASE x \in u
    <3>1. DOMAIN f.path = 1..Len(f.path) BY <1>3 DEF Path
    <3>2. withinRoot(x.path, f.path) BY <1>10, <2>1 DEF withinRoot
    <3> QED BY <1>3, <2>2, <3>2
  <2>3. x \notin dirs
    <3>1. SUFFICES ASSUME x \in dirs PROVE FALSE OBVIOUS
    <3>2. PICK g \in u : withinRoot(x.path, g.path) /\ Len(x.path) < Len(g.path) BY <1>6, <3>1
    <3>3. f = g BY <1>3, <1>10, <3>2
    <3> QED BY <1>10, <2>1, <3>2, <3>3
  <2>4. x # root BY <1>3, <1>7, <1>10, <2>1
  <2> QED BY <1>2, <2>2, <2>3, <2>4
<1>11. \A f, g \in disk : f.path = g.path => f = g
  <2> SUFFICES ASSUME NEW f \in disk, NEW g \in disk, f.path = g.path PROVE f = g OBVIOUS
  <2>1. CASE f \in u \/ g \in u BY <1>10, <2>1
  <2>2. CASE f \notin u /\ g \notin u
    <3>1. \A x \in disk : x \notin u => x = Node(x.path, "dir", 0, "none", <<>>) BY <1>2, <1>6, <1>7 DEF root
    <3> QED BY <2>2, <3>1
  <2> QED BY <2>1, <2>2
<1>12. NodesOK(disk) BY <1>8, <1>9, <1>11 DEF NodesOK
<1>13. JobOK /\ Counted /\ ExtractionIsBounded
  BY RootPath, Numbered DEF Init, Idle, Reply, JobOK, Counted, ExtractionIsBounded
<1> QED BY <1>12, <1>13 DEF Limits

-----------------------------------------------------------------------------
(* What an answer leaves out *)

\* What CutIsTold says of a step.
StepTells ==
    calls' # calls /\ reply'.tool \in {"list_files", "read_file", "search_code"} /\ ~reply'.told =>
        \A place \in reply'.left : reply'.tool = "search_code" /\ Silent(place)

\* All of a set is shown when it is no larger than the limit.
LEMMA AllShown ==
    ASSUME NEW items, IsFiniteSet(items), NEW max \in Int, Cardinality(items) <= max, NEW shown \in FirstOf(items, max)
    PROVE  shown = items
<1>1. Cardinality(items) \in Nat BY FS_CardinalityType
<1>2. Min({max, Cardinality(items)}) = Cardinality(items)
  <2>1. Min({max, Cardinality(items)}) = IF max <= Cardinality(items) THEN max ELSE Cardinality(items)
    BY <1>1, MinTwo
  <2> QED BY <1>1, <2>1
<1>3. shown \in SUBSET items /\ Cardinality(shown) = Cardinality(items) BY <1>2 DEF FirstOf
<1> QED BY <1>3, FS_Subset

LEMMA LimitType ==
    ASSUME NEW max \in Int, NEW default \in Nat, NEW cap \in Nat
    PROVE  Limit(max, default, cap) \in Int
BY DEF Limit

LEMMA Caps == ListCap \in Nat /\ SearchCap \in Nat
BY DEF ListCap, SearchCap

LEMMA Globbed ==
    ASSUME NodesOK(disk), NEW glob
    PROVE  InGlob(glob) \subseteq Files(disk) /\ IsFiniteSet(InGlob(glob))
<1>1. InGlob(glob) \subseteq Files(disk) BY DEF InGlob, Walked
<1>2. Files(disk) \subseteq disk BY DEF Files
<1> QED BY <1>1, <1>2, FS_Subset DEF NodesOK

LEMMA ListTells ==
    ASSUME Limits, NEW c \in Calls, ListFiles(c)
    PROVE  StepTells
<1> DEFINE S == InGlob(c.glob)
           place == [f \in S |-> <<f.path, 0>>]
           asked == {<<f.path, 0>> : f \in S}
           max == Limit(c.max, ListDefault, ListCap)
<1>1. IsFiniteSet(asked)
  <2>1. IsFiniteSet(S) BY Globbed DEF Limits
  <2>2. asked = {place[f] : f \in S} /\ DOMAIN place = S OBVIOUS
  <2> HIDE DEF S, place, asked
  <2> QED BY <2>1, <2>2, ImageFinite
<1>2. c.max \in Int BY CallsAssumption DEF ListFiles
<1>3. max \in Int BY <1>2, LimitType, Numbered, Caps
<1>4. PICK shown \in FirstOf(asked, max) :
        Answer([tool |-> c.tool, error |-> FALSE, told |-> Cardinality(asked) > max, left |-> asked \ shown])
  BY DEF ListFiles
<1> HIDE DEF S, asked, max
<1>5. Cardinality(asked) \in Nat BY <1>1, FS_CardinalityType
<1>6. reply'.told = (Cardinality(asked) > max) /\ reply'.left = asked \ shown BY <1>4 DEF Answer
<1>7. ASSUME ~reply'.told PROVE reply'.left = {}
  <2>1. ~(Cardinality(asked) > max) BY <1>6, <1>7, Zenon
  <2>2. Cardinality(asked) <= max BY <1>3, <1>5, <2>1
  <2>3. shown = asked BY <1>1, <1>3, <2>2, AllShown
  <2> QED BY <1>6, <2>3
<1> QED BY <1>7 DEF StepTells

LEMMA ReadTells ==
    ASSUME Limits, NEW c \in Calls, ReadFile(c)
    PROVE  StepTells
<1> DEFINE max == IF c.max <= 0 THEN ReadDefault ELSE Min({c.max, ReadHardCap})
           start == Max({c.offset, 0})
           n(f) == Max({0, Min({max, f.size - start})})
           left(f) == {<<f.path, b>> : b \in (start + n(f))..(f.size - 1)}
<1>1. c.max \in Int /\ c.offset \in Int BY CallsAssumption DEF ReadFile
<1>2. start = IF c.offset >= 0 THEN c.offset ELSE 0 BY <1>1, MaxTwo
<1>3. start \in Nat /\ c.offset <= start BY <1>1, <1>2
<1>4. max \in Int
  <2>1. Min({c.max, ReadHardCap}) = IF c.max <= ReadHardCap THEN c.max ELSE ReadHardCap BY <1>1, Numbered, MinTwo
  <2> QED BY <1>1, <2>1, Numbered
<1> HIDE DEF max, start
<1>5. ASSUME NEW f \in disk, ~(c.offset + n(f) < f.size) PROVE left(f) = {}
  <2>1. f.size \in Nat BY DEF Limits, NodesOK, NodeOK
  <2>2. Min({max, f.size - start}) \in Int
    <3>1. Min({max, f.size - start}) = IF max <= f.size - start THEN max ELSE f.size - start BY <1>3, <1>4, <2>1, MinTwo
    <3> QED BY <1>3, <1>4, <2>1, <3>1
  <2>3. n(f) \in Int
    <3> DEFINE m == Min({max, f.size - start})
    <3>1. m \in Int BY <2>2
    <3> HIDE DEF m
    <3>2. Max({0, m}) = IF 0 >= m THEN 0 ELSE m BY <3>1, MaxTwo
    <3>3. Max({0, m}) \in Int BY <3>1, <3>2
    <3> QED BY <3>3 DEF m
  <2> HIDE DEF n
  <2>4. start + n(f) >= f.size BY <1>1, <1>3, <1>5, <2>1, <2>3
  <2>5. (start + n(f))..(f.size - 1) = {} BY <1>3, <2>1, <2>3, <2>4
  <2> QED BY <2>5
<1>6. \/ Answer(Reply(c.tool, TRUE))
      \/ \E f \in disk : Answer([tool |-> c.tool, error |-> FALSE, told |-> c.offset + n(f) < f.size, left |-> left(f)])
  BY DEF ReadFile, Files, max, start
<1>7. CASE Answer(Reply(c.tool, TRUE))
  <2>1. reply'.left = {} BY <1>7 DEF Answer, Reply
  <2> QED BY <2>1 DEF StepTells
<1>8. ASSUME NEW f \in disk,
             Answer([tool |-> c.tool, error |-> FALSE, told |-> c.offset + n(f) < f.size, left |-> left(f)])
      PROVE  StepTells
  <2> HIDE DEF n, left
  <2>1. reply'.told = (c.offset + n(f) < f.size) /\ reply'.left = left(f) BY <1>8 DEF Answer
  <2>2. ~reply'.told => reply'.left = {} BY <1>5, <2>1
  <2> QED BY <2>2 DEF StepTells
<1> QED BY <1>6, <1>7, <1>8

LEMMA SearchTells ==
    ASSUME Limits, NEW c \in Calls, SearchCode(c)
    PROVE  StepTells
<1> DEFINE inGlob == InGlob(c.glob)
           read == {f \in inGlob : ~PassedOver(f) /\ Text(f) # {}}
           found == UNION {Hits(f, Text(f) \cap Scanned(f.holds)) : f \in read}
           max == Limit(c.max, SearchDefault, SearchCap)
<1>1. IsFiniteSet(inGlob) /\ inGlob \subseteq Files(disk) BY Globbed DEF Limits
<1> HIDE DEF inGlob
<1>2. \A f : IsFiniteSet(Hits(f, Text(f) \cap Scanned(f.holds)))
  <2> SUFFICES ASSUME NEW f PROVE IsFiniteSet(Hits(f, Text(f) \cap Scanned(f.holds))) OBVIOUS
  <2> DEFINE lines == {k \in Text(f) \cap Scanned(f.holds) : Lines[f.holds][k] = "hit"}
             place == [l \in lines |-> <<f.path, l>>]
  <2>1. IsFiniteSet(Text(f))
    <3>1. CASE f.holds \in DOMAIN Lines
      <4>1. Lines[f.holds] \in Seq(STRING) BY <3>1, LinesAssumption
      <4>2. Len(Lines[f.holds]) \in Nat /\ DOMAIN Lines[f.holds] = 1..Len(Lines[f.holds]) BY <4>1
      <4> QED BY <3>1, <4>2, FS_Interval DEF Text
    <3>2. CASE f.holds \notin DOMAIN Lines BY <3>2, FS_EmptySet DEF Text
    <3> QED BY <3>1, <3>2
  <2>2. IsFiniteSet(lines)
    <3>1. lines \subseteq Text(f) OBVIOUS
    <3> HIDE DEF lines
    <3> QED BY <2>1, <3>1, FS_Subset
  <2>3. Hits(f, Text(f) \cap Scanned(f.holds)) = {place[l] : l \in lines} /\ DOMAIN place = lines BY DEF Hits
  <2> HIDE DEF lines, place
  <2> QED BY <2>2, <2>3, ImageFinite
<1>3. IsFiniteSet(found)
  <2> DEFINE hits == [f \in read |-> Hits(f, Text(f) \cap Scanned(f.holds))]
             parts == {hits[f] : f \in read}
  <2>1. IsFiniteSet(read) BY <1>1, FS_Subset
  <2>2. DOMAIN hits = read /\ found = UNION parts /\ \A T \in parts : IsFiniteSet(T) BY <1>2
  <2>3. IsFiniteSet(parts)
    <3>1. DOMAIN hits = read OBVIOUS
    <3> HIDE DEF hits, read
    <3> QED BY <2>1, <3>1, ImageFinite
  <2> HIDE DEF parts, found
  <2> QED BY <2>2, <2>3, FS_UNION
<1>4. c.max \in Int BY CallsAssumption DEF SearchCode
<1>5. max \in Int BY <1>4, LimitType, Numbered, Caps
<1>6. PICK shown \in FirstOf(found, max) :
        Answer([tool |-> c.tool, error |-> FALSE, told |-> Cardinality(found) >= max,
                left |-> (UNION {Hits(f, Text(f)) : f \in inGlob}) \ shown])
  BY DEF SearchCode, inGlob
<1> HIDE DEF max
<1>7. Cardinality(found) \in Nat BY <1>3, FS_CardinalityType
<1>8. /\ reply'.tool = "search_code" /\ reply'.told = (Cardinality(found) >= max)
      /\ reply'.left = (UNION {Hits(f, Text(f)) : f \in inGlob}) \ shown
  BY <1>6 DEF Answer, SearchCode
<1>9. ASSUME ~reply'.told, NEW place \in reply'.left PROVE Silent(place)
  <2>1. shown = found
    <3> HIDE DEF found
    <3>1. ~(Cardinality(found) >= max) BY <1>8, <1>9, Zenon
    <3>2. Cardinality(found) <= max BY <1>5, <1>7, <3>1
    <3> QED BY <1>3, <1>5, <1>6, <3>2, AllShown
  <2>2. PICK f \in inGlob : place \in Hits(f, Text(f)) BY <1>8, <1>9
  <2>3. PICK l \in Text(f) : place = <<f.path, l>> /\ Lines[f.holds][l] = "hit" BY <2>2 DEF Hits
  <2>4. place \notin found BY <1>8, <1>9, <2>1
  <2>5. PassedOver(f) \/ l \notin Scanned(f.holds)
    <3>1. SUFFICES ASSUME ~PassedOver(f), l \in Scanned(f.holds) PROVE FALSE OBVIOUS
    <3>2. f \in read BY <2>3, <3>1
    <3>3. place \in Hits(f, Text(f) \cap Scanned(f.holds)) BY <2>3, <3>1 DEF Hits
    <3> HIDE DEF read
    <3> QED BY <2>4, <3>2, <3>3
  <2>6. place[1] = f.path /\ place[2] = l BY <2>3
  <2> QED BY <1>1, <2>5, <2>6 DEF Silent
<1> QED BY <1>8, <1>9 DEF StepTells

LEMMA StepTold == IInv /\ Limits /\ Next => StepTells
<1> SUFFICES ASSUME IInv, Limits, Next PROVE StepTells OBVIOUS
<1>1. ASSUME calls' = calls \/ reply'.tool \notin {"list_files", "read_file", "search_code"} PROVE StepTells
  BY <1>1 DEF StepTells
<1>2. \A error : Over(error) => reply'.tool = "extract_archive" BY DEF Over, Answer, Reply
<1>3. \A n, total : Advance(n, total) => calls' = calls BY DEF Advance
<1>4. CASE ExtractEntry
  <2> DEFINE target == safeJoin(job.dest, Entry.name).path
             Quiet == calls' = calls \/ reply'.tool = "extract_archive"
  <2>1. Entry.type \in {"dir", "file", "link"}
    BY <1>4, EntriesType DEF ExtractEntry, IInv, Progress, JobShape, Entry
  <2>2. ASSUME ExtractFile(target) PROVE Quiet
    <3>1. (\E error : Over(error)) \/ \E n, total : Advance(n, total) BY <2>2 DEF ExtractFile, writeCapped
    <3> QED BY <3>1, <1>2, <1>3
  <2>3. ASSUME ExtractDir(target) PROVE Quiet BY <2>3, <1>3 DEF ExtractDir
  <2>4. ASSUME ExtractLink(target) PROVE Quiet BY <2>2, <2>4, <1>3 DEF ExtractLink
  <2> HIDE DEF target, Quiet
  <2>5. Quiet BY <1>2, <1>4, <2>1, <2>2, <2>3, <2>4 DEF ExtractEntry, target, Quiet
  <2> QED BY <1>1, <2>5 DEF Quiet
<1>5. CASE Extracted BY <1>1, <1>2, <1>5 DEF Extracted
<1>6. ASSUME NEW c \in Calls, dispatch(c) PROVE StepTells
  <2>1. CASE ExtractArchive(c)
    <3>1. calls' = calls \/ reply'.tool = "extract_archive" BY <2>1 DEF ExtractArchive, Answer, Reply
    <3> QED BY <3>1, <1>1
  <2>2. CASE WriteArtifact(c)
    <3>1. reply'.tool = "write_artifact" BY <2>2 DEF WriteArtifact, Answer, Reply
    <3> QED BY <3>1, <1>1
  <2>3. CASE Knowledge(c)
    <3>1. reply'.tool = "get_knowledge" BY <2>3 DEF Knowledge, Answer, Reply
    <3> QED BY <3>1, <1>1
  <2>4. CASE ValidateOpenAPI(c)
    <3>1. reply'.tool = "validate_openapi" BY <2>4 DEF ValidateOpenAPI, Answer, Reply
    <3> QED BY <3>1, <1>1
  <2> QED BY <1>6, <2>1, <2>2, <2>3, <2>4, ListTells, ReadTells, SearchTells DEF dispatch
<1> QED BY <1>4, <1>5, <1>6 DEF Next

-----------------------------------------------------------------------------
(* The theorems *)

LEMMA InitInv == Init => IInv
<1> SUFFICES ASSUME Init PROVE IInv OBVIOUS
<1>1. PICK u \in Uploads :
        disk = (UNION {MkdirAll({}, Front(f.path)) : f \in u}) \cup u \cup {Node(Root, "dir", 0, "none", <<>>)}
  BY DEF Init
<1>2. \A p : \A f \in MkdirAll({}, p) : f.kind = "dir" BY Mkdir
<1>3. ASSUME NEW f \in disk PROVE f.kind # "link"
  <2>1. CASE f \in u BY <2>1, UploadsAssumption
  <2>2. CASE \E g \in u : f \in MkdirAll({}, Front(g.path)) BY <2>2, <1>2
  <2>3. CASE f = Node(Root, "dir", 0, "none", <<>>) BY <2>3 DEF Node
  <2>4. \/ f \in u \/ \E g \in u : f \in MkdirAll({}, Front(g.path))
        \/ f = Node(Root, "dir", 0, "none", <<>>)
    BY <1>1, <1>3
  <2> QED BY <2>1, <2>2, <2>3, <2>4
<1>4. JobShape /\ job.stage = "idle" BY DEF Init, Idle, JobShape
<1>5. reply.tool # "extract_archive" BY DEF Init, Reply
<1> QED BY <1>3, <1>4, <1>5, NotOver DEF IInv, Progress, NoLinks

LEMMA StepInv ==
    ASSUME IInv, Next
    PROVE  /\ IInv'
           /\ Below(IF job.stage = "extracting" THEN job.dest ELSE SastDir, disk, disk')
<1>1. \A place : Below(place, disk, disk) BY DEF Below
<1>2. CASE ExtractEntry BY <1>2, EntryStep DEF ExtractEntry
<1>3. CASE Extracted BY <1>3, <1>1, ExtractedStep
<1>4. ASSUME NEW c \in Calls, dispatch(c)
      PROVE  /\ IInv'
             /\ Below(IF job.stage = "extracting" THEN job.dest ELSE SastDir, disk, disk')
  <2>1. job.stage # "extracting"
    <3>1. CASE ExtractArchive(c) BY <3>1 DEF ExtractArchive, Free
    <3>2. CASE WriteArtifact(c) BY <3>2 DEF WriteArtifact, Free
    <3>3. CASE ListFiles(c) BY <3>3 DEF ListFiles, Free
    <3>4. CASE ReadFile(c) BY <3>4 DEF ReadFile, Free
    <3>5. CASE SearchCode(c) BY <3>5 DEF SearchCode, Free
    <3>6. CASE Knowledge(c) BY <3>6 DEF Knowledge, Free
    <3>7. CASE ValidateOpenAPI(c) BY <3>7 DEF ValidateOpenAPI, Free
    <3> QED BY <1>4, <3>1, <3>2, <3>3, <3>4, <3>5, <3>6, <3>7 DEF dispatch
  <2>2. CASE ExtractArchive(c) BY <2>1, <2>2, ArchiveStep
  <2>3. CASE WriteArtifact(c) BY <2>1, <2>3, ArtifactStep
  <2>4. CASE ListFiles(c) \/ ReadFile(c) \/ SearchCode(c) \/ Knowledge(c) \/ ValidateOpenAPI(c)
    BY <2>4, <1>1, ReadStep
  <2> QED BY <1>4, <2>2, <2>3, <2>4 DEF dispatch
<1> QED BY <1>2, <1>3, <1>4 DEF Next

LEMMA StutterInv ==
    ASSUME IInv, UNCHANGED vars
    PROVE  IInv'
<1>1. disk' = disk /\ job' = job /\ reply' = reply BY DEF vars
<1>2. Entries' = Entries /\ Taken' = Taken /\ \A k : Target(k)' = Target(k) BY <1>1, SameArchive
<1>3. JobShape' BY <1>1 DEF JobShape, IInv
<1>4. Progress' BY <1>1, <1>2 DEF Progress, Before, Whole, IInv
<1>5. SuccessIsComplete' BY <1>1, <1>2 DEF SuccessIsComplete, IInv
<1> QED BY <1>1, <1>3, <1>4, <1>5 DEF IInv

LEMMA Inductive == Spec => []IInv
<1>1. IInv /\ [Next]_vars => IInv' BY StepInv, StutterInv
<1> QED BY <1>1, InitInv, PTL DEF Spec

\* "extracted n file(s)" means that every file of the archive is whole and in
\* its place, for every archive, whatever names its entries have.
THEOREM ExtractionCorrect == Spec => []SuccessIsComplete
<1>1. IInv => SuccessIsComplete BY DEF IInv
<1> QED BY <1>1, Inductive, PTL

\* No sequence of calls and no archive makes a tool change a file outside the
\* destination of the extraction and outside sast/.
THEOREM WritesCorrect == Spec => WritesStayInside
<1>1. IInv /\ [Next]_vars =>
        [\A f \in (disk \ disk') \cup (disk' \ disk) : f.kind # "dir" =>
            withinRoot(IF job.stage = "extracting" THEN job.dest ELSE SastDir, f.path)]_disk
  <2> SUFFICES ASSUME IInv, [Next]_vars, disk' # disk
               PROVE  \A f \in (disk \ disk') \cup (disk' \ disk) : f.kind # "dir" =>
                        withinRoot(IF job.stage = "extracting" THEN job.dest ELSE SastDir, f.path)
    OBVIOUS
  <2>1. Next BY DEF vars
  <2> QED BY <2>1, StepInv DEF Below
<1> QED BY <1>1, Inductive, PTL DEF Spec, WritesStayInside

LEMMA StepLimits == IInv /\ Limits /\ [Next]_vars => Limits'
<1> SUFFICES ASSUME IInv, Limits, [Next]_vars PROVE Limits' OBVIOUS
<1>1. CASE ExtractEntry BY <1>1, EntryLimits
<1>2. CASE Extracted BY <1>2, ExtractedLimits
<1>3. ASSUME NEW c \in Calls, dispatch(c) PROVE Limits'
  BY <1>3, ArchiveLimits, ArtifactLimits, ReadLimits DEF dispatch
<1>4. CASE UNCHANGED vars
  <2>1. disk' = disk /\ job' = job /\ reply' = reply /\ calls' = calls BY <1>4 DEF vars
  <2>2. Added' = Added BY <2>1 DEF Added, Files
  <2>3. Bytes(Added)' = Bytes(Added) BY <2>2, BytesPrime
  <2> QED BY <2>1, <2>2, <2>3 DEF Limits, NodesOK, NodeOK, JobOK, Counted, ExtractionIsBounded
<1> QED BY <1>1, <1>2, <1>3, <1>4 DEF Next

LEMMA LimitsInductive == Spec => [](IInv /\ Limits)
<1>1. IInv /\ [Next]_vars => IInv' BY StepInv, StutterInv
<1> QED BY <1>1, InitInv, InitLimits, StepLimits, PTL DEF Spec

\* Whatever the archives hold and whatever is called, a path has one node, below
\* the root, and no counter leaves its range.
THEOREM TypeCorrect == Spec => []TypeOK
<1>1. Limits => TypeOK BY DEF Limits, JobOK, NodesOK, NodeOK, Node, TypeOK
<1> QED BY <1>1, LimitsInductive, PTL

\* No archive makes one extraction put more than MaxExtractFiles files on the
\* disk, or more than one byte beyond MaxExtractBytes, also when it is cut off.
THEOREM BoundCorrect == Spec => []ExtractionIsBounded
<1>1. Limits => ExtractionIsBounded BY DEF Limits
<1> QED BY <1>1, LimitsInductive, PTL

\* Whatever is uploaded, asked for and already written: an answer that leaves out
\* something of what was asked says so, but for what the search cannot read.
THEOREM CutCorrect == Spec => CutIsTold
<1>1. IInv /\ Limits /\ [Next]_vars =>
        [calls' # calls /\ reply'.tool \in {"list_files", "read_file", "search_code"} /\ ~reply'.told =>
            \A place \in reply'.left : reply'.tool = "search_code" /\ Silent(place)]_vars
  BY StepTold DEF StepTells
<1> QED BY <1>1, LimitsInductive, PTL DEF Spec, CutIsTold
=============================================================================
