------------------------- MODULE CrashFileSystemProofs -------------------------
(***************************************************************************)
(* What a crash leaves is sound, and a method happened or did not, for     *)
(* every value of the constants and any number of crashes.  The invariant  *)
(* is CrashInv; the lemmas about blocks speak of a set of blocks that form *)
(* trees, not of all that were handed out, as FileSystemTreeProofs does.   *)
(***************************************************************************)
EXTENDS CrashFileSystem, FileSystemPathProofs

-----------------------------------------------------------------------------
(* Trees are sound *)

\* One step of the recursion of Linked
Further(d, above) == above \cup UNION {{d[a].ptrs[i] : i \in DOMAIN d[a].ptrs} :
                                          a \in {b \in above : d[b].kind = "folder"}}
Reach(d, reach, k) == IF k = 0 THEN {FILE_ROOT} ELSE Further(d, reach[k - 1])

\* Some function solves the recursion, or there were a least depth without one.
LEMMA ReachExists ==
    ASSUME NEW d
    PROVE  \E reach : reach = [k \in 0 .. MaxBlocks |-> Reach(d, reach, k)]
<1> DEFINE Solves(n, f) == /\ f = [k \in 0 .. MaxBlocks |-> f[k]]
                           /\ \A k \in 0 .. MaxBlocks : k < n => f[k] = Reach(d, f, k)
           T == {n \in Nat : ~ \E f : Solves(n, f)}
<1>1. T = {}
  <2> SUFFICES ASSUME T # {} PROVE FALSE
    OBVIOUS
  <2>1. PICK n \in T : \A y \in T : n <= y
    BY Least
  <2>2. n \in Nat /\ ~ \E f : Solves(n, f)
    OBVIOUS
  <2>3. n # 0
    <3> DEFINE none == [k \in 0 .. MaxBlocks |-> {}]
    <3>1. Solves(0, none)
      OBVIOUS
    <3> QED BY <2>2, <3>1
  <2> DEFINE m == n - 1
  <2>4. m \in Nat /\ m < n
    BY <2>2, <2>3
  <2>5. PICK f : Solves(m, f)
    <3>1. m \notin T
      BY <2>1, <2>2, <2>4
    <3> QED BY <2>4, <3>1
  <2> DEFINE next == [k \in 0 .. MaxBlocks |-> IF k = m THEN Reach(d, f, k) ELSE f[k]]
  <2>6. next = [k \in 0 .. MaxBlocks |-> next[k]]
    OBVIOUS
  <2>7. ASSUME NEW k \in 0 .. MaxBlocks, k < n PROVE next[k] = Reach(d, next, k)
    <3>1. k \in Nat /\ k <= m /\ MaxBlocks \in Nat /\ k <= MaxBlocks
      BY <2>2, <2>7, SizeAssumption
    <3>2. Reach(d, next, k) = Reach(d, f, k)
      <4>1. CASE k = 0
        BY <4>1 DEF Reach
      <4>2. CASE k # 0
        <5>1. k - 1 \in 0 .. MaxBlocks /\ k - 1 # m
          BY <2>4, <3>1, <4>2
        <5>2. next[k - 1] = f[k - 1]
          BY <5>1
        <5> HIDE DEF next
        <5> QED BY <4>2, <5>2 DEF Reach
      <4> QED BY <4>1, <4>2
    <3>3. next[k] = Reach(d, f, k)
      <4>1. CASE k = m
        BY <4>1
      <4>2. CASE k # m
        BY <2>4, <2>5, <3>1, <4>2
      <4> QED BY <4>1, <4>2
    <3> QED BY <3>2, <3>3
  <2>8. Solves(n, next)
    <3> HIDE DEF next
    <3> QED BY <2>6, <2>7
  <2> QED BY <2>2, <2>8
<1>2. PICK f : Solves(MaxBlocks + 1, f)
  <2>1. MaxBlocks + 1 \in Nat /\ MaxBlocks + 1 \notin T
    BY <1>1, SizeAssumption
  <2> QED BY <2>1
<1>3. f = [k \in 0 .. MaxBlocks |-> Reach(d, f, k)]
  <2>1. \A k \in 0 .. MaxBlocks : f[k] = Reach(d, f, k)
    BY <1>2, SizeAssumption
  <2> QED BY <1>2, <2>1
<1> QED BY <1>3

\* What the root leads to lies in every set that has the root and is closed.
LEMMA LinkedWithin ==
    ASSUME NEW d, NEW G, FILE_ROOT \in G,
           \A a \in G : d[a].kind = "folder" => \A i \in DOMAIN d[a].ptrs : d[a].ptrs[i] \in G
    PROVE  Linked(d) \subseteq G
<1> DEFINE reach == CHOOSE f : f = [k \in 0 .. MaxBlocks |-> Reach(d, f, k)]
<1>1. Linked(d) = reach[MaxBlocks]
  BY DEF Linked, Reach, Further
<1>2. reach = [k \in 0 .. MaxBlocks |-> Reach(d, reach, k)]
  BY ReachExists
<1> HIDE DEF reach
<1> DEFINE T == {k \in 0 .. MaxBlocks : ~(reach[k] \subseteq G)}
<1>3. T = {}
  <2> SUFFICES ASSUME T # {} PROVE FALSE
    OBVIOUS
  <2>1. PICK k \in T : \A y \in T : k <= y
    <3>1. T \subseteq Nat
      BY SizeAssumption
    <3> HIDE DEF T
    <3> QED BY <3>1, Least
  <2>2. k \in 0 .. MaxBlocks /\ k \in Nat /\ ~(reach[k] \subseteq G)
    BY SizeAssumption
  <2>3. reach[k] = Reach(d, reach, k)
    BY <1>2, <2>2
  <2>4. CASE k = 0
    BY <2>2, <2>3, <2>4 DEF Reach
  <2>5. CASE k # 0
    <3>1. k - 1 \in 0 .. MaxBlocks /\ k - 1 < k
      BY <2>2, <2>5, SizeAssumption
    <3>2. reach[k - 1] \subseteq G
      BY <2>1, <2>2, <3>1
    <3>3. reach[k] = Further(d, reach[k - 1])
      BY <2>3, <2>5 DEF Reach
    <3>4. Further(d, reach[k - 1]) \subseteq G
      BY <3>2 DEF Further
    <3> QED BY <2>2, <3>3, <3>4
  <2> QED BY <2>4, <2>5
<1> QED BY <1>1, <1>3, SizeAssumption

\* A disk with trees that the allocator is past is a sound one.
LEMMA TreesAreSound ==
    ASSUME NEW d, NEW e, NEW G \in SUBSET Blocks, Trees(d, G), Below(G, e), e.start \in Int
    PROVE  Sound(d, e)
<1> DEFINE H == {a \in G : d[a].kind \in NodeKinds}
<1>1. FILE_ROOT \in H
  BY DEF Trees, NodeKinds
<1>2. ASSUME NEW a \in H, d[a].kind = "folder", NEW i \in DOMAIN d[a].ptrs PROVE d[a].ptrs[i] \in H
  BY <1>2 DEF Trees
<1>3. Linked(d) \subseteq H
  <2> HIDE DEF H
  <2> QED BY <1>1, <1>2, LinkedWithin
<1>4. ASSUME NEW a \in Linked(d), NEW i \in DOMAIN d[a].ptrs
      PROVE  /\ a \in G /\ d[a].kind \in NodeKinds
             /\ d[a].ptrs[i] \in RESERVED_BLOCKS .. e.start - 1
             /\ IF d[a].kind = "folder"
                THEN d[d[a].ptrs[i]].kind \in NodeKinds /\ d[d[a].ptrs[i]].parent = a
                ELSE d[d[a].ptrs[i]].kind = "data"
  <2>1. a \in G /\ d[a].kind \in NodeKinds
    BY <1>3
  <2>2. d[a].ptrs[i] \in G \ {FILE_ROOT}
    BY <2>1 DEF Trees
  <2>3. d[a].ptrs[i] \in Blocks
    BY <2>2
  <2>4. d[a].ptrs[i] \in Int
    BY <2>3, SizeAssumption DEF Blocks
  <2>5. d[a].ptrs[i] \in RESERVED_BLOCKS .. e.start - 1
    BY <2>2, <2>4 DEF Below, RESERVED_BLOCKS
  <2> QED BY <2>1, <2>5 DEF Trees
<1> DEFINE refs == UNION {{a} \X DOMAIN d[a].ptrs : a \in Linked(d)}
           To(r) == d[r[1]].ptrs[r[2]]
<1>5. ASSUME NEW r \in refs
      PROVE  r[1] \in Linked(d) /\ r[2] \in DOMAIN d[r[1]].ptrs /\ r = <<r[1], r[2]>>
  OBVIOUS
<1>6. ASSUME NEW r \in refs, NEW q \in refs, To(r) = To(q) PROVE r = q
  <2>1. r[1] \in G /\ q[1] \in G
    BY <1>4, <1>5
  <2>2. r[1] = q[1] /\ r[2] = q[2]
    BY <1>5, <1>6, <2>1 DEF Trees
  <2> QED BY <1>5, <2>2
<1>7. \A a \in Linked(d) : d[a].kind \in NodeKinds
  BY <1>3
<1>8. d[FILE_ROOT].kind = "folder"
  BY DEF Trees
<1>9. \A r \in refs : /\ To(r) \in RESERVED_BLOCKS .. e.start - 1
                      /\ IF d[r[1]].kind = "folder"
                         THEN d[To(r)].kind \in NodeKinds /\ d[To(r)].parent = r[1]
                         ELSE d[To(r)].kind = "data"
  BY <1>4, <1>5
<1> QED BY <1>6, <1>7, <1>8, <1>9 DEF Sound
-----------------------------------------------------------------------------
(* What the methods do to trees *)

\* The pointers of trees and the nodes they are in
LEMMA TreesPoint ==
    ASSUME NEW d, NEW G, Trees(d, G), NEW a \in G, NEW i \in DOMAIN d[a].ptrs
    PROVE  /\ d[a].ptrs[i] \in G \ {FILE_ROOT}
           /\ d[a].kind \in NodeKinds
           /\ d[a].kind = "folder" => /\ d[d[a].ptrs[i]].kind \in NodeKinds
                                      /\ d[d[a].ptrs[i]].parent = a
                                      /\ a < d[a].ptrs[i]
           /\ d[a].kind = "file" => d[d[a].ptrs[i]].kind = "data"
<1>1. /\ d[a].ptrs[i] \in G \ {FILE_ROOT}
      /\ \/ /\ d[a].kind = "folder"
            /\ d[d[a].ptrs[i]].kind \in NodeKinds
            /\ d[d[a].ptrs[i]].parent = a
            /\ a < d[a].ptrs[i]
         \/ d[a].kind = "file" /\ d[d[a].ptrs[i]].kind = "data"
  BY DEF Trees
<1> QED BY <1>1 DEF NodeKinds

\* No two of them meet.
LEMMA TreesOnce ==
    ASSUME NEW d, NEW G, Trees(d, G), NEW a \in G, NEW b \in G,
           NEW i \in DOMAIN d[a].ptrs, NEW j \in DOMAIN d[b].ptrs, d[a].ptrs[i] = d[b].ptrs[j]
    PROVE  a = b /\ i = j
BY DEF Trees

\* A format leaves the tree of the root alone.
LEMMA TreesFormat ==
    ASSUME NEW d, d[FILE_ROOT] = DefaultRootFolder
    PROVE  Trees(d, {FILE_ROOT})
<1>1. d[FILE_ROOT].kind = "folder" /\ d[FILE_ROOT].parent = FILE_ROOT /\ d[FILE_ROOT].ptrs = << >>
  BY DEF DefaultRootFolder, Blank
<1> QED BY <1>1 DEF Trees

\* Only the data of files differs, and what is outside the trees.
LEMMA TreesData ==
    ASSUME NEW d, NEW e, NEW G, Trees(d, G),
           \A b \in G : \/ e[b] = d[b]
                        \/ d[b].kind = "data" /\ e[b].kind = "data" /\ e[b].ptrs = << >>
    PROVE  Trees(e, G)
<1>1. \A b \in G : e[b].kind = d[b].kind
  OBVIOUS
<1>2. \A b \in G : d[b].kind \in NodeKinds => e[b] = d[b]
  BY DEF NodeKinds
<1>3. ASSUME NEW a \in G, NEW i \in DOMAIN e[a].ptrs PROVE e[a] = d[a]
  OBVIOUS
<1>4. ASSUME NEW a \in G, NEW i \in DOMAIN e[a].ptrs
      PROVE  /\ e[a].ptrs[i] \in G \ {FILE_ROOT}
             /\ \/ /\ e[a].kind = "folder"
                   /\ e[e[a].ptrs[i]].kind \in NodeKinds
                   /\ e[e[a].ptrs[i]].parent = a
                   /\ a < e[a].ptrs[i]
                \/ e[a].kind = "file" /\ e[e[a].ptrs[i]].kind = "data"
  <2> DEFINE b == d[a].ptrs[i]
  <2>1. e[a] = d[a] /\ i \in DOMAIN d[a].ptrs
    BY <1>3, <1>4
  <2>2. b \in G \ {FILE_ROOT} /\ d[a].kind \in NodeKinds
        /\ (d[a].kind = "folder" => d[b].kind \in NodeKinds /\ d[b].parent = a /\ a < b)
        /\ (d[a].kind = "file" => d[b].kind = "data")
    BY <2>1, TreesPoint
  <2> HIDE DEF b
  <2>3. e[b].kind = d[b].kind /\ (d[b].kind \in NodeKinds => e[b] = d[b])
    BY <1>1, <1>2, <2>2
  <2> QED BY <2>1, <2>2, <2>3 DEF b, NodeKinds
<1>5. ASSUME NEW a \in G, NEW b \in G, NEW i \in DOMAIN e[a].ptrs, NEW j \in DOMAIN e[b].ptrs,
             e[a].ptrs[i] = e[b].ptrs[j]
      PROVE  a = b /\ i = j
  <2>1. e[a] = d[a] /\ e[b] = d[b]
    BY <1>3
  <2> QED BY <1>5, <2>1, TreesOnce
<1>6. FILE_ROOT \in G /\ e[FILE_ROOT].kind = "folder" /\ e[FILE_ROOT].parent = FILE_ROOT
  BY <1>2 DEF Trees, NodeKinds
<1>7. \A a \in G \ {FILE_ROOT} : e[a].kind \in NodeKinds =>
         e[a].parent \in G /\ e[e[a].parent].kind = "folder"
  BY <1>1, <1>2 DEF Trees
<1> QED BY <1>4, <1>5, <1>6, <1>7 DEF Trees

\* A new node with a pointer to it at the end of its folder
LEMMA TreesCreate ==
    ASSUME NEW d, NEW e, NEW G, Trees(d, G),
           NEW p \in G, d[p].kind = "folder", NEW S, d[p].ptrs \in Seq(S),
           NEW b, b \notin G, p < b,
           e[b].kind \in NodeKinds, e[b].parent = p, e[b].ptrs = << >>,
           e[p].kind = "folder", e[p].parent = d[p].parent, e[p].ptrs = Append(d[p].ptrs, b),
           \A a \in G \ {p} : e[a] = d[a]
    PROVE  Trees(e, G \cup {b})
<1> DEFINE L == Len(d[p].ptrs)
<1>1. /\ L \in Nat /\ DOMAIN d[p].ptrs = 1 .. L /\ DOMAIN e[p].ptrs = 1 .. L + 1
      /\ \A i \in 1 .. L : e[p].ptrs[i] = d[p].ptrs[i]
      /\ e[p].ptrs[L + 1] = b
  OBVIOUS
<1>2. \A a \in G : e[a].kind = d[a].kind /\ e[a].parent = d[a].parent
  OBVIOUS
<1>3. FILE_ROOT \in G /\ b # FILE_ROOT
  BY DEF Trees
\* Where a pointer of the new disk was
<1>4. ASSUME NEW a \in G \cup {b}, NEW i \in DOMAIN e[a].ptrs
      PROVE  /\ a \in G
             /\ \/ i \in DOMAIN d[a].ptrs /\ e[a].ptrs[i] = d[a].ptrs[i]
                \/ a = p /\ i = L + 1 /\ e[a].ptrs[i] = b
  <2>1. a # b
    OBVIOUS
  <2>2. CASE a = p
    <3>1. i \in 1 .. L \/ i = L + 1
      BY <1>1, <2>2
    <3> QED BY <1>1, <2>1, <2>2, <3>1
  <2>3. CASE a # p
    BY <2>1, <2>3
  <2> QED BY <2>2, <2>3
<1> HIDE DEF L
<1>5. ASSUME NEW a \in G \cup {b}, NEW i \in DOMAIN e[a].ptrs
      PROVE  /\ e[a].ptrs[i] \in (G \cup {b}) \ {FILE_ROOT}
             /\ \/ /\ e[a].kind = "folder"
                   /\ e[e[a].ptrs[i]].kind \in NodeKinds
                   /\ e[e[a].ptrs[i]].parent = a
                   /\ a < e[a].ptrs[i]
                \/ e[a].kind = "file" /\ e[e[a].ptrs[i]].kind = "data"
  <2>1. CASE a \in G /\ i \in DOMAIN d[a].ptrs /\ e[a].ptrs[i] = d[a].ptrs[i]
    <3> DEFINE x == d[a].ptrs[i]
    <3>1. x \in G \ {FILE_ROOT} /\ d[a].kind \in NodeKinds
          /\ (d[a].kind = "folder" => d[x].kind \in NodeKinds /\ d[x].parent = a /\ a < x)
          /\ (d[a].kind = "file" => d[x].kind = "data")
      BY <2>1, TreesPoint
    <3> HIDE DEF x
    <3>2. e[a].ptrs[i] = x /\ e[x].kind = d[x].kind /\ e[x].parent = d[x].parent
          /\ e[a].kind = d[a].kind
      BY <1>2, <2>1, <3>1 DEF x
    <3> QED BY <3>1, <3>2 DEF NodeKinds
  <2>2. CASE a = p /\ e[a].ptrs[i] = b
    BY <1>3, <2>2
  <2> QED BY <1>4, <2>1, <2>2
<1>6. ASSUME NEW a1 \in G \cup {b}, NEW a2 \in G \cup {b},
             NEW i \in DOMAIN e[a1].ptrs, NEW j \in DOMAIN e[a2].ptrs,
             e[a1].ptrs[i] = e[a2].ptrs[j]
      PROVE  a1 = a2 /\ i = j
  <2>1. \A a \in G : \A m \in DOMAIN d[a].ptrs : d[a].ptrs[m] # b
    BY TreesPoint
  <2>2. a1 \in G /\ a2 \in G
    BY <1>4
  <2>3. CASE i \in DOMAIN d[a1].ptrs /\ e[a1].ptrs[i] = d[a1].ptrs[i]
    <3>1. e[a1].ptrs[i] # b
      BY <2>1, <2>2, <2>3
    <3>2. j \in DOMAIN d[a2].ptrs /\ e[a2].ptrs[j] = d[a2].ptrs[j]
      BY <1>4, <1>6, <3>1
    <3>3. d[a1].ptrs[i] = d[a2].ptrs[j]
      BY <1>6, <2>3, <3>2
    <3> QED BY <2>2, <2>3, <3>2, <3>3, TreesOnce
  <2>4. CASE a1 = p /\ i = L + 1 /\ e[a1].ptrs[i] = b
    <3>1. a2 = p /\ j = L + 1
      BY <1>4, <1>6, <2>1, <2>2, <2>4
    <3> QED BY <2>4, <3>1
  <2> QED BY <1>4, <2>3, <2>4
<1>7. e[FILE_ROOT].kind = "folder" /\ e[FILE_ROOT].parent = FILE_ROOT
  BY <1>2 DEF Trees
<1>8. \A a \in (G \cup {b}) \ {FILE_ROOT} : e[a].kind \in NodeKinds =>
         e[a].parent \in G \cup {b} /\ e[e[a].parent].kind = "folder"
  BY <1>2 DEF Trees
<1> QED BY <1>3, <1>5, <1>6, <1>7, <1>8 DEF Trees

\* A folder without one of its pointers: the node it led to stays, and its parent.
LEMMA TreesRemove ==
    ASSUME NEW d, NEW e, NEW G, Trees(d, G),
           NEW p \in G, d[p].kind = "folder", NEW S, d[p].ptrs \in Seq(S),
           NEW x \in DOMAIN d[p].ptrs,
           e[p].kind = "folder", e[p].parent = d[p].parent, e[p].ptrs = RemoveAt(d[p].ptrs, x),
           \A a \in G \ {p} : e[a] = d[a]
    PROVE  Trees(e, G)
<1>1. \A a \in G : e[a].kind = d[a].kind /\ e[a].parent = d[a].parent
  OBVIOUS
\* Where the pointers of the new list were
<1> DEFINE L == Len(d[p].ptrs)
           Was(a, i) == IF a # p \/ i < x THEN i ELSE i + 1
<1>2. L \in Nat /\ x \in 1 .. L /\ DOMAIN d[p].ptrs = 1 .. L
  OBVIOUS
<1>3. /\ DOMAIN e[p].ptrs = 1 .. L - 1
      /\ \A j \in 1 .. L - 1 : e[p].ptrs[j] = d[p].ptrs[IF j < x THEN j ELSE j + 1]
  BY RemoveAtPlaces
<1>4. ASSUME NEW a \in G, NEW i \in DOMAIN e[a].ptrs
      PROVE  Was(a, i) \in DOMAIN d[a].ptrs /\ e[a].ptrs[i] = d[a].ptrs[Was(a, i)]
  <2>1. CASE a = p
    <3>1. i \in 1 .. L - 1
      BY <1>3, <2>1
    <3>2. (IF i < x THEN i ELSE i + 1) \in 1 .. L
      BY <1>2, <3>1
    <3> QED BY <1>2, <1>3, <2>1, <3>1, <3>2
  <2>2. CASE a # p
    BY <2>2
  <2> QED BY <2>1, <2>2
<1>5. ASSUME NEW i \in DOMAIN e[p].ptrs, NEW j \in DOMAIN e[p].ptrs, Was(p, i) = Was(p, j)
      PROVE  i = j
  <2>1. i \in 1 .. L - 1 /\ j \in 1 .. L - 1
    BY <1>3
  <2> QED BY <1>2, <1>5, <2>1
<1> HIDE DEF L, Was
<1>6. ASSUME NEW a \in G, NEW i \in DOMAIN e[a].ptrs
      PROVE  /\ e[a].ptrs[i] \in G \ {FILE_ROOT}
             /\ \/ /\ e[a].kind = "folder"
                   /\ e[e[a].ptrs[i]].kind \in NodeKinds
                   /\ e[e[a].ptrs[i]].parent = a
                   /\ a < e[a].ptrs[i]
                \/ e[a].kind = "file" /\ e[e[a].ptrs[i]].kind = "data"
  <2> DEFINE m == Was(a, i)
             y == d[a].ptrs[m]
  <2>1. m \in DOMAIN d[a].ptrs /\ e[a].ptrs[i] = y
    BY <1>4
  <2>2. y \in G \ {FILE_ROOT} /\ d[a].kind \in NodeKinds
        /\ (d[a].kind = "folder" => d[y].kind \in NodeKinds /\ d[y].parent = a /\ a < y)
        /\ (d[a].kind = "file" => d[y].kind = "data")
    BY <2>1, TreesPoint
  <2> HIDE DEF y, m
  <2>3. e[y].kind = d[y].kind /\ e[y].parent = d[y].parent /\ e[a].kind = d[a].kind
    BY <1>1, <2>2
  <2> QED BY <2>1, <2>2, <2>3 DEF NodeKinds
<1>7. ASSUME NEW a \in G, NEW b \in G, NEW i \in DOMAIN e[a].ptrs, NEW j \in DOMAIN e[b].ptrs,
             e[a].ptrs[i] = e[b].ptrs[j]
      PROVE  a = b /\ i = j
  <2>1. d[a].ptrs[Was(a, i)] = d[b].ptrs[Was(b, j)]
        /\ Was(a, i) \in DOMAIN d[a].ptrs /\ Was(b, j) \in DOMAIN d[b].ptrs
    BY <1>4, <1>7
  <2>2. a = b /\ Was(a, i) = Was(b, j)
    BY <2>1, TreesOnce
  <2>3. CASE a = p
    BY <1>5, <2>2, <2>3
  <2>4. CASE a # p
    BY <2>2, <2>4 DEF Was
  <2> QED BY <2>2, <2>3, <2>4
<1>8. FILE_ROOT \in G /\ e[FILE_ROOT].kind = "folder" /\ e[FILE_ROOT].parent = FILE_ROOT
  BY <1>1 DEF Trees
<1>9. \A a \in G \ {FILE_ROOT} : e[a].kind \in NodeKinds =>
         e[a].parent \in G /\ e[e[a].parent].kind = "folder"
  BY <1>1 DEF Trees
<1> QED BY <1>6, <1>7, <1>8, <1>9 DEF Trees

\* A file f keeps its first blocks, all or some, and gets new ones behind them.
Extended(d, e, G, f, New) ==
    /\ f \in G /\ d[f].kind = "file"
    /\ \A b \in New : b \notin G /\ e[b].kind = "data" /\ e[b].ptrs = << >>
    /\ \A a \in G : /\ e[a].kind = d[a].kind
                    /\ d[a].kind \in NodeKinds => e[a].parent = d[a].parent
                    /\ a # f => e[a].ptrs = d[a].ptrs
    /\ \A i \in DOMAIN e[f].ptrs : \/ i \in DOMAIN d[f].ptrs /\ e[f].ptrs[i] = d[f].ptrs[i]
                                  \/ e[f].ptrs[i] \in New
    /\ \A i, j \in DOMAIN e[f].ptrs : e[f].ptrs[i] = e[f].ptrs[j] => i = j

LEMMA TreesStore ==
    ASSUME NEW d, NEW e, NEW G, Trees(d, G), NEW f, NEW New, Extended(d, e, G, f, New)
    PROVE  Trees(e, G \cup New)
<1> USE DEF Extended
<1>1. FILE_ROOT \in G /\ FILE_ROOT \notin New
  BY DEF Trees
<1> DEFINE Kept(a, m) == m \in DOMAIN d[a].ptrs /\ e[a].ptrs[m] = d[a].ptrs[m]
           Added(a, m) == a = f /\ e[a].ptrs[m] \in New
<1>2. ASSUME NEW a \in G \cup New, NEW i \in DOMAIN e[a].ptrs
      PROVE  a \in G /\ (Kept(a, i) \/ Added(a, i))
  OBVIOUS
<1>3. ASSUME NEW a \in G \cup New, NEW i \in DOMAIN e[a].ptrs
      PROVE  /\ e[a].ptrs[i] \in (G \cup New) \ {FILE_ROOT}
             /\ \/ /\ e[a].kind = "folder"
                   /\ e[e[a].ptrs[i]].kind \in NodeKinds
                   /\ e[e[a].ptrs[i]].parent = a
                   /\ a < e[a].ptrs[i]
                \/ e[a].kind = "file" /\ e[e[a].ptrs[i]].kind = "data"
  <2>1. CASE a \in G /\ Kept(a, i)
    <3> DEFINE y == d[a].ptrs[i]
    <3>1. y \in G \ {FILE_ROOT} /\ d[a].kind \in NodeKinds
          /\ (d[a].kind = "folder" => d[y].kind \in NodeKinds /\ d[y].parent = a /\ a < y)
          /\ (d[a].kind = "file" => d[y].kind = "data")
      BY <2>1, TreesPoint
    <3>2. e[a].ptrs[i] = y
      BY <2>1
    <3> HIDE DEF y
    <3>3. e[y].kind = d[y].kind /\ (d[y].kind \in NodeKinds => e[y].parent = d[y].parent)
          /\ e[a].kind = d[a].kind
      BY <2>1, <3>1
    <3> QED BY <1>1, <3>1, <3>2, <3>3 DEF NodeKinds
  <2>2. CASE Added(a, i)
    BY <1>1, <2>2
  <2> QED BY <1>2, <2>1, <2>2
<1>4. ASSUME NEW a1 \in G \cup New, NEW a2 \in G \cup New,
             NEW i \in DOMAIN e[a1].ptrs, NEW j \in DOMAIN e[a2].ptrs,
             e[a1].ptrs[i] = e[a2].ptrs[j]
      PROVE  a1 = a2 /\ i = j
  <2>1. /\ a1 \in G /\ (Kept(a1, i) \/ Added(a1, i))
        /\ a2 \in G /\ (Kept(a2, j) \/ Added(a2, j))
    BY <1>2
  <2>2. \A a \in G : \A m \in DOMAIN d[a].ptrs : d[a].ptrs[m] \notin New
    BY TreesPoint
  <2>3. CASE Kept(a1, i) /\ Kept(a2, j)
    <3>1. d[a1].ptrs[i] = d[a2].ptrs[j] /\ i \in DOMAIN d[a1].ptrs /\ j \in DOMAIN d[a2].ptrs
      BY <1>4, <2>3
    <3> QED BY <2>1, <3>1, TreesOnce
  <2>4. CASE Added(a1, i) /\ Added(a2, j)
    BY <1>4, <2>4
  <2>5. CASE Kept(a1, i) /\ Added(a2, j)
    BY <1>4, <2>1, <2>2, <2>5
  <2>6. CASE Added(a1, i) /\ Kept(a2, j)
    BY <1>4, <2>1, <2>2, <2>6
  <2> QED BY <2>1, <2>3, <2>4, <2>5, <2>6
<1> HIDE DEF Kept, Added
<1>5. e[FILE_ROOT].kind = "folder" /\ e[FILE_ROOT].parent = FILE_ROOT
  BY DEF Trees, NodeKinds
<1>6. ASSUME NEW a \in (G \cup New) \ {FILE_ROOT}, e[a].kind \in NodeKinds
      PROVE  e[a].parent \in G \cup New /\ e[e[a].parent].kind = "folder"
  <2>1. a \in G
    BY <1>6 DEF NodeKinds
  <2>2. d[a].parent \in G /\ d[d[a].parent].kind = "folder" /\ e[a].parent = d[a].parent
    BY <1>6, <2>1 DEF Trees
  <2> QED BY <2>2
<1> QED BY <1>1, <1>3, <1>4, <1>5, <1>6 DEF Trees

-----------------------------------------------------------------------------
(* The steps that write nothing *)

\* The process runs on trees G.
RunsOn(G) == /\ TypeOK /\ G \in SUBSET Blocks /\ Trees(disk, G) /\ Below(G, alloc)
             /\ \A c \in Clients : HandleIn(c, G)

LEMMA QuietIs ==
    ASSUME NEW c \in Clients, Quiet(c)
    PROVE  /\ server = "up" /\ UNCHANGED <<disk, alloc, server, intact, todo>>
           /\ \/ Moves(c) \/ CdDot(c) \/ CdUp(c) \/ CdDown(c)
              \/ \E m \in FileCommands : Open(c, m)
<1> USE DEF Goto
<1>1. CASE Connect(c) \/ Login(c) \/ Disconnect(c)
  BY <1>1 DEF Quiet, Moves, Connect, Login, Disconnect
<1>2. CASE CdDot(c) \/ CdUp(c) \/ CdDown(c)
  BY <1>2 DEF Quiet, CdDot, CdUp, CdDown, CdOpen
<1>3. CASE CdRelease(c) \/ CdAdopt(c) \/ CdDrop(c)
  BY <1>3 DEF Quiet, Moves, CdRelease, CdAdopt, CdDrop
<1>4. CASE \E m \in FileCommands : Open(c, m)
  BY <1>4 DEF Quiet, Open
<1>5. CASE Load(c) \/ Close(c)
  BY <1>5 DEF Quiet, Moves, Load, Close
<1> QED BY <1>1, <1>2, <1>3, <1>4, <1>5 DEF Quiet

LEMMA QuietType ==
    ASSUME TypeOK, NEW c \in Clients, Quiet(c)
    PROVE  TypeOK'
BY ConnectionType, CdType, FileStepType DEF Quiet

\* A thread that waits for a request has a current folder in the trees.
LEMMA IdleIn ==
    ASSUME NEW G, RunsOn(G), NEW c \in Clients, pc[c] = "idle"
    PROVE  /\ cwd[c] \in G /\ disk[cwd[c]].kind = "folder"
           /\ disk[cwd[c]] \in Block /\ disk[cwd[c]].ptrs \in Seq(Blocks)
<1>1. cwd[c] \in G /\ disk[cwd[c]].kind = "folder"
  BY DEF RunsOn, HandleIn, Live
<1>2. cwd[c] \in Blocks /\ disk \in [Blocks -> Block]
  BY DEF RunsOn, TypeOK
<1> QED BY <1>1, <1>2 DEF Block

\* What a scan of it finds is a node in the trees.
LEMMA FoundIn ==
    ASSUME NEW G, RunsOn(G), NEW c \in Clients, pc[c] = "idle",
           NEW k \in NodeKinds, NEW n, NEW i \in FirstMatch(cwd[c], k, n)
    PROVE  /\ i \in DOMAIN disk[cwd[c]].ptrs
           /\ disk[cwd[c]].ptrs[i] \in G /\ disk[disk[cwd[c]].ptrs[i]].kind = k
<1>1. i \in DOMAIN disk[cwd[c]].ptrs /\ disk[disk[cwd[c]].ptrs[i]].kind = k
  BY DEF FirstMatch, Matches
<1>2. cwd[c] \in G /\ Trees(disk, G)
  BY IdleIn DEF RunsOn
<1> QED BY <1>1, <1>2, TreesPoint

LEMMA CdOpenHandles ==
    ASSUME NEW G, RunsOn(G), NEW c \in Clients, NEW b \in G, disk[b].kind = "folder",
           NEW p, CdOpen(c, b, p), NEW e \in Clients
    PROVE  HandleIn(e, G)'
<1>1. /\ pc' = [pc EXCEPT ![c] = "cdOpened"] /\ tmp' = [tmp EXCEPT ![c] = b]
      /\ pc[c] = "idle" /\ UNCHANGED <<disk, alloc, cwd>>
  BY DEF CdOpen, Goto
<1>2. HandleIn(e, G)
  BY DEF RunsOn
<1> QED BY <1>1, <1>2 DEF HandleIn, Live, CdSteps, FileSteps, RunsOn, TypeOK

LEMMA QuietHandles ==
    ASSUME NEW G, RunsOn(G), NEW c \in Clients, Quiet(c), NEW e \in Clients
    PROVE  HandleIn(e, G)'
<1>1. UNCHANGED <<disk, alloc>>
  BY QuietIs
<1>2. CASE CdDot(c) \/ CdUp(c) \/ CdDown(c)
  <2>1. pc[c] = "idle"
    BY <1>2 DEF CdDot, CdUp, CdDown, CdOpen, Goto
  <2>2. cwd[c] \in G /\ disk[cwd[c]].kind = "folder"
    BY <2>1, IdleIn
  <2>3. CASE CdDot(c)
    BY <2>2, <2>3, CdOpenHandles DEF CdDot
  <2>4. CASE CdUp(c)
    <3> DEFINE b == IF cwd[c] = FILE_ROOT THEN cwd[c] ELSE disk[cwd[c]].parent
               p == IF path[c] = << >> THEN path[c] ELSE Front(path[c])
    <3>1. b \in G /\ disk[b].kind = "folder"
      BY <2>2 DEF RunsOn, Trees, NodeKinds
    <3>2. CdOpen(c, b, p)
      BY <2>4 DEF CdUp
    <3> HIDE DEF b, p
    <3> QED BY <3>1, <3>2, CdOpenHandles
  <2>5. CASE CdDown(c)
    <3>1. PICK n \in Names : \E i \in FirstMatch(cwd[c], "folder", n) :
             CdOpen(c, disk[cwd[c]].ptrs[i], Append(path[c], n))
      BY <2>5 DEF CdDown
    <3>2. PICK i \in FirstMatch(cwd[c], "folder", n) :
             CdOpen(c, disk[cwd[c]].ptrs[i], Append(path[c], n))
      BY <3>1
    <3>3. disk[cwd[c]].ptrs[i] \in G /\ disk[disk[cwd[c]].ptrs[i]].kind = "folder"
      BY <2>1, FoundIn DEF NodeKinds
    <3> QED BY <3>2, <3>3, CdOpenHandles
  <2> QED BY <1>2, <2>3, <2>4, <2>5
<1>3. ASSUME NEW m \in FileCommands, Open(c, m) PROVE HandleIn(e, G)'
  <2>1. PICK n \in Names : \E i \in FirstMatch(cwd[c], "file", n) :
           tmp' = [tmp EXCEPT ![c] = disk[cwd[c]].ptrs[i]]
    BY <1>3 DEF Open
  <2>2. PICK i \in FirstMatch(cwd[c], "file", n) :
           tmp' = [tmp EXCEPT ![c] = disk[cwd[c]].ptrs[i]]
    BY <2>1
  <2>3. pc[c] = "idle" /\ pc' = [pc EXCEPT ![c] = "opened"] /\ UNCHANGED cwd
    BY <1>3 DEF Open, Goto
  <2>4. disk[cwd[c]].ptrs[i] \in G /\ disk[disk[cwd[c]].ptrs[i]].kind = "file"
    BY <2>3, FoundIn DEF NodeKinds
  <2>5. HandleIn(e, G)
    BY DEF RunsOn
  <2> QED BY <1>1, <2>2, <2>3, <2>4, <2>5 DEF HandleIn, Live, CdSteps, FileSteps, RunsOn, TypeOK
<1>4. CASE Moves(c)
  <2> USE DEF HandleIn, Live, CdSteps, FileSteps
  <2>1. HandleIn(e, G) /\ HandleIn(c, G)
    BY DEF RunsOn
  <2>2. pc \in [Clients -> Steps] /\ cwd \in [Clients -> Blocks] /\ tmp \in [Clients -> Blocks]
    BY DEF RunsOn, TypeOK
  <2>3. FILE_ROOT \in G /\ disk[FILE_ROOT].kind = "folder"
    BY DEF RunsOn, Trees
  <2>4. CASE Connect(c)
    BY <1>1, <2>1, <2>2, <2>3, <2>4 DEF Connect, Goto
  <2>5. CASE Login(c) \/ Disconnect(c) \/ ResetByPeer(c)
    BY <1>1, <2>1, <2>2, <2>3, <2>5 DEF Login, Disconnect, ResetByPeer, Goto
  <2>6. CASE CdRelease(c) \/ CdAdopt(c) \/ CdDrop(c)
    BY <1>1, <2>1, <2>2, <2>3, <2>6 DEF CdRelease, CdAdopt, CdDrop, Goto
  <2>7. CASE Load(c) \/ Overrun(c) \/ Close(c)
    BY <1>1, <2>1, <2>2, <2>3, <2>7 DEF Load, Overrun, Close, Goto
  <2> QED BY <1>4, <2>4, <2>5, <2>6, <2>7 DEF Moves
<1> QED BY <1>2, <1>3, <1>4, QuietIs

-----------------------------------------------------------------------------
(* The methods and what they have to write *)

\* An extent of a running process, in numbers
LEMMA AllocIs ==
    ASSUME AllocOK
    PROVE  /\ ExtentOK(alloc) /\ alloc # NoExtent
           /\ alloc.start \in Int /\ alloc.len \in Int
           /\ alloc.start \in Blocks /\ alloc.start >= RESERVED_BLOCKS
           /\ alloc.len >= 1 /\ alloc.start + alloc.len = MaxBlocks
<1>1. alloc.start \in Int /\ alloc.len \in Int
  BY SizeAssumption DEF AllocOK, Blocks
<1>2. alloc # NoExtent
  BY DEF AllocOK, NoExtent, RESERVED_BLOCKS
<1> QED BY <1>1, <1>2 DEF AllocOK, ExtentOK

\* What the extent begins with is in no tree.
LEMMA NewIsOutside ==
    ASSUME NEW G \in SUBSET Blocks, NEW e, Below(G, e), NEW b \in Int, b >= e.start, b >= RESERVED_BLOCKS,
           e.start \in Int
    PROVE  b \notin G /\ \A a \in G : a < b
<1>1. ASSUME NEW a \in G PROVE a < b
  <2>1. a \in Int
    BY SizeAssumption DEF Blocks
  <2>2. CASE a = FILE_ROOT
    BY <2>2 DEF FILE_ROOT, RESERVED_BLOCKS
  <2>3. CASE a # FILE_ROOT
    BY <2>1, <2>3 DEF Below
  <2> QED BY <2>2, <2>3
<1> QED BY <1>1

\* Handles stay on nodes that stay what they are.
LEMMA HandlesStay ==
    ASSUME NEW G, NEW H, G \subseteq H, NEW e \in Clients, HandleIn(e, G),
           \A a \in G : disk'[a].kind = disk[a].kind,
           UNCHANGED <<cwd, tmp>>, pc \in [Clients -> Steps],
           \/ pc' = pc
           \/ \E c \in Clients : pc[c] \in FileSteps /\ pc' = [pc EXCEPT ![c] = "done"]
    PROVE  HandleIn(e, H)'
BY DEF HandleIn, Live, CdSteps, FileSteps

LEMMA CreateBlocks ==
    ASSUME NEW G, RunsOn(G), NEW c \in Clients, NEW k \in NodeKinds, CreateNode(c, k), intact'
    PROVE  LET b == alloc.start
               p == cwd[c]
           IN  /\ pc[c] = "idle" /\ UNCHANGED <<pc, cwd, tmp, server>>
               /\ NewBlock(alloc, 0) = b /\ alloc'.start = b + 1
               /\ b \in Blocks \ G /\ b >= RESERVED_BLOCKS /\ \A a \in G : a < b
               /\ p \in G /\ p # b /\ disk[p].kind = "folder" /\ disk[p].ptrs \in Seq(Blocks)
               /\ disk'[b].kind = k /\ disk'[b].parent = p /\ disk'[b].ptrs = << >>
               /\ disk'[p].kind = "folder" /\ disk'[p].parent = disk[p].parent
               /\ disk'[p].ptrs = Append(disk[p].ptrs, b)
               /\ \A a \in Blocks \ {b, p} : disk'[a] = disk[a]
<1> DEFINE b == alloc.start
           p == cwd[c]
<1>1. alloc.len > 1 /\ NewBlock(alloc, 0) = b /\ alloc'.start = b + 1
  <2>1. ~Exhausts(alloc, 1) /\ alloc' = Rest(alloc, 1)
    BY DEF CreateNode
  <2>2. alloc.len \in Int /\ alloc.start \in Int /\ alloc.len >= 1
    BY AllocIs DEF RunsOn, TypeOK
  <2> QED BY <2>1, <2>2 DEF Exhausts, NewBlock, Rest
<1>2. PICK n \in Names :
         disk' = [disk EXCEPT ![b] = NewNode(k, n, p),
                              ![p] = [disk[p] EXCEPT !.ptrs = Append(@, b)]]
  BY <1>1 DEF CreateNode
<1>3. pc[c] = "idle" /\ UNCHANGED <<pc, cwd, tmp, server>>
  BY DEF CreateNode, Goto, RunsOn, TypeOK
<1>4. p \in G /\ disk[p].kind = "folder" /\ disk[p] \in Block /\ disk[p].ptrs \in Seq(Blocks)
  BY <1>3, IdleIn
<1>5. b \in Blocks /\ b \in Int /\ b >= RESERVED_BLOCKS
  BY AllocIs DEF RunsOn, TypeOK
<1>6. b \notin G /\ \A a \in G : a < b
  BY <1>5, NewIsOutside DEF RunsOn
<1>7. p \in Blocks /\ p # b /\ disk \in [Blocks -> Block]
  BY <1>4, <1>6 DEF RunsOn, TypeOK
<1>8. disk'[b] = NewNode(k, n, p)
  BY <1>2, <1>5, <1>7
<1>9. disk'[p] = [disk[p] EXCEPT !.ptrs = Append(disk[p].ptrs, b)]
  BY <1>2, <1>7
<1>10. \A a \in Blocks \ {b, p} : disk'[a] = disk[a]
  BY <1>2, <1>7
<1>11. disk'[p].ptrs = Append(disk[p].ptrs, b) /\ disk'[p].kind = disk[p].kind
       /\ disk'[p].parent = disk[p].parent
  BY <1>4, <1>9 DEF Block
<1>12. disk'[b].kind = k /\ disk'[b].parent = p /\ disk'[b].ptrs = << >>
  BY <1>8 DEF NewNode
<1> QED BY <1>1, <1>3, <1>4, <1>5, <1>6, <1>7, <1>10, <1>11, <1>12

LEMMA CreateRuns ==
    ASSUME NEW G, RunsOn(G), NEW c \in Clients, NEW k \in NodeKinds, CreateNode(c, k), intact'
    PROVE  \E H \in SUBSET Blocks : RunsOn(H)'
<1>0. PICK b, p : b = alloc.start /\ p = cwd[c]
  OBVIOUS
<1>1. /\ UNCHANGED <<pc, cwd, tmp>>
      /\ alloc'.start = b + 1
      /\ b \in Blocks \ G /\ b >= RESERVED_BLOCKS /\ \A a \in G : a < b
      /\ p \in G /\ p # b /\ disk[p].kind = "folder" /\ disk[p].ptrs \in Seq(Blocks)
      /\ disk'[b].kind = k /\ disk'[b].parent = p /\ disk'[b].ptrs = << >>
      /\ disk'[p].kind = "folder" /\ disk'[p].parent = disk[p].parent
      /\ disk'[p].ptrs = Append(disk[p].ptrs, b)
      /\ \A a \in Blocks \ {b, p} : disk'[a] = disk[a]
  BY <1>0, CreateBlocks
<1>2. TypeOK' /\ TypeOK
  BY CreateType DEF RunsOn
<1>3. G \subseteq Blocks /\ b \in Int
  BY <1>1, SizeAssumption DEF RunsOn, Blocks
<1>4. Trees(disk', G \cup {b})
  <2>1. Trees(disk, G) /\ p < b /\ \A a \in G \ {p} : disk'[a] = disk[a]
    BY <1>1, <1>3 DEF RunsOn
  <2> QED BY <1>1, <2>1, TreesCreate
<1>5. Below(G \cup {b}, alloc')
  <2>1. ASSUME NEW a \in G PROVE a \in Int /\ a < b
    BY <1>1, <1>3, SizeAssumption DEF Blocks
  <2>2. Below(G, alloc)
    BY DEF RunsOn
  <2> QED BY <1>1, <1>3, <2>1, <2>2 DEF Below
<1>6. ASSUME NEW e \in Clients PROVE HandleIn(e, G \cup {b})'
  <2>1. \A a \in G : disk'[a].kind = disk[a].kind
    BY <1>1, <1>3
  <2>2. pc \in [Clients -> Steps] /\ HandleIn(e, G)
    BY DEF RunsOn, TypeOK
  <2> QED BY <1>1, <2>1, <2>2, HandlesStay
<1>7. G \cup {b} \in SUBSET Blocks
  BY <1>1, <1>3
<1> QED BY <1>2, <1>4, <1>5, <1>6, <1>7 DEF RunsOn

\* Between two methods the sectors are the blocks.
Rested == /\ todo = << >> /\ platter = disk /\ extent = alloc /\ before = platter

\* Trees have no block of the allocator's, and data points nowhere.
LEMMA InTrees ==
    ASSUME NEW G, RunsOn(G), NEW a \in G
    PROVE  /\ a \in Blocks /\ a # ALLOC_ROOT /\ disk[a] \in Block
           /\ disk[a].kind = "data" => disk[a].ptrs = << >>
<1>1. a \in Blocks /\ disk[a] \in Block /\ disk[a].ptrs \in Seq(Blocks)
  BY DEF RunsOn, TypeOK, Block
<1>2. a # ALLOC_ROOT
  BY DEF RunsOn, Below, ALLOC_ROOT, FILE_ROOT, RESERVED_BLOCKS
<1>3. ASSUME disk[a].kind = "data" PROVE disk[a].ptrs = << >>
  <2>1. DOMAIN disk[a].ptrs = {}
    BY <1>3, TreesPoint DEF RunsOn, NodeKinds
  <2>2. DOMAIN disk[a].ptrs = 1 .. Len(disk[a].ptrs) /\ Len(disk[a].ptrs) \in Nat
    BY <1>1
  <2>3. 1 \notin 1 .. Len(disk[a].ptrs)
    BY <2>1, <2>2
  <2>4. Len(disk[a].ptrs) = 0
    BY <2>2, <2>3
  <2> QED BY <1>1, <2>4
<1> QED BY <1>1, <1>2, <1>3

Writes == [addr : Blocks, value : Block \cup [start : Blocks, len : Nat]]

LEMMA RootWrite ==
    ASSUME NEW e, ExtentOK(e)
    PROVE  Root(e) \in Writes /\ Root(e).addr = ALLOC_ROOT /\ Root(e).value = e
<1>1. ALLOC_ROOT \in Blocks
  BY SizeAssumption DEF Blocks, ALLOC_ROOT, RESERVED_BLOCKS
<1> QED BY <1>1 DEF Root, Writes, ExtentOK

LEMMA SectorWrite ==
    ASSUME TypeOK', NEW b \in Blocks
    PROVE  Sector(b) \in Writes /\ Sector(b).addr = b /\ Sector(b).value = disk'[b]
BY DEF Sector, Writes, TypeOK

\* A method that begins when the sectors are the blocks, and writes only blocks of
\* G and new ones, in an order that leaves the trees alone to the last
LEMMA WritingBegins ==
    ASSUME NEW G, RunsOn(G), Rested, UNCHANGED <<platter, extent, before>>,
           \A b \in G : \/ disk'[b] = disk[b]
                        \/ disk[b].kind = "folder" /\ disk'[b].kind = "folder",
           \A i \in 1 .. Len(todo') - 1 :
              IF IsRoot(i)' THEN /\ alloc.start <= todo'[i].value.start
                                 /\ \A j \in 1 .. i : IsRoot(j)' => todo'[j].value.start <= todo'[i].value.start
                            ELSE todo'[i].addr \notin G
    PROVE  Writing(G)'
<1> USE DEF Rested
<1>1. before' = disk /\ platter' = disk /\ extent' = alloc
  OBVIOUS
<1>2. Trees(before, G)' /\ Below(G, extent)'
  BY <1>1 DEF RunsOn
<1>3. ExtentOK(extent)'
  <2>1. ExtentOK(alloc)
    BY AllocIs DEF RunsOn, TypeOK
  <2> QED BY <1>1, <2>1 DEF ExtentOK
<1>4. \A b \in G : disk'[b].kind = disk[b].kind
  OBVIOUS
<1>5. ASSUME NEW b \in G
      PROVE  /\ disk'[b].kind = "data" => disk'[b].ptrs = << >>
             /\ disk'[b].kind = "file" => \A i \in DOMAIN disk'[b].ptrs : disk'[disk'[b].ptrs[i]].kind = "data"
             /\ disk[b].kind = "data" => disk'[b] = disk[b]
  <2>1. disk[b].kind = "data" => disk'[b] = disk[b] /\ disk[b].ptrs = << >>
    BY InTrees
  <2>2. ASSUME disk'[b].kind = "file", NEW i \in DOMAIN disk'[b].ptrs
        PROVE  disk'[disk'[b].ptrs[i]].kind = "data"
    <3>1. disk'[b] = disk[b]
      BY <2>2
    <3>2. disk[b].ptrs[i] \in G /\ disk[disk[b].ptrs[i]].kind = "data"
      BY <2>2, <3>1, TreesPoint DEF RunsOn
    <3> QED BY <1>4, <3>1, <3>2
  <2> QED BY <1>4, <2>1, <2>2
<1> QED BY <1>1, <1>2, <1>3, <1>4, <1>5 DEF Writing

LEMMA CreateTodo ==
    ASSUME NEW G, RunsOn(G), Rested, UNCHANGED <<platter, extent, before>>,
           NEW c \in Clients, NEW k \in NodeKinds, CreateNode(c, k), intact', todo' = CreateWrites(c)
    PROVE  TodoOK' /\ Writing(G)'
<1>0. PICK b, p : b = alloc.start /\ p = cwd[c]
  OBVIOUS
<1>1. /\ NewBlock(alloc, 0) = b /\ alloc'.start = b + 1
      /\ b \in Blocks \ G /\ b >= RESERVED_BLOCKS
      /\ p \in G /\ p # b /\ disk[p].kind = "folder"
      /\ disk'[p].kind = "folder"
      /\ \A a \in Blocks \ {b, p} : disk'[a] = disk[a]
  BY <1>0, CreateBlocks
<1>2. TypeOK'
  BY CreateType DEF RunsOn
<1>3. p \in Blocks /\ p # ALLOC_ROOT /\ b # ALLOC_ROOT /\ G \subseteq Blocks /\ b \in Int
  <2>1. p \in Blocks /\ p # ALLOC_ROOT
    BY <1>1, InTrees
  <2>2. b \in Int
    BY <1>1, SizeAssumption DEF Blocks
  <2>3. b # ALLOC_ROOT
    BY <1>1, <2>2 DEF ALLOC_ROOT, RESERVED_BLOCKS
  <2> QED BY <2>1, <2>2, <2>3 DEF RunsOn
<1>4. ExtentOK(alloc')
  BY <1>2 DEF TypeOK, AllocOK, ExtentOK
<1>5. todo' = <<Root(alloc'), Sector(b), Sector(p)>>
  BY <1>0, <1>1 DEF CreateWrites
<1>6. /\ Root(alloc') \in Writes /\ Sector(b) \in Writes /\ Sector(p) \in Writes
      /\ Root(alloc').addr = ALLOC_ROOT /\ Root(alloc').value = alloc'
      /\ Sector(b).addr = b /\ Sector(b).value = disk'[b]
      /\ Sector(p).addr = p /\ Sector(p).value = disk'[p]
  BY <1>1, <1>2, <1>3, <1>4, RootWrite, SectorWrite
<1>7. /\ todo' \in Seq(Writes) /\ Len(todo') = 3 /\ DOMAIN todo' = 1 .. 3
      /\ todo'[1].addr = ALLOC_ROOT /\ todo'[1].value = alloc'
      /\ todo'[2].addr = b /\ todo'[2].value = disk'[b]
      /\ todo'[3].addr = p /\ todo'[3].value = disk'[p]
      /\ todo' # << >>
  BY <1>5, <1>6
<1>8. TodoOK'
  <2>1. \A i \in DOMAIN todo' : IF IsRoot(i)' THEN ExtentOK(todo'[i].value)
                                              ELSE todo'[i].value = disk'[todo'[i].addr]
    BY <1>3, <1>4, <1>7 DEF IsRoot
  <2>2. ASSUME NEW a \in Blocks
        PROVE  platter'[a] = disk'[a] \/ \E i \in DOMAIN todo' : todo'[i].addr = a /\ ~IsRoot(i)'
    <3>1. CASE a \in {b, p}
      <4>1. 2 \in DOMAIN todo' /\ 3 \in DOMAIN todo'
        BY <1>7
      <4> QED BY <1>3, <1>7, <3>1, <4>1 DEF IsRoot
    <3>2. CASE a \notin {b, p}
      BY <1>1, <3>2 DEF Rested
    <3> QED BY <3>1, <3>2
  <2>3. 1 \in DOMAIN todo' /\ IsRoot(1)'
    BY <1>7 DEF IsRoot
  <2>4. \A i \in DOMAIN todo' : IsRoot(i)' => todo'[i].value = alloc'
    BY <1>3, <1>7 DEF IsRoot
  <2> QED BY <1>7, <2>1, <2>2, <2>3, <2>4 DEF TodoOK, Writes
<1>9. ASSUME NEW i \in 1 .. Len(todo') - 1
      PROVE  IF IsRoot(i)' THEN /\ alloc.start <= todo'[i].value.start
                                /\ \A j \in 1 .. i : IsRoot(j)' => todo'[j].value.start <= todo'[i].value.start
                           ELSE todo'[i].addr \notin G
  <2>1. i = 1 \/ i = 2
    BY <1>7
  <2>2. CASE i = 1
    <3>1. IsRoot(i)' /\ todo'[i].value.start = b + 1 /\ \A j \in 1 .. i : j = i
      BY <1>1, <1>7, <2>2 DEF IsRoot
    <3>2. b <= b + 1 /\ b + 1 <= b + 1
      BY <1>3
    <3> QED BY <1>0, <3>1, <3>2
  <2>3. CASE i = 2
    BY <1>1, <1>3, <1>7, <2>3 DEF IsRoot
  <2> QED BY <2>1, <2>2, <2>3
<1>10. \A a \in G : disk'[a] = disk[a] \/ (disk[a].kind = "folder" /\ disk'[a].kind = "folder")
  BY <1>1, <1>3
<1> QED BY <1>8, <1>9, <1>10, WritingBegins

LEMMA RemoveBlocks ==
    ASSUME NEW G, RunsOn(G), NEW c \in Clients, NEW k \in NodeKinds, RemoveNode(c, k)
    PROVE  LET p == cwd[c]
           IN  /\ UNCHANGED <<alloc, pc, cwd, tmp, server, intact>>
               /\ p \in G /\ disk[p].kind = "folder" /\ disk[p].ptrs \in Seq(Blocks)
               /\ \E x \in DOMAIN disk[p].ptrs :
                     /\ disk'[p].kind = "folder" /\ disk'[p].parent = disk[p].parent
                     /\ disk'[p].ptrs = RemoveAt(disk[p].ptrs, x)
               /\ \A a \in Blocks \ {p} : disk'[a] = disk[a]
<1> DEFINE p == cwd[c]
<1>1. PICK x \in DOMAIN disk[p].ptrs : disk' = [disk EXCEPT ![p].ptrs = RemoveAt(@, x)]
  BY DEF RemoveNode, FirstMatch, Matches
<1>2. pc[c] = "idle" /\ UNCHANGED <<alloc, pc, cwd, tmp, server, intact>>
  BY DEF RemoveNode, Goto, RunsOn, TypeOK
<1>3. p \in G /\ disk[p].kind = "folder" /\ disk[p] \in Block /\ disk[p].ptrs \in Seq(Blocks)
  BY <1>2, IdleIn
<1>4. p \in Blocks /\ disk \in [Blocks -> Block]
  BY <1>3 DEF RunsOn, TypeOK
<1>5. disk'[p] = [disk[p] EXCEPT !.ptrs = RemoveAt(disk[p].ptrs, x)]
      /\ \A a \in Blocks \ {p} : disk'[a] = disk[a]
  BY <1>1, <1>4
<1>6. disk'[p].kind = "folder" /\ disk'[p].parent = disk[p].parent
      /\ disk'[p].ptrs = RemoveAt(disk[p].ptrs, x)
  BY <1>3, <1>5 DEF Block
<1> QED BY <1>2, <1>3, <1>5, <1>6

LEMMA RemoveRuns ==
    ASSUME NEW G, RunsOn(G), NEW c \in Clients, NEW k \in NodeKinds, RemoveNode(c, k)
    PROVE  \E H \in SUBSET Blocks : RunsOn(H)'
<1>0. PICK p : p = cwd[c]
  OBVIOUS
<1>1. /\ UNCHANGED <<alloc, pc, cwd, tmp>>
      /\ p \in G /\ disk[p].kind = "folder" /\ disk[p].ptrs \in Seq(Blocks)
      /\ \A a \in Blocks \ {p} : disk'[a] = disk[a]
  BY <1>0, RemoveBlocks
<1>2. PICK x \in DOMAIN disk[p].ptrs :
         /\ disk'[p].kind = "folder" /\ disk'[p].parent = disk[p].parent
         /\ disk'[p].ptrs = RemoveAt(disk[p].ptrs, x)
  BY <1>0, RemoveBlocks
<1>3. TypeOK'
  BY RemoveType DEF RunsOn
<1>4. Trees(disk, G) /\ Below(G, alloc) /\ G \in SUBSET Blocks /\ pc \in [Clients -> Steps]
  BY DEF RunsOn, TypeOK
<1>5. Trees(disk', G)
  <2>1. \A a \in G \ {p} : disk'[a] = disk[a]
    BY <1>1, <1>4
  <2> QED BY <1>1, <1>2, <1>4, <2>1, TreesRemove
<1>6. Below(G, alloc')
  BY <1>1, <1>4
<1>7. ASSUME NEW e \in Clients PROVE HandleIn(e, G)'
  <2>1. \A a \in G : disk'[a].kind = disk[a].kind
    BY <1>1, <1>2, <1>4
  <2>2. HandleIn(e, G)
    BY DEF RunsOn
  <2> QED BY <1>1, <1>4, <2>1, <2>2, HandlesStay
<1> QED BY <1>3, <1>4, <1>5, <1>6, <1>7 DEF RunsOn

LEMMA RemoveTodo ==
    ASSUME NEW G, RunsOn(G), Rested, UNCHANGED <<platter, extent, before>>,
           NEW c \in Clients, NEW k \in NodeKinds, RemoveNode(c, k), todo' = RemoveWrites(c)
    PROVE  TodoOK' /\ Writing(G)'
<1>0. PICK p : p = cwd[c]
  OBVIOUS
<1>1. /\ UNCHANGED alloc
      /\ p \in G /\ disk[p].kind = "folder" /\ disk'[p].kind = "folder"
      /\ \A a \in Blocks \ {p} : disk'[a] = disk[a]
  BY <1>0, RemoveBlocks
<1>2. TypeOK'
  BY RemoveType DEF RunsOn
<1>3. p \in Blocks /\ p # ALLOC_ROOT /\ G \subseteq Blocks
  BY <1>1, InTrees DEF RunsOn
<1>4. todo' = <<Sector(p)>>
  BY <1>0 DEF RemoveWrites
<1>5. /\ Sector(p) \in Writes /\ Sector(p).addr = p /\ Sector(p).value = disk'[p]
  BY <1>2, <1>3, SectorWrite
<1>6. /\ todo' \in Seq(Writes) /\ Len(todo') = 1 /\ DOMAIN todo' = {1}
      /\ todo'[1].addr = p /\ todo'[1].value = disk'[p] /\ todo' # << >>
  BY <1>4, <1>5
<1>7. TodoOK'
  <2>1. \A i \in DOMAIN todo' : ~IsRoot(i)' /\ todo'[i].value = disk'[todo'[i].addr]
    BY <1>3, <1>6 DEF IsRoot
  <2>2. ASSUME NEW a \in Blocks
        PROVE  platter'[a] = disk'[a] \/ \E i \in DOMAIN todo' : todo'[i].addr = a /\ ~IsRoot(i)'
    <3>1. CASE a = p
      BY <1>6, <2>1, <3>1
    <3>2. CASE a # p
      BY <1>1, <3>2 DEF Rested
    <3> QED BY <3>1, <3>2
  <2>3. extent' = alloc'
    BY <1>1 DEF Rested
  <2> QED BY <1>6, <2>1, <2>2, <2>3 DEF TodoOK, Writes
<1>8. \A i \in 1 .. Len(todo') - 1 : FALSE
  BY <1>6
<1>9. \A a \in G : disk'[a] = disk[a] \/ (disk[a].kind = "folder" /\ disk'[a].kind = "folder")
  BY <1>1, <1>3
<1> QED BY <1>7, <1>8, <1>9, WritingBegins

\* write_all on file f of had blocks: it has n then, the first of them as before, and
\* k new ones from s on.
StoredFile(c, f, had, n) ==
    /\ f = tmp[c] /\ f \in Blocks
    /\ pc[c] \in FileSteps /\ pc' = [pc EXCEPT ![c] = "done"] /\ UNCHANGED <<cwd, tmp, server>>
    /\ disk[f].kind = "file"
    /\ had \in Nat /\ had = Len(disk[f].ptrs) /\ DOMAIN disk[f].ptrs = 1 .. had
    /\ n \in Nat /\ n = Len(disk'[f].ptrs) /\ DOMAIN disk'[f].ptrs = 1 .. n
    /\ disk'[f] = [disk[f] EXCEPT !.ptrs = disk'[f].ptrs]
    /\ disk'[f].kind = "file" /\ disk'[f].parent = disk[f].parent

StoredNumbers(s, had, n, k) ==
    /\ k \in Nat /\ k = IF n > had THEN n - had ELSE 0
    /\ s \in Nat /\ s >= RESERVED_BLOCKS /\ s = alloc.start
    /\ k = 0 \/ k < alloc.len
    /\ alloc' = Rest(alloc, k) /\ alloc'.start = s + k

StoredPlaces(G, f, s, had, n, k) ==
    /\ f \in G /\ (s .. s + k - 1) \cap G = {} /\ s .. s + k - 1 \subseteq Blocks
    /\ \A i \in 1 .. n : i <= had => /\ disk'[f].ptrs[i] = disk[f].ptrs[i]
                                     /\ disk[f].ptrs[i] \in G \ {FILE_ROOT}
                                     /\ disk[disk[f].ptrs[i]].kind = "data"
    /\ \A i \in 1 .. n : i > had => /\ disk'[f].ptrs[i] = s + (i - had - 1)
                                    /\ disk'[f].ptrs[i] \in s .. s + k - 1
    /\ \A b \in s .. s + k - 1 : \E i \in 1 .. n : disk'[f].ptrs[i] = b

StoredData(f, n) ==
    /\ \A i \in 1 .. n : /\ disk'[f].ptrs[i] \in Blocks /\ disk'[f].ptrs[i] # f
                         /\ disk'[disk'[f].ptrs[i]].kind = "data"
                         /\ disk'[disk'[f].ptrs[i]].ptrs = << >>
    /\ \A a \in Blocks \ {f} : \/ disk'[a] = disk[a]
                               \/ \E i \in 1 .. n : disk'[f].ptrs[i] = a

Stored(c, G, f, s, had, n, k) ==
    /\ StoredFile(c, f, had, n) /\ StoredNumbers(s, had, n, k)
    /\ StoredPlaces(G, f, s, had, n, k) /\ StoredData(f, n)

LEMMA StoreBlocks ==
    ASSUME NEW G, RunsOn(G), NEW c \in Clients, Store(c), intact'
    PROVE  \E f, s, had, n, k : Stored(c, G, f, s, had, n, k)
<1> DEFINE f == tmp[c]
           had == Len(disk[f].ptrs)
           More(m) == IF m > had THEN m - had ELSE 0
<1>1. PICK n \in 1 .. FileCapacity : \E new \in ToStore(c) :
         \E last \in [{Extents(f, n)[i] : i \in 1 .. n} -> 1 .. n] :
            /\ disk' = [b \in Blocks |->
                          IF b = f THEN [disk[f] EXCEPT !.ptrs = Extents(f, n)]
                          ELSE IF b \in DOMAIN last THEN DataBlock(new[last[b]])
                          ELSE disk[b]]
            /\ alloc' = Rest(alloc, More(n))
            /\ intact' = (intact /\ ~Exhausts(alloc, More(n)))
  BY DEF Store
<1> DEFINE E == Extents(f, n)
           Ext == {E[i] : i \in 1 .. n}
<1>2. PICK new, last :
            /\ DOMAIN last = Ext
            /\ disk' = [b \in Blocks |->
                          IF b = f THEN [disk[f] EXCEPT !.ptrs = E]
                          ELSE IF b \in DOMAIN last THEN DataBlock(new[last[b]])
                          ELSE disk[b]]
            /\ alloc' = Rest(alloc, More(n))
            /\ ~Exhausts(alloc, More(n))
  <2>1. PICK new \in ToStore(c), last \in [Ext -> 1 .. n] :
            /\ disk' = [b \in Blocks |->
                          IF b = f THEN [disk[f] EXCEPT !.ptrs = E]
                          ELSE IF b \in DOMAIN last THEN DataBlock(new[last[b]])
                          ELSE disk[b]]
            /\ alloc' = Rest(alloc, More(n))
            /\ intact' = (intact /\ ~Exhausts(alloc, More(n)))
    BY <1>1
  <2>2. ~Exhausts(alloc, More(n))
    BY <2>1
  <2>3. DOMAIN last = Ext
    OBVIOUS
  <2> QED BY <2>1, <2>2, <2>3
<1>3. /\ pc[c] \in FileSteps /\ UNCHANGED <<cwd, tmp, server>>
      /\ pc' = [pc EXCEPT ![c] = "done"]
  BY DEF Store, Goto, BeforeStore, FileSteps
<1>4. f \in G /\ f \in Blocks /\ disk[f].kind = "file"
  <2>1. f \in G /\ disk[f].kind = "file" /\ G \subseteq Blocks
    BY <1>3 DEF RunsOn, HandleIn
  <2> QED BY <2>1
<1>5. /\ disk[f] \in Block /\ disk[f].ptrs \in Seq(Blocks)
      /\ had \in Nat /\ n \in Nat /\ DOMAIN disk[f].ptrs = 1 .. had
  <2>1. disk[f] \in Block
    BY <1>4, InTrees
  <2>2. disk[f].ptrs \in Seq(Blocks)
    BY <2>1 DEF Block
  <2> QED BY <2>1, <2>2, CapacityAssumption
<1>6. ASSUME NEW i \in 1 .. had
      PROVE  disk[f].ptrs[i] \in G \ {FILE_ROOT} /\ disk[disk[f].ptrs[i]].kind = "data"
  <2>1. Trees(disk, G) /\ i \in DOMAIN disk[f].ptrs
    BY <1>5 DEF RunsOn
  <2> QED BY <1>4, <2>1, TreesPoint
\* The allocator moves past exactly the new extents.
<1> DEFINE s == alloc.start
           k == More(n)
<1>7. s \in Nat /\ alloc.len \in Nat /\ s >= RESERVED_BLOCKS /\ alloc.len >= 1 /\ s + alloc.len = MaxBlocks
  BY SizeAssumption DEF RunsOn, TypeOK, AllocOK, Blocks
<1> HIDE DEF had
<1>8. k \in Nat /\ (n > had => k = n - had) /\ (~(n > had) => k = 0)
  BY <1>5
<1>8a. k = IF n > had THEN n - had ELSE 0
  OBVIOUS
<1> HIDE DEF k
<1>9. alloc' = Rest(alloc, k) /\ alloc'.start = s + k /\ (k = 0 \/ k < alloc.len)
  <2>1. alloc' = Rest(alloc, k) /\ ~Exhausts(alloc, k)
    BY <1>2 DEF k
  <2>2. AllocOK
    BY DEF RunsOn, TypeOK
  <2> QED BY <1>8, <2>1, <2>2, ExtentMoves
<1> HIDE DEF s, More
<1>10. (s .. s + k - 1) \cap G = {} /\ s .. s + k - 1 \subseteq Blocks
  <2>1. ASSUME NEW b \in s .. s + k - 1 PROVE b \notin G /\ b \in Blocks
    <3>1. b \in Int /\ s <= b /\ b <= s + k - 1 /\ k > 0
      BY <1>7, <1>8
    <3>2. b >= RESERVED_BLOCKS /\ b < MaxBlocks
      BY <3>1, <1>7, <1>8, <1>9, SizeAssumption DEF RESERVED_BLOCKS
    <3>3. b \notin G
      <4>1. G \in SUBSET Blocks /\ Below(G, alloc) /\ alloc.start \in Int /\ b >= alloc.start
        BY <1>7, <3>1 DEF RunsOn, s
      <4> QED BY <3>1, <3>2, <4>1, NewIsOutside
    <3> QED BY <3>1, <3>2, <3>3, SizeAssumption DEF Blocks, RESERVED_BLOCKS
  <2> QED BY <2>1
<1>11. /\ DOMAIN E = 1 .. n /\ Len(E) = n
       /\ \A i \in 1 .. n : i <= had => E[i] = disk[f].ptrs[i]
       /\ \A i \in 1 .. n : i > had => E[i] = s + (i - had - 1) /\ E[i] \in s .. s + k - 1
  <2>1. DOMAIN E = 1 .. n /\ \A i \in 1 .. n : i <= had => E[i] = disk[f].ptrs[i]
    BY <1>5 DEF Extents, had
  <2>2. ASSUME NEW i \in 1 .. n, i > had
        PROVE  E[i] = s + (i - had - 1) /\ E[i] \in s .. s + k - 1
    <3>1. E[i] = NewBlock(alloc, i - had - 1)
      BY <2>2, <1>5 DEF Extents, had
    <3>2. k = n - had /\ i - had - 1 \in Nat /\ i - had - 1 < k /\ k < alloc.len
      BY <2>2, <1>5, <1>8, <1>9
    <3>3. E[i] = s + (i - had - 1)
      BY <3>1, <3>2, <1>7 DEF NewBlock, s
    <3>4. s + (i - had - 1) \in s .. s + k - 1
      BY <3>2, <1>5, <1>7
    <3> QED BY <3>3, <3>4
  <2>3. Len(E) = n
    BY <1>5 DEF Extents
  <2> QED BY <2>1, <2>2, <2>3
\* What the blocks hold then.
<1>12. ASSUME NEW i \in 1 .. n
       PROVE  E[i] \in Blocks /\ E[i] # f
  <2>1. i \in Int /\ had \in Int /\ G \subseteq Blocks
    BY <1>5 DEF RunsOn
  <2>2. CASE i <= had
    <3>1. E[i] \in G /\ disk[E[i]].kind = "data"
      BY <1>5, <1>6, <1>11, <2>1, <2>2
    <3> QED BY <1>4, <2>1, <3>1
  <2>3. CASE i > had
    BY <1>4, <1>10, <1>11, <2>3
  <2> QED BY <2>1, <2>2, <2>3
<1>14. ASSUME NEW b \in s .. s + k - 1 PROVE \E i \in 1 .. n : E[i] = b
  <2>1. b \in Int /\ s <= b /\ b <= s + k - 1 /\ k > 0
    BY <1>7, <1>8, <1>9
  <2>2. k = n - had
    BY <2>1, <1>5, <1>8, <1>9
  <2>3. b - s + had + 1 \in 1 .. n /\ b - s + had + 1 > had
    BY <2>1, <2>2, <1>5, <1>7
  <2>4. E[b - s + had + 1] = s + ((b - s + had + 1) - had - 1)
    BY <1>11, <2>3
  <2>5. E[b - s + had + 1] = b
    BY <2>1, <2>4, <1>5, <1>7
  <2> QED BY <2>3, <2>5
<1>15. \A x : DataBlock(x).kind = "data" /\ DataBlock(x).ptrs = << >>
  BY DEF DataBlock, Blank
<1>16. disk'[f] = [disk[f] EXCEPT !.ptrs = E]
  BY <1>2, <1>4
<1>17. /\ disk'[f].ptrs = E /\ disk'[f].kind = "file" /\ disk'[f].parent = disk[f].parent
  BY <1>4, <1>5, <1>16 DEF Block
<1>18. ASSUME NEW i \in 1 .. n PROVE disk'[E[i]].kind = "data" /\ disk'[E[i]].ptrs = << >>
  <2>1. E[i] \in Ext /\ E[i] \in Blocks /\ E[i] # f
    BY <1>12
  <2>2. disk'[E[i]] = DataBlock(new[last[E[i]]])
    BY <1>2, <2>1
  <2> QED BY <1>15, <2>2
<1>19. ASSUME NEW a \in Blocks \ {f} PROVE disk'[a] = disk[a] \/ \E i \in 1 .. n : E[i] = a
  BY <1>2
<1>20. \A i \in 1 .. n : i <= had => /\ E[i] = disk[f].ptrs[i]
                                     /\ disk[f].ptrs[i] \in G \ {FILE_ROOT}
                                     /\ disk[disk[f].ptrs[i]].kind = "data"
  BY <1>5, <1>6, <1>11
<1> HIDE DEF E, Ext
<1>21. StoredFile(c, f, had, n)
  BY <1>3, <1>4, <1>5, <1>11, <1>16, <1>17 DEF StoredFile, had
<1>22. StoredNumbers(s, had, n, k)
  BY <1>7, <1>8, <1>8a, <1>9 DEF StoredNumbers, s
<1>23. StoredPlaces(G, f, s, had, n, k)
  BY <1>4, <1>10, <1>11, <1>14, <1>17, <1>20 DEF StoredPlaces
<1>24. StoredData(f, n)
  BY <1>12, <1>17, <1>18, <1>19 DEF StoredData
<1> HIDE DEF f
<1> QED BY <1>21, <1>22, <1>23, <1>24 DEF Stored

\* Of the nodes in the trees it changes but the pointers of the file.
LEMMA StoreKeeps ==
    ASSUME NEW G, RunsOn(G), NEW c, NEW f, NEW s, NEW had, NEW n, NEW k,
           StoredFile(c, f, had, n), StoredPlaces(G, f, s, had, n, k), StoredData(f, n),
           NEW a \in G
    PROVE  /\ disk'[a].kind = disk[a].kind
           /\ disk[a].kind \in NodeKinds => disk'[a].parent = disk[a].parent
           /\ a # f => disk'[a].ptrs = disk[a].ptrs
           /\ \/ disk'[a] = disk[a]
              \/ a = f
              \/ \E i \in 1 .. n : i <= had /\ disk[f].ptrs[i] = a
<1>1. CASE a = f
  BY <1>1 DEF StoredFile
<1>2. CASE a # f /\ disk'[a] = disk[a]
  BY <1>2
<1>3. CASE \E i \in 1 .. n : disk'[f].ptrs[i] = a
  <2>1. PICK i \in 1 .. n : disk'[f].ptrs[i] = a
    BY <1>3
  <2>2. i <= had
    <3>1. i > had => a \in s .. s + k - 1
      BY <2>1 DEF StoredPlaces
    <3>2. a \notin s .. s + k - 1 /\ i \in Int /\ had \in Int
      BY DEF StoredPlaces, StoredFile
    <3> QED BY <3>1, <3>2
  <2>3. disk[a].kind = "data" /\ disk'[a].kind = "data" /\ disk'[a].ptrs = << >>
        /\ disk[f].ptrs[i] = a
    BY <2>1, <2>2 DEF StoredPlaces, StoredData
  <2>4. disk[a].ptrs = << >>
    BY <2>3, InTrees
  <2> QED BY <2>2, <2>3, <2>4 DEF NodeKinds
<1>4. a \in Blocks
  BY DEF RunsOn
<1> QED BY <1>1, <1>2, <1>3, <1>4 DEF StoredData

LEMMA StoreRuns ==
    ASSUME NEW G, RunsOn(G), NEW c \in Clients, Store(c), intact'
    PROVE  \E H \in SUBSET Blocks : RunsOn(H)'
<1>1. PICK f, s, had, n, k :
         /\ StoredFile(c, f, had, n) /\ StoredNumbers(s, had, n, k)
         /\ StoredPlaces(G, f, s, had, n, k) /\ StoredData(f, n)
  BY StoreBlocks DEF Stored
<1> DEFINE New == s .. s + k - 1
<1>2. TypeOK' /\ Trees(disk, G) /\ Below(G, alloc) /\ G \subseteq Blocks /\ pc \in [Clients -> Steps]
  BY StoreType DEF RunsOn, TypeOK
<1>3. ASSUME NEW a \in G
      PROVE  /\ disk'[a].kind = disk[a].kind
             /\ disk[a].kind \in NodeKinds => disk'[a].parent = disk[a].parent
             /\ a # f => disk'[a].ptrs = disk[a].ptrs
  BY <1>1, StoreKeeps
<1>4. \A b \in New : disk'[b].kind = "data" /\ disk'[b].ptrs = << >>
  <2>1. ASSUME NEW b \in New PROVE disk'[b].kind = "data" /\ disk'[b].ptrs = << >>
    <3>1. PICK i \in 1 .. n : disk'[f].ptrs[i] = b
      BY <1>1 DEF StoredPlaces
    <3> QED BY <1>1, <3>1 DEF StoredData
  <2> QED BY <2>1
<1>5. ASSUME NEW i \in DOMAIN disk'[f].ptrs
      PROVE  /\ i \in Int
             /\ \/ i \in DOMAIN disk[f].ptrs /\ disk'[f].ptrs[i] = disk[f].ptrs[i]
                \/ disk'[f].ptrs[i] = s + (i - had - 1) /\ disk'[f].ptrs[i] \in New
  <2>1. i \in 1 .. n /\ had \in Int /\ n \in Int /\ DOMAIN disk[f].ptrs = 1 .. had
    BY <1>1 DEF StoredFile
  <2>2. CASE i <= had
    <3>1. i \in 1 .. had /\ i \in Int
      BY <2>1, <2>2
    <3> QED BY <1>1, <2>1, <2>2, <3>1 DEF StoredPlaces
  <2>3. CASE i > had
    BY <1>1, <2>1, <2>3 DEF StoredPlaces
  <2> QED BY <2>1, <2>2, <2>3
<1>6. Trees(disk', G \cup New)
  <2>1. disk[f].kind = "file"
    BY <1>1 DEF StoredFile
  <2>3. f \in G /\ New \cap G = {}
    BY <1>1 DEF StoredPlaces
  <2> HIDE DEF New
  <2>4. \A a \in G : /\ disk'[a].kind = disk[a].kind
                     /\ disk[a].kind \in NodeKinds => disk'[a].parent = disk[a].parent
                     /\ a # f => disk'[a].ptrs = disk[a].ptrs
    BY <1>3
  <2>5. \A i \in DOMAIN disk'[f].ptrs :
           \/ i \in DOMAIN disk[f].ptrs /\ disk'[f].ptrs[i] = disk[f].ptrs[i]
           \/ disk'[f].ptrs[i] \in New
    BY <1>5
  <2>6. ASSUME NEW i \in DOMAIN disk'[f].ptrs, NEW j \in DOMAIN disk'[f].ptrs,
               disk'[f].ptrs[i] = disk'[f].ptrs[j]
        PROVE  i = j
    <3>1. s \in Int /\ had \in Int /\ i \in Int /\ j \in Int
      BY <1>1, <1>5 DEF StoredNumbers, StoredFile
    <3>2. \A m \in DOMAIN disk[f].ptrs : disk[f].ptrs[m] \notin New
      BY <1>2, <2>3, TreesPoint
    <3>3. CASE disk'[f].ptrs[i] \in New
      <4>1. s + (i - had - 1) = s + (j - had - 1)
        BY <1>5, <2>6, <3>2, <3>3
      <4> QED BY <3>1, <4>1
    <3>4. CASE disk'[f].ptrs[i] \notin New
      <4>1. /\ i \in DOMAIN disk[f].ptrs /\ j \in DOMAIN disk[f].ptrs
            /\ disk[f].ptrs[i] = disk[f].ptrs[j]
        BY <1>5, <2>6, <3>4
      <4> QED BY <1>2, <2>3, <4>1, TreesOnce
    <3> QED BY <3>3, <3>4
  <2>7. \A i, j \in DOMAIN disk'[f].ptrs : disk'[f].ptrs[i] = disk'[f].ptrs[j] => i = j
    BY <2>6
  <2>8. Trees(disk, G)
    BY <1>2
  <2>9. Extended(disk, disk', G, f, New)
    BY <1>4, <2>1, <2>3, <2>4, <2>5, <2>7 DEF Extended
  <2> QED BY <2>8, <2>9, TreesStore
<1>7. Below(G \cup New, alloc')
  <2>1. alloc'.start = s + k /\ s \in Int /\ k \in Int /\ s >= RESERVED_BLOCKS /\ k >= 0
        /\ alloc.start = s
    BY <1>1 DEF StoredNumbers
  <2>2. \A a \in G : a \in Int
    BY <1>2, SizeAssumption DEF Blocks
  <2>3. ASSUME NEW a \in G \ {FILE_ROOT} PROVE RESERVED_BLOCKS <= a /\ a < s + k
    <3>1. RESERVED_BLOCKS <= a /\ a < s /\ a \in Int
      BY <1>2, <2>1, <2>2 DEF Below
    <3> QED BY <2>1, <3>1
  <2>4. ASSUME NEW a \in New PROVE RESERVED_BLOCKS <= a /\ a < s + k
    BY <2>1 DEF RESERVED_BLOCKS
  <2> HIDE DEF New
  <2> QED BY <2>1, <2>3, <2>4 DEF Below
<1>8. ASSUME NEW e \in Clients PROVE HandleIn(e, G \cup New)'
  <2>1. UNCHANGED <<cwd, tmp>> /\ pc[c] \in FileSteps /\ pc' = [pc EXCEPT ![c] = "done"]
    BY <1>1 DEF StoredFile
  <2>2. HandleIn(e, G)
    BY DEF RunsOn
  <2>3. \A a \in G : disk'[a].kind = disk[a].kind
    BY <1>3
  <2> HIDE DEF New
  <2> QED BY <1>2, <2>1, <2>2, <2>3, HandlesStay
<1>9. New \subseteq Blocks
  BY <1>1 DEF StoredPlaces
<1> HIDE DEF New
<1>10. G \cup New \in SUBSET Blocks
  BY <1>2, <1>9
<1>11. PICK H : H = G \cup New
  OBVIOUS
<1> QED BY <1>2, <1>6, <1>7, <1>8, <1>10, <1>11 DEF RunsOn

\* What is left of an extent after k blocks
LEMMA RestExtent ==
    ASSUME AllocOK, NEW k \in Nat, k = 0 \/ k < alloc.len
    PROVE  /\ ExtentOK(Rest(alloc, k)) /\ Rest(alloc, k).start = alloc.start + k
           /\ k = 0 => Rest(alloc, k) = alloc
<1>1. /\ alloc.start \in Int /\ alloc.len \in Int /\ alloc.start >= RESERVED_BLOCKS
      /\ alloc.len >= 1 /\ alloc.start + alloc.len = MaxBlocks /\ MaxBlocks \in Nat
      /\ alloc = [start |-> alloc.start, len |-> alloc.len]
  BY AllocIs, SizeAssumption DEF AllocOK
<1>2. NewBlock(alloc, k) = alloc.start + k
  BY <1>1 DEF NewBlock
<1>3. Rest(alloc, k) = [start |-> alloc.start + k, len |-> alloc.len - k]
  BY <1>1, <1>2 DEF Rest
<1>4. alloc.start + k \in Blocks /\ alloc.len - k \in Nat /\ alloc.len - k >= 1
      /\ alloc.start + k >= RESERVED_BLOCKS /\ (alloc.start + k) + (alloc.len - k) = MaxBlocks
  BY <1>1 DEF Blocks, RESERVED_BLOCKS
<1>5. k = 0 => Rest(alloc, k) = alloc
  BY <1>1, <1>3
<1> QED BY <1>3, <1>4, <1>5 DEF ExtentOK

\* List t of elements of S is A of length k, then B of length n, then x.
InThree(t, S, A, k, B, n, x) ==
    /\ t \in Seq(S) /\ Len(t) = k + n + 1 /\ DOMAIN t = 1 .. k + n + 1
    /\ \A i \in 1 .. k : t[i] = A[i]
    /\ \A i \in 1 .. n : t[k + i] = B[i]
    /\ t[k + n + 1] = x

LEMMA InThreeParts ==
    ASSUME NEW S, NEW A \in Seq(S), NEW B \in Seq(S), NEW x \in S
    PROVE  InThree(A \o B \o <<x>>, S, A, Len(A), B, Len(B), x)
<1>1. PICK k, n : k = Len(A) /\ n = Len(B)
  OBVIOUS
<1>2. k \in Nat /\ n \in Nat
  BY <1>1
<1>3. PICK q, z : q = A \o B /\ z = <<x>>
  OBVIOUS
<1>4. /\ q \in Seq(S) /\ Len(q) = k + n
      /\ \A i \in 1 .. k + n : q[i] = IF i <= k THEN A[i] ELSE B[i - k]
  BY <1>1, <1>3, ConcatProperties
<1>5. PICK t : t = q \o z
  OBVIOUS
<1>6. z \in Seq(S) /\ Len(z) = 1 /\ z[1] = x
  BY <1>3
<1>7. /\ t \in Seq(S) /\ Len(t) = k + n + 1
      /\ \A i \in 1 .. k + n + 1 : t[i] = IF i <= k + n THEN q[i] ELSE z[i - (k + n)]
  <2>1. /\ t \in Seq(S) /\ Len(t) = Len(q) + Len(z)
        /\ \A i \in 1 .. Len(q) + Len(z) : t[i] = IF i <= Len(q) THEN q[i] ELSE z[i - Len(q)]
    BY <1>4, <1>5, <1>6, ConcatProperties
  <2>2. Len(q) = k + n /\ Len(z) = 1
    BY <1>4, <1>6
  <2> QED BY <2>1, <2>2
<1>8. DOMAIN t = 1 .. k + n + 1
  BY <1>7
<1>9. ASSUME NEW i \in 1 .. k PROVE t[i] = A[i]
  <2>1. i \in 1 .. k + n + 1 /\ i <= k + n /\ i \in 1 .. k + n /\ i <= k
    BY <1>2
  <2> QED BY <1>4, <1>7, <2>1
<1>10. ASSUME NEW i \in 1 .. n PROVE t[k + i] = B[i]
  <2>1. k + i \in 1 .. k + n + 1 /\ k + i <= k + n /\ k + i \in 1 .. k + n /\ ~(k + i <= k)
        /\ (k + i) - k = i
    BY <1>2
  <2>2. t[k + i] = q[k + i]
    BY <1>7, <2>1
  <2>3. q[k + i] = B[(k + i) - k]
    BY <1>4, <2>1
  <2> QED BY <2>1, <2>2, <2>3
<1>11. t[k + n + 1] = x
  <2>1. k + n + 1 \in 1 .. k + n + 1 /\ ~(k + n + 1 <= k + n) /\ (k + n + 1) - (k + n) = 1
    BY <1>2
  <2> QED BY <1>6, <1>7, <2>1
<1>12. t = A \o B \o <<x>>
  BY <1>3, <1>5
<1>13. InThree(t, S, A, k, B, n, x)
  BY <1>7, <1>8, <1>9, <1>10, <1>11 DEF InThree
<1> QED BY <1>1, <1>12, <1>13

\* The roots of write_all come first, then the data, then the node.
LEMMA StoreList ==
    ASSUME NEW G, RunsOn(G), NEW c \in Clients, Store(c), todo' = StoreWrites(c),
           NEW f, NEW s, NEW had, NEW n, NEW k,
           StoredFile(c, f, had, n), StoredNumbers(s, had, n, k),
           StoredPlaces(G, f, s, had, n, k), StoredData(f, n)
    PROVE  /\ todo' \in Seq(Writes) /\ Len(todo') = k + n + 1 /\ DOMAIN todo' = 1 .. k + n + 1
           /\ todo' # << >>
           /\ \A i \in 1 .. k : /\ IsRoot(i)' /\ ExtentOK(todo'[i].value)
                                /\ todo'[i].value = Rest(alloc, i)
                                /\ todo'[i].value.start = s + i
           /\ \A i \in 1 .. n : /\ ~IsRoot(k + i)' /\ todo'[k + i].addr = disk'[f].ptrs[i]
                                /\ todo'[k + i].value = disk'[disk'[f].ptrs[i]]
           /\ ~IsRoot(k + n + 1)' /\ todo'[k + n + 1].addr = f /\ todo'[k + n + 1].value = disk'[f]
<1>0. /\ f \in Blocks /\ DOMAIN disk'[f].ptrs = 1 .. n /\ n = Len(disk'[f].ptrs)
      /\ had = Len(disk[f].ptrs) /\ f = tmp[c]
      /\ k = IF n > had THEN n - had ELSE 0
      /\ s = alloc.start /\ s >= RESERVED_BLOCKS /\ (k = 0 \/ k < alloc.len)
  BY DEF StoredFile, StoredNumbers
<1>1. n \in Nat /\ had \in Nat /\ k \in Nat /\ s \in Nat
  BY DEF StoredFile, StoredNumbers
<1>2. 1 .. n - had = 1 .. k
  <2>1. k = IF n > had THEN n - had ELSE 0
    BY <1>0
  <2> QED BY <1>1, <2>1
<1>3. PICK R, D : /\ R = [i \in 1 .. k |-> Root(Rest(alloc, i))]
                  /\ D = [i \in 1 .. n |-> Sector(disk'[f].ptrs[i])]
  OBVIOUS
<1>4. todo' = R \o D \o <<Sector(f)>>
  BY <1>0, <1>2, <1>3 DEF StoreWrites
<1>5. ASSUME NEW i \in 1 .. k
      PROVE  /\ Root(Rest(alloc, i)) \in Writes /\ Root(Rest(alloc, i)).addr = ALLOC_ROOT
             /\ Root(Rest(alloc, i)).value = Rest(alloc, i)
             /\ ExtentOK(Rest(alloc, i)) /\ Rest(alloc, i).start = s + i
  <2>1. i \in Nat /\ i < alloc.len /\ AllocOK
    <3>1. AllocOK
      BY DEF RunsOn, TypeOK
    <3>2. alloc.len \in Int /\ (k = 0 \/ k < alloc.len)
      BY <1>0, <3>1, AllocIs
    <3> QED BY <1>1, <3>1, <3>2
  <2>2. ExtentOK(Rest(alloc, i)) /\ Rest(alloc, i).start = s + i
    BY <1>0, <2>1, RestExtent
  <2> QED BY <2>2, RootWrite
<1>6. TypeOK'
  BY StoreType DEF RunsOn
<1>7. ASSUME NEW i \in 1 .. n
      PROVE  /\ Sector(disk'[f].ptrs[i]) \in Writes
             /\ Sector(disk'[f].ptrs[i]).addr = disk'[f].ptrs[i] /\ disk'[f].ptrs[i] # ALLOC_ROOT
             /\ Sector(disk'[f].ptrs[i]).value = disk'[disk'[f].ptrs[i]]
  <2>1. PICK b : b = disk'[f].ptrs[i]
    OBVIOUS
  <2>2. b \in Blocks
    BY <2>1 DEF StoredData
  <2>3. b # ALLOC_ROOT
    <3>1. CASE i <= had
      <4>1. b \in G
        BY <2>1, <3>1 DEF StoredPlaces
      <4> QED BY <4>1, InTrees
    <3>2. CASE i > had
      <4>1. b \in s .. s + k - 1
        BY <2>1, <3>2 DEF StoredPlaces
      <4>2. s >= RESERVED_BLOCKS
        BY <1>0
      <4> QED BY <1>1, <4>1, <4>2 DEF ALLOC_ROOT, RESERVED_BLOCKS
    <3> QED BY <1>1, <3>1, <3>2
  <2>4. Sector(b) \in Writes /\ Sector(b).addr = b /\ Sector(b).value = disk'[b]
    BY <1>6, <2>2, SectorWrite
  <2> QED BY <2>1, <2>3, <2>4 DEF Sector
<1>8. /\ Sector(f) \in Writes /\ Sector(f).addr = f /\ Sector(f).value = disk'[f]
      /\ f # ALLOC_ROOT
  <2>1. f # ALLOC_ROOT
    BY InTrees DEF StoredPlaces
  <2> QED BY <1>0, <1>6, <2>1, SectorWrite
<1>9. /\ R \in Seq(Writes) /\ Len(R) = k /\ \A i \in 1 .. k : R[i] = Root(Rest(alloc, i))
      /\ D \in Seq(Writes) /\ Len(D) = n /\ \A i \in 1 .. n : D[i] = Sector(disk'[f].ptrs[i])
  <2>3. \A i \in 1 .. k : Root(Rest(alloc, i)) \in Writes
    BY <1>5
  <2>4. \A i \in 1 .. n : Sector(disk'[f].ptrs[i]) \in Writes
    BY <1>7
  <2>1. R \in Seq(Writes) /\ Len(R) = k /\ \A i \in 1 .. k : R[i] = Root(Rest(alloc, i))
    BY <1>1, <1>3, <2>3
  <2>2. D \in Seq(Writes) /\ Len(D) = n /\ \A i \in 1 .. n : D[i] = Sector(disk'[f].ptrs[i])
    BY <1>1, <1>3, <2>4
  <2> QED BY <2>1, <2>2
<1>10. /\ todo' \in Seq(Writes) /\ Len(todo') = k + n + 1 /\ DOMAIN todo' = 1 .. k + n + 1
       /\ \A i \in 1 .. k : todo'[i] = R[i]
       /\ \A i \in 1 .. n : todo'[k + i] = D[i]
       /\ todo'[k + n + 1] = Sector(f)
  <2>1. PICK w : w = Sector(f)
    OBVIOUS
  <2>2. w \in Writes
    BY <1>8, <2>1
  <2>3. R \in Seq(Writes) /\ D \in Seq(Writes)
    BY <1>9
  <2>4. InThree(R \o D \o <<w>>, Writes, R, Len(R), D, Len(D), w)
    BY <2>2, <2>3, InThreeParts
  <2>5. InThree(todo', Writes, R, k, D, n, w)
    BY <1>4, <1>9, <2>1, <2>4
  <2> QED BY <2>1, <2>5 DEF InThree
<1>11. \A i \in 1 .. k : /\ IsRoot(i)' /\ ExtentOK(todo'[i].value)
                         /\ todo'[i].value = Rest(alloc, i)
                         /\ todo'[i].value.start = s + i
  BY <1>5, <1>9, <1>10 DEF IsRoot
<1>12. \A i \in 1 .. n : /\ ~IsRoot(k + i)' /\ todo'[k + i].addr = disk'[f].ptrs[i]
                         /\ todo'[k + i].value = disk'[disk'[f].ptrs[i]]
  BY <1>7, <1>9, <1>10 DEF IsRoot
<1>13. ~IsRoot(k + n + 1)' /\ todo'[k + n + 1].addr = f /\ todo'[k + n + 1].value = disk'[f]
  BY <1>8, <1>9, <1>10 DEF IsRoot
<1>14. todo' # << >>
  BY <1>1, <1>10
<1> QED BY <1>10, <1>11, <1>12, <1>13, <1>14

\* The place of a write in such a list
LEMMA StorePlace ==
    ASSUME NEW k \in Nat, NEW n \in Nat, NEW m \in 1 .. k + n + 1
    PROVE  m \in 1 .. k \/ (\E i \in 1 .. n : m = k + i) \/ m = k + n + 1
<1>1. CASE m <= k
  BY <1>1
<1>2. CASE m > k /\ m <= k + n
  <2>1. m - k \in 1 .. n /\ m = k + (m - k)
    BY <1>2
  <2> QED BY <2>1
<1>3. CASE m > k + n
  BY <1>3
<1> QED BY <1>1, <1>2, <1>3

LEMMA StoreTodo ==
    ASSUME NEW G, RunsOn(G), Rested, UNCHANGED <<platter, extent, before>>,
           NEW c \in Clients, Store(c), todo' = StoreWrites(c), intact'
    PROVE  TodoOK'
<1>1. PICK f, s, had, n, k :
         /\ StoredFile(c, f, had, n) /\ StoredNumbers(s, had, n, k)
         /\ StoredPlaces(G, f, s, had, n, k) /\ StoredData(f, n)
  BY StoreBlocks DEF Stored
<1>2. n \in Nat /\ k \in Nat
  BY <1>1 DEF StoredFile, StoredNumbers
<1>3. /\ todo' \in Seq(Writes) /\ DOMAIN todo' = 1 .. k + n + 1 /\ todo' # << >>
      /\ \A i \in 1 .. k : /\ IsRoot(i)' /\ ExtentOK(todo'[i].value)
                           /\ todo'[i].value = Rest(alloc, i)
      /\ \A i \in 1 .. n : /\ ~IsRoot(k + i)' /\ todo'[k + i].addr = disk'[f].ptrs[i]
                           /\ todo'[k + i].value = disk'[disk'[f].ptrs[i]]
      /\ ~IsRoot(k + n + 1)' /\ todo'[k + n + 1].addr = f /\ todo'[k + n + 1].value = disk'[f]
  BY <1>1, StoreList
<1>4. ASSUME NEW m \in DOMAIN todo'
      PROVE  \/ m \in 1 .. k
             \/ ~IsRoot(m)' /\ todo'[m].value = disk'[todo'[m].addr]
  <2>1. m \in 1 .. k \/ (\E i \in 1 .. n : m = k + i) \/ m = k + n + 1
    <3>1. m \in 1 .. k + n + 1
      BY <1>3
    <3> QED BY <1>2, <3>1, StorePlace
  <2>2. CASE \E i \in 1 .. n : m = k + i
    BY <1>3, <2>2
  <2> QED BY <1>3, <2>1, <2>2
<1>5. \A m \in DOMAIN todo' : IF IsRoot(m)' THEN ExtentOK(todo'[m].value)
                                            ELSE todo'[m].value = disk'[todo'[m].addr]
  BY <1>3, <1>4
<1>6. ASSUME NEW a \in Blocks
      PROVE  platter'[a] = disk'[a] \/ \E i \in DOMAIN todo' : todo'[i].addr = a /\ ~IsRoot(i)'
  <2>1. CASE a = f
    <3>1. k + n + 1 \in DOMAIN todo'
      BY <1>2, <1>3
    <3> QED BY <1>3, <2>1, <3>1
  <2>2. CASE \E i \in 1 .. n : disk'[f].ptrs[i] = a
    <3>1. PICK i \in 1 .. n : disk'[f].ptrs[i] = a
      BY <2>2
    <3>2. k + i \in 1 .. k + n + 1
      BY <1>2
    <3> QED BY <1>3, <3>1, <3>2
  <2>3. CASE a # f /\ disk'[a] = disk[a]
    BY <2>3 DEF Rested
  <2> QED BY <1>1, <2>1, <2>2, <2>3 DEF StoredData
<1>7. extent' = alloc' \/ \E i \in DOMAIN todo' : IsRoot(i)'
  <2>1. CASE k = 0
    <3>1. alloc' = Rest(alloc, k)
      BY <1>1 DEF StoredNumbers
    <3>2. Rest(alloc, k) = alloc
      BY <2>1, RestExtent DEF RunsOn, TypeOK
    <3> QED BY <3>1, <3>2 DEF Rested
  <2>2. CASE k # 0
    <3>1. 1 \in 1 .. k /\ 1 \in 1 .. k + n + 1
      BY <1>2, <2>2
    <3> QED BY <1>3, <3>1
  <2> QED BY <2>1, <2>2
<1>8. ASSUME NEW i \in DOMAIN todo', IsRoot(i)', \A j \in DOMAIN todo' : IsRoot(j)' => j <= i
      PROVE  todo'[i].value = alloc'
  <2>1. i \in 1 .. k
    BY <1>4, <1>8
  <2>2. k \in 1 .. k /\ k \in 1 .. k + n + 1
    BY <1>2, <2>1
  <2>3. k <= i
    BY <1>3, <1>8, <2>2
  <2>4. i = k
    BY <1>2, <2>1, <2>3
  <2>5. alloc' = Rest(alloc, k)
    BY <1>1 DEF StoredNumbers
  <2> QED BY <1>3, <2>1, <2>4, <2>5
<1> QED BY <1>3, <1>5, <1>6, <1>7, <1>8 DEF TodoOK, Writes

LEMMA StoreWriting ==
    ASSUME NEW G, RunsOn(G), Rested, UNCHANGED <<platter, extent, before>>,
           NEW c \in Clients, Store(c), todo' = StoreWrites(c), intact'
    PROVE  Writing(G)'
<1>1. PICK f, s, had, n, k :
         /\ StoredFile(c, f, had, n) /\ StoredNumbers(s, had, n, k)
         /\ StoredPlaces(G, f, s, had, n, k) /\ StoredData(f, n)
  BY StoreBlocks DEF Stored
<1>2. n \in Nat /\ k \in Nat /\ s \in Nat /\ had \in Nat /\ alloc.start = s
  BY <1>1 DEF StoredFile, StoredNumbers
<1>3. /\ Len(todo') = k + n + 1
      /\ \A i \in 1 .. k : IsRoot(i)' /\ todo'[i].value.start = s + i
      /\ \A i \in 1 .. n : ~IsRoot(k + i)' /\ todo'[k + i].addr = disk'[f].ptrs[i]
  BY <1>1, StoreList
<1>4. before' = disk /\ platter' = disk /\ extent' = alloc
  BY DEF Rested
<1>5. Trees(before, G)' /\ Below(G, extent)'
  BY <1>4 DEF RunsOn
<1>6. ExtentOK(extent)'
  <2>1. ExtentOK(alloc)
    BY AllocIs DEF RunsOn, TypeOK
  <2> QED BY <1>4, <2>1 DEF ExtentOK
<1>7. ASSUME NEW a \in G
      PROVE  /\ disk'[a].kind = disk[a].kind
             /\ a # f => disk'[a].ptrs = disk[a].ptrs
             /\ \/ disk'[a] = disk[a]
                \/ a = f
                \/ \E i \in 1 .. n : i <= had /\ disk[f].ptrs[i] = a
  BY <1>1, StoreKeeps
<1>8. f \in G /\ disk[f].kind = "file" /\ disk'[f].kind = "file"
      /\ DOMAIN disk[f].ptrs = 1 .. had /\ DOMAIN disk'[f].ptrs = 1 .. n
      /\ disk'[f] = [disk[f] EXCEPT !.ptrs = disk'[f].ptrs]
  BY <1>1 DEF StoredFile, StoredPlaces
<1>9. ASSUME NEW a \in G
      PROVE  /\ disk'[a].kind = "data" => disk'[a].ptrs = << >>
             /\ disk'[a].kind = "file" => \A i \in DOMAIN disk'[a].ptrs : disk'[disk'[a].ptrs[i]].kind = "data"
  <2>1. CASE a = f
    BY <1>1, <1>8, <2>1 DEF StoredData
  <2>2. CASE a # f
    <3>1. disk'[a].ptrs = disk[a].ptrs /\ disk'[a].kind = disk[a].kind
      BY <1>7, <2>2
    <3>2. disk[a].kind = "data" => disk[a].ptrs = << >>
      BY InTrees
    <3>3. ASSUME disk[a].kind = "file", NEW i \in DOMAIN disk[a].ptrs
          PROVE  disk'[disk[a].ptrs[i]].kind = "data"
      <4>1. disk[a].ptrs[i] \in G /\ disk[disk[a].ptrs[i]].kind = "data"
        BY <3>3, TreesPoint DEF RunsOn
      <4> QED BY <1>7, <4>1
    <3> QED BY <3>1, <3>2, <3>3
  <2> QED BY <2>1, <2>2
<1>10. ASSUME NEW m \in 1 .. Len(todo') - 1
       PROVE  IF IsRoot(m)' THEN /\ alloc.start <= todo'[m].value.start
                                 /\ \A j \in 1 .. m : IsRoot(j)' => todo'[j].value.start <= todo'[m].value.start
                            ELSE todo'[m].addr \notin G \/ disk[todo'[m].addr].kind = "data"
  <2>1. m \in 1 .. k \/ \E i \in 1 .. n : m = k + i
    <3>1. m \in 1 .. k + n + 1 /\ m # k + n + 1
      BY <1>2, <1>3
    <3> QED BY <1>2, <3>1, StorePlace
  <2>2. CASE m \in 1 .. k
    <3>1. IsRoot(m)' /\ todo'[m].value.start = s + m
      BY <1>3, <2>2
    <3>2. s <= s + m /\ \A j \in 1 .. m : j \in 1 .. k /\ s + j <= s + m
      BY <1>2, <2>2
    <3>3. \A j \in 1 .. m : todo'[j].value.start = s + j
      BY <1>3, <3>2
    <3> QED BY <1>2, <3>1, <3>2, <3>3
  <2>3. CASE \E i \in 1 .. n : m = k + i
    <3>1. PICK i \in 1 .. n : m = k + i
      BY <2>3
    <3>2. ~IsRoot(m)' /\ todo'[m].addr = disk'[f].ptrs[i]
      BY <1>3, <3>1
    <3>3. CASE i <= had
      BY <1>1, <3>2, <3>3 DEF StoredPlaces
    <3>4. CASE i > had
      <4>1. disk'[f].ptrs[i] \in s .. s + k - 1
        BY <1>1, <3>4 DEF StoredPlaces
      <4>2. disk'[f].ptrs[i] \notin G
        BY <1>1, <4>1 DEF StoredPlaces
      <4> QED BY <3>2, <4>2
    <3> QED BY <1>2, <3>3, <3>4
  <2> QED BY <2>1, <2>2, <2>3
<1>11. ASSUME NEW b \in G \ {f}
       PROVE  disk'[b] = disk[b] \/ \E i \in (1 .. n) \cap (1 .. had) : disk[f].ptrs[i] = b
  <2>1. CASE \E i \in 1 .. n : i <= had /\ disk[f].ptrs[i] = b
    <3>1. PICK i \in 1 .. n : i <= had /\ disk[f].ptrs[i] = b
      BY <2>1
    <3>2. i \in (1 .. n) \cap (1 .. had)
      BY <1>2, <3>1
    <3> QED BY <3>1, <3>2
  <2> QED BY <1>7, <2>1
<1>12. \E g \in G :
          /\ disk[g].kind = "file"
          /\ disk'[g] = [disk[g] EXCEPT !.ptrs = disk'[g].ptrs]
          /\ \A i \in DOMAIN disk'[g].ptrs \cap DOMAIN disk[g].ptrs : disk'[g].ptrs[i] = disk[g].ptrs[i]
          /\ \A b \in G \ {g} : \/ disk'[b] = disk[b]
                                \/ \E i \in DOMAIN disk'[g].ptrs \cap DOMAIN disk[g].ptrs : disk[g].ptrs[i] = b
  <2>1. \A i \in DOMAIN disk'[f].ptrs \cap DOMAIN disk[f].ptrs : disk'[f].ptrs[i] = disk[f].ptrs[i]
    <3>1. ASSUME NEW i \in DOMAIN disk'[f].ptrs \cap DOMAIN disk[f].ptrs
          PROVE  disk'[f].ptrs[i] = disk[f].ptrs[i]
      <4>1. i \in 1 .. n /\ i <= had
        BY <1>2, <1>8
      <4> QED BY <1>1, <4>1 DEF StoredPlaces
    <3> QED BY <3>1
  <2>2. \A b \in G \ {f} : \/ disk'[b] = disk[b]
                           \/ \E i \in DOMAIN disk'[f].ptrs \cap DOMAIN disk[f].ptrs : disk[f].ptrs[i] = b
    BY <1>8, <1>11
  <2> QED BY <1>8, <2>1, <2>2
<1> QED BY <1>4, <1>5, <1>6, <1>7, <1>9, <1>10, <1>12 DEF Writing

\* A format, whether a client asks for it or the constructor makes it
LEMMA FormatTodo ==
    ASSUME Rested, disk \in [Blocks -> Block], UNCHANGED <<platter, extent, before>>,
           disk' = [disk EXCEPT ![FILE_ROOT] = DefaultRootFolder],
           alloc' = DefaultRoot, todo' = FormatWrites
    PROVE  /\ AllocOK' /\ disk' \in [Blocks -> Block]
           /\ disk'[FILE_ROOT] = DefaultRootFolder
           /\ TodoOK' /\ Formatting'
<1>1. FILE_ROOT \in Blocks /\ DefaultRootFolder \in Block
  BY BlankType, RootType
<1>2. disk' \in [Blocks -> Block] /\ disk'[FILE_ROOT] = DefaultRootFolder
      /\ \A b \in Blocks \ {FILE_ROOT} : disk'[b] = disk[b]
  BY <1>1
<1>3. AllocOK'
  BY SizeAssumption DEF AllocOK, DefaultRoot, Blocks, RESERVED_BLOCKS
<1>4. ExtentOK(DefaultRoot)
  BY <1>3 DEF AllocOK, ExtentOK
<1>5. PICK w : w = [addr |-> FILE_ROOT, value |-> DefaultRootFolder]
  OBVIOUS
<1>6. w \in Writes /\ w.addr = FILE_ROOT /\ w.value = DefaultRootFolder /\ w.addr # ALLOC_ROOT
  BY <1>1, <1>5 DEF Writes, FILE_ROOT, ALLOC_ROOT
<1>7. PICK r : r = Root(DefaultRoot)
  OBVIOUS
<1>8. r \in Writes /\ r.addr = ALLOC_ROOT /\ r.value = DefaultRoot
  BY <1>4, <1>7, RootWrite
<1>9. todo' = <<w, r>>
  BY <1>2, <1>5, <1>7 DEF FormatWrites, Sector
<1>10. /\ todo' \in Seq(Writes) /\ DOMAIN todo' = {1, 2} /\ todo' # << >>
       /\ todo'[1] = w /\ todo'[2] = r
  BY <1>6, <1>8, <1>9
<1>11. TodoOK'
  <2>1. ~IsRoot(1)' /\ IsRoot(2)'
    BY <1>6, <1>8, <1>10 DEF IsRoot
  <2>2. \A i \in DOMAIN todo' : IF IsRoot(i)' THEN ExtentOK(todo'[i].value)
                                              ELSE todo'[i].value = disk'[todo'[i].addr]
    BY <1>2, <1>4, <1>6, <1>8, <1>10, <2>1
  <2>3. ASSUME NEW b \in Blocks
        PROVE  platter'[b] = disk'[b] \/ \E i \in DOMAIN todo' : todo'[i].addr = b /\ ~IsRoot(i)'
    <3>1. CASE b = FILE_ROOT
      BY <1>6, <1>10, <2>1, <3>1
    <3>2. CASE b # FILE_ROOT
      BY <1>2, <3>2 DEF Rested
    <3> QED BY <3>1, <3>2
  <2>4. \A i \in DOMAIN todo' : IsRoot(i)' => todo'[i].value = alloc'
    BY <1>8, <1>10, <2>1
  <2>5. \E i \in DOMAIN todo' : IsRoot(i)'
    BY <1>10, <2>1
  <2> QED BY <1>10, <2>2, <2>3, <2>4, <2>5 DEF TodoOK, Writes
<1>12. Formatting'
  BY <1>2, <1>5, <1>7, <1>9 DEF Formatting, Rested
<1> QED BY <1>2, <1>3, <1>11, <1>12

LEMMA FormatRuns ==
    ASSUME NEW G, RunsOn(G), Rested, UNCHANGED <<platter, extent, before>>,
           NEW c \in Clients, Format(c), intact', todo' = FormatWrites
    PROVE  RunsOn({FILE_ROOT})' /\ TodoOK' /\ Formatting'
<1>1. disk' = [disk EXCEPT ![FILE_ROOT] = DefaultRootFolder] /\ alloc' = DefaultRoot
      /\ UNCHANGED <<pc, cwd, tmp>>
  BY DEF Format, Goto, RunsOn, TypeOK
<1>2. disk \in [Blocks -> Block] /\ TypeOK'
  BY FormatType DEF RunsOn, TypeOK
<1>3. disk'[FILE_ROOT] = DefaultRootFolder /\ TodoOK' /\ Formatting'
  BY <1>1, <1>2, FormatTodo
<1>4. Trees(disk', {FILE_ROOT})
  BY <1>3, TreesFormat
<1>5. disk'[FILE_ROOT].kind = "folder"
  BY <1>3 DEF DefaultRootFolder, Blank
<1>6. ASSUME NEW e \in Clients PROVE HandleIn(e, {FILE_ROOT})'
  <2>1. \A h \in HandleIds : Live(h) => Addr(h) = FILE_ROOT
    BY DEF Format
  <2>2. <<e, "cwd">> \in HandleIds /\ <<e, "tmp">> \in HandleIds
    BY DEF HandleIds
  <2>3. Live(<<e, "cwd">>) => cwd[e] = FILE_ROOT
    BY <2>1, <2>2 DEF Addr
  <2>4. pc[e] \in CdSteps => tmp[e] = FILE_ROOT
    <3>1. ASSUME pc[e] \in CdSteps PROVE Live(<<e, "tmp">>)
      BY <3>1 DEF Live, CdSteps
    <3> QED BY <2>1, <2>2, <3>1 DEF Addr
  <2>5. pc[e] \notin FileSteps
    BY DEF Format
  <2> QED BY <1>1, <1>5, <2>3, <2>4, <2>5 DEF HandleIn, Live
<1>7. {FILE_ROOT} \in SUBSET Blocks
  BY BlankType
<1> QED BY <1>2, <1>3, <1>4, <1>6, <1>7 DEF RunsOn, Below

-----------------------------------------------------------------------------
(* CrashInv is inductive *)

\* What has to be shown of a step that leaves the sectors alone
LEMMA MethodKeeps ==
    ASSUME CrashInv, UNCHANGED <<platter, extent, before>>, server' = "up", intact',
           TodoOK', \E H \in SUBSET Blocks : RunsOn(H)', PendingOK'
    PROVE  CrashInv'
<1>1. PICK H \in SUBSET Blocks : RunsOn(H)'
  OBVIOUS
<1>2. TypeOK' /\ RunOK'
  BY <1>1 DEF RunsOn, RunOK
<1>3. todo' = << >> => platter' = disk' /\ extent' = alloc'
  <2> SUFFICES ASSUME todo' = << >> PROVE platter' = disk' /\ extent' = alloc'
    OBVIOUS
  <2>1. DOMAIN todo' = {}
    OBVIOUS
  <2>2. extent' = alloc' /\ \A b \in Blocks : platter'[b] = disk'[b]
    BY <2>1 DEF TodoOK
  <2>3. platter' \in [Blocks -> Block] /\ disk' \in [Blocks -> Block]
    BY <1>2 DEF TypeOK, CrashInv, CrashTypeOK
  <2> QED BY <2>2, <2>3
<1>4. CrashTypeOK'
  BY <1>2, <1>3 DEF CrashInv, CrashTypeOK
<1>5. OffOK' /\ RestOK'
  BY DEF CrashInv, OffOK, RestOK
<1> QED BY <1>2, <1>4, <1>5 DEF CrashInv

\* Before a request the process runs on trees, and the sectors are the blocks.
LEMMA AtRest ==
    ASSUME CrashInv, todo = << >>
    PROVE  /\ Rested
           /\ server = "up" => \E G \in SUBSET Blocks : RunsOn(G)
<1>1. Rested
  BY DEF CrashInv, CrashTypeOK, TodoOK, Rested
<1> QED BY <1>1 DEF CrashInv, CrashTypeOK, RunOK, RunsOn

LEMMA RequestKeeps ==
    ASSUME CrashInv, NEW c \in Clients, Request(c)
    PROVE  CrashInv'
<1>1. todo = << >> /\ UNCHANGED <<platter, extent, before>>
  BY DEF Request
<1>2. CASE Quiet(c)
  <2>1. server = "up" /\ UNCHANGED <<disk, alloc, server, intact, todo>>
    BY <1>2, QuietIs
  <2>2. PICK G \in SUBSET Blocks : RunsOn(G)
    BY <1>1, <2>1, AtRest
  <2>3. RunsOn(G)'
    <3>1. TypeOK' /\ \A e \in Clients : HandleIn(e, G)'
      BY <1>2, <2>2, QuietType, QuietHandles DEF RunsOn
    <3> QED BY <2>1, <2>2, <3>1 DEF RunsOn
  <2>4. TodoOK'
    BY <1>1, <2>1 DEF CrashInv, TodoOK, IsRoot
  <2>5. PendingOK' /\ intact'
    BY <1>1, <2>1 DEF PendingOK, CrashInv, CrashTypeOK
  <2> QED BY <1>1, <2>1, <2>2, <2>3, <2>4, <2>5, MethodKeeps
<1>3. CASE Method(c)
  <2>1. intact' /\ server = "up" /\ server' = "up"
    BY <1>3 DEF Method, CreateNode, RemoveNode, Store, Format, Goto
  <2>2. PICK G \in SUBSET Blocks : RunsOn(G)
    BY <1>1, <2>1, AtRest
  <2>3. Rested
    BY <1>1, AtRest
  <2>4. CASE (\E k \in NodeKinds : CreateNode(c, k)) /\ todo' = CreateWrites(c)
    <3>1. PICK k \in NodeKinds : CreateNode(c, k)
      BY <2>4
    <3>2. TodoOK' /\ Writing(G)' /\ \E H \in SUBSET Blocks : RunsOn(H)'
      BY <1>1, <2>1, <2>2, <2>3, <2>4, <3>1, CreateTodo, CreateRuns
    <3> QED BY <1>1, <2>1, <2>2, <3>2, MethodKeeps DEF PendingOK
  <2>5. CASE (\E k \in NodeKinds : RemoveNode(c, k)) /\ todo' = RemoveWrites(c)
    <3>1. PICK k \in NodeKinds : RemoveNode(c, k)
      BY <2>5
    <3>2. TodoOK' /\ Writing(G)' /\ \E H \in SUBSET Blocks : RunsOn(H)'
      BY <1>1, <2>2, <2>3, <2>5, <3>1, RemoveTodo, RemoveRuns
    <3> QED BY <1>1, <2>1, <2>2, <3>2, MethodKeeps DEF PendingOK
  <2>6. CASE Store(c) /\ todo' = StoreWrites(c)
    <3>1. TodoOK' /\ Writing(G)' /\ \E H \in SUBSET Blocks : RunsOn(H)'
      BY <1>1, <2>1, <2>2, <2>3, <2>6, StoreTodo, StoreWriting, StoreRuns
    <3> QED BY <1>1, <2>1, <2>2, <3>1, MethodKeeps DEF PendingOK
  <2>7. CASE Format(c) /\ todo' = FormatWrites
    <3>1. TodoOK' /\ Formatting' /\ RunsOn({FILE_ROOT})'
      BY <1>1, <2>1, <2>2, <2>3, <2>7, FormatRuns
    <3>2. \E H \in SUBSET Blocks : RunsOn(H)'
      BY <3>1, BlankType
    <3> QED BY <1>1, <2>1, <3>1, <3>2, MethodKeeps DEF PendingOK
  <2> QED BY <1>3, <2>4, <2>5, <2>6, <2>7 DEF Method
<1> QED BY <1>2, <1>3 DEF Request

\* The first of the writes that are left, and the others
LEMMA FirstWrite ==
    ASSUME TodoOK, WriteSector
    PROVE  /\ UNCHANGED vars
           /\ 1 \in DOMAIN todo /\ todo \in Seq(Writes) /\ Len(todo) \in Nat /\ Len(todo) >= 1
           /\ DOMAIN todo = 1 .. Len(todo)
           /\ IF IsRoot(1) THEN extent' = todo[1].value /\ platter' = platter
                           ELSE /\ platter' = [platter EXCEPT ![todo[1].addr] = disk[todo[1].addr]]
                                /\ extent' = extent
           /\ todo' \in Seq(Writes) /\ Len(todo') = Len(todo) - 1
           /\ DOMAIN todo' = 1 .. Len(todo) - 1
           /\ \A i \in 1 .. Len(todo) - 1 : todo'[i] = todo[i + 1] /\ (IsRoot(i)' <=> IsRoot(i + 1))
           /\ before' = IF todo' = << >> THEN platter' ELSE before
<1>1. todo \in Seq(Writes) /\ todo # << >>
  BY DEF TodoOK, Writes, WriteSector
<1>2. 1 \in DOMAIN todo /\ Len(todo) \in Nat /\ Len(todo) >= 1 /\ Head(todo) = todo[1]
      /\ DOMAIN todo = 1 .. Len(todo)
  BY <1>1
<1>3. todo' = Tail(todo)
  BY DEF WriteSector
<1>4. /\ todo' \in Seq(Writes) /\ Len(todo') = Len(todo) - 1
      /\ \A i \in 1 .. Len(todo) - 1 : todo'[i] = todo[i + 1]
  BY <1>1, <1>2, <1>3
<1>5. DOMAIN todo' = 1 .. Len(todo) - 1
  BY <1>4
<1>6. \A i \in 1 .. Len(todo) - 1 : IsRoot(i)' <=> IsRoot(i + 1)
  BY <1>4 DEF IsRoot
<1>7. IF IsRoot(1) THEN extent' = todo[1].value /\ platter' = platter
      ELSE platter' = [platter EXCEPT ![todo[1].addr] = todo[1].value] /\ extent' = extent
  BY <1>2 DEF WriteSector, IsRoot
<1>8. ~IsRoot(1) => todo[1].value = disk[todo[1].addr]
  BY <1>2 DEF TodoOK
<1> QED BY <1>1, <1>2, <1>4, <1>5, <1>6, <1>7, <1>8 DEF WriteSector

LEMMA WriteTodo ==
    ASSUME CrashTypeOK, TodoOK, WriteSector
    PROVE  TodoOK'
<1> DEFINE n == Len(todo)
<1>1. /\ 1 \in DOMAIN todo /\ n \in Nat /\ n >= 1 /\ DOMAIN todo = 1 .. n
      /\ todo' \in Seq(Writes) /\ DOMAIN todo' = 1 .. n - 1
      /\ \A i \in 1 .. n - 1 : todo'[i] = todo[i + 1] /\ (IsRoot(i)' <=> IsRoot(i + 1))
      /\ UNCHANGED vars
  BY FirstWrite
<1>2. IF IsRoot(1) THEN extent' = todo[1].value /\ platter' = platter
      ELSE platter' = [platter EXCEPT ![todo[1].addr] = disk[todo[1].addr]] /\ extent' = extent
  BY FirstWrite
<1>3. \A i \in 1 .. n - 1 : i + 1 \in 1 .. n
  BY <1>1
<1>4. \A i \in 1 .. n : i = 1 \/ (i - 1 \in 1 .. n - 1 /\ (i - 1) + 1 = i)
  BY <1>1
<1>5. UNCHANGED <<disk, alloc>>
  BY <1>1 DEF vars
<1> HIDE DEF n
<1>6. \A i \in DOMAIN todo' : IF IsRoot(i)' THEN ExtentOK(todo'[i].value)
                                            ELSE todo'[i].value = disk'[todo'[i].addr]
  BY <1>1, <1>3, <1>5 DEF TodoOK
<1>7. ASSUME NEW b \in Blocks
      PROVE  platter'[b] = disk'[b] \/ \E i \in DOMAIN todo' : todo'[i].addr = b /\ ~IsRoot(i)'
  <2>1. platter \in [Blocks -> Block]
    BY DEF CrashTypeOK
  <2>2. CASE platter[b] = disk[b]
    <3>1. platter'[b] = disk[b]
      BY <1>2, <2>1, <2>2
    <3> QED BY <1>5, <3>1
  <2>3. CASE \E i \in DOMAIN todo : todo[i].addr = b /\ ~IsRoot(i)
    <3>1. PICK i \in 1 .. n : todo[i].addr = b /\ ~IsRoot(i)
      BY <1>1, <2>3
    <3>2. CASE i = 1
      <4>1. platter'[b] = disk[b]
        BY <1>2, <2>1, <3>1, <3>2
      <4> QED BY <1>5, <4>1
    <3>3. CASE i - 1 \in 1 .. n - 1 /\ (i - 1) + 1 = i
      BY <1>1, <3>1, <3>3
    <3> QED BY <1>4, <3>2, <3>3
  <2> QED BY <2>2, <2>3 DEF TodoOK
<1>8. extent' = alloc' \/ \E i \in DOMAIN todo' : IsRoot(i)'
  <2> SUFFICES ASSUME \A i \in DOMAIN todo' : ~IsRoot(i)' PROVE extent' = alloc
    BY <1>5
  <2>1. ASSUME NEW i \in 1 .. n, IsRoot(i) PROVE i = 1
    <3>1. CASE i - 1 \in 1 .. n - 1 /\ (i - 1) + 1 = i
      <4>1. IsRoot(i - 1)' /\ i - 1 \in DOMAIN todo'
        BY <1>1, <2>1, <3>1
      <4> QED BY <4>1
    <3> QED BY <1>4, <3>1
  <2>2. CASE IsRoot(1)
    <3>1. \A j \in DOMAIN todo : IsRoot(j) => j <= 1
      BY <1>1, <2>1
    <3>2. todo[1].value = alloc
      BY <1>1, <2>2, <3>1 DEF TodoOK
    <3> QED BY <1>2, <2>2, <3>2
  <2>3. CASE ~IsRoot(1)
    <3>1. \A i \in DOMAIN todo : ~IsRoot(i)
      BY <1>1, <2>1, <2>3
    <3>2. extent = alloc
      BY <3>1 DEF TodoOK
    <3> QED BY <1>2, <2>3, <3>2
  <2> QED BY <2>2, <2>3
<1>9. ASSUME NEW i \in DOMAIN todo', IsRoot(i)', \A j \in DOMAIN todo' : IsRoot(j)' => j <= i
      PROVE  todo'[i].value = alloc'
  <2>1. i \in 1 .. n - 1 /\ i + 1 \in DOMAIN todo /\ IsRoot(i + 1) /\ todo'[i] = todo[i + 1]
    BY <1>1, <1>3, <1>9
  <2>2. ASSUME NEW j \in DOMAIN todo, IsRoot(j) PROVE j <= i + 1
    <3>1. i \in Int /\ i >= 1 /\ j \in 1 .. n
      BY <1>1, <2>1
    <3>2. CASE j = 1
      BY <3>1, <3>2
    <3>3. CASE j - 1 \in 1 .. n - 1 /\ (j - 1) + 1 = j
      <4>1. IsRoot(j - 1)'
        BY <1>1, <2>2, <3>3
      <4>2. j - 1 <= i
        BY <1>1, <1>9, <3>3, <4>1
      <4> QED BY <3>1, <4>2
    <3> QED BY <1>4, <3>1, <3>2, <3>3
  <2>3. todo[i + 1].value = alloc
    BY <2>1, <2>2 DEF TodoOK
  <2> QED BY <1>5, <2>1, <2>3
<1>10. todo' = << >> => before' = platter'
  BY DEF WriteSector
<1> QED BY <1>1, <1>6, <1>7, <1>8, <1>9, <1>10 DEF TodoOK, Writes

\* The trees of a method that is under way are on the sectors.
LEMMA WritingRests ==
    ASSUME NEW G, Writing(G)
    PROVE  Trees(platter, G) /\ Below(G, extent) /\ ExtentOK(extent) /\ extent # NoExtent
<1>1. \A b \in G : \/ platter[b] = before[b]
                   \/ before[b].kind = "data" /\ platter[b].kind = "data" /\ platter[b].ptrs = << >>
  BY DEF Writing
<1>2. Trees(before, G)
  BY DEF Writing
<1>3. Trees(platter, G)
  BY <1>1, <1>2, TreesData
<1>4. extent # NoExtent
  BY DEF Writing, ExtentOK, NoExtent, RESERVED_BLOCKS
<1> QED BY <1>3, <1>4 DEF Writing

\* Any of its writes but the last leaves them there.
LEMMA WritingGoesOn ==
    ASSUME CrashTypeOK, TodoOK, WriteSector, todo' # << >>, NEW G \in SUBSET Blocks, Writing(G)
    PROVE  Writing(G)'
<1> DEFINE n == Len(todo)
<1>1. /\ n \in Nat /\ n >= 1 /\ todo' \in Seq(Writes) /\ Len(todo') = n - 1
      /\ 1 \in DOMAIN todo
      /\ \A i \in 1 .. n - 1 : todo'[i] = todo[i + 1] /\ (IsRoot(i)' <=> IsRoot(i + 1))
      /\ UNCHANGED vars /\ before' = before
  BY FirstWrite
<1>2. IF IsRoot(1) THEN extent' = todo[1].value /\ platter' = platter
      ELSE platter' = [platter EXCEPT ![todo[1].addr] = disk[todo[1].addr]] /\ extent' = extent
  BY FirstWrite
<1>3. UNCHANGED disk
  BY <1>1 DEF vars
<1>4. n - 1 >= 1 /\ 1 \in 1 .. n - 1
  <2>1. Len(todo') # 0
    BY <1>1
  <2> QED BY <1>1, <2>1
<1> HIDE DEF n
<1>5. \A i \in 1 .. n - 1 :
         IF IsRoot(i) THEN /\ extent.start <= todo[i].value.start
                           /\ \A j \in 1 .. i : IsRoot(j) => todo[j].value.start <= todo[i].value.start
                      ELSE todo[i].addr \notin G \/ before[todo[i].addr].kind = "data"
  BY DEF Writing, n
<1>6. ExtentOK(extent') /\ extent.start <= extent'.start /\ extent'.start \in Int
      /\ extent.start \in Int
  <2>1. ExtentOK(extent)
    BY DEF Writing
  <2>2. ExtentOK(extent')
    BY <1>1, <1>2, <2>1 DEF TodoOK
  <2>3. extent.start \in Int /\ extent'.start \in Int
    BY <2>1, <2>2, SizeAssumption DEF ExtentOK, Blocks
  <2>4. extent.start <= extent'.start
    BY <1>2, <1>4, <1>5, <2>3
  <2> QED BY <2>2, <2>3, <2>4
<1>7. Below(G, extent')
  <2>1. \A b \in G : b \in Int
    BY SizeAssumption DEF Blocks
  <2>2. Below(G, extent)
    BY DEF Writing
  <2> QED BY <1>6, <2>1, <2>2 DEF Below
<1>8. \A b \in G : \/ platter'[b] = before[b]
                   \/ before[b].kind = "data" /\ platter'[b] = disk[b]
  <2>1. \A b \in G : \/ platter[b] = before[b]
                     \/ before[b].kind = "data" /\ platter[b] = disk[b]
    BY DEF Writing
  <2>2. platter \in [Blocks -> Block]
    BY DEF CrashTypeOK
  <2>3. CASE IsRoot(1)
    BY <1>2, <2>1, <2>3
  <2>4. CASE ~IsRoot(1)
    <3>1. todo[1].addr \notin G \/ before[todo[1].addr].kind = "data"
      BY <1>4, <1>5, <2>4
    <3> QED BY <1>2, <2>1, <2>2, <2>4, <3>1
  <2> QED BY <2>3, <2>4
<1>9. ASSUME NEW i \in 1 .. Len(todo') - 1
      PROVE  IF IsRoot(i)' THEN /\ extent'.start <= todo'[i].value.start
                                /\ \A j \in 1 .. i : IsRoot(j)' => todo'[j].value.start <= todo'[i].value.start
                           ELSE todo'[i].addr \notin G \/ before[todo'[i].addr].kind = "data"
  <2>1. i \in 1 .. n - 1 /\ i + 1 \in 1 .. n - 1 /\ 1 \in 1 .. i + 1
    BY <1>1
  <2>2. todo'[i] = todo[i + 1] /\ (IsRoot(i)' <=> IsRoot(i + 1))
    BY <1>1, <2>1
  <2>3. CASE IsRoot(i)'
    <3>1. /\ extent.start <= todo[i + 1].value.start
          /\ \A j \in 1 .. i + 1 : IsRoot(j) => todo[j].value.start <= todo[i + 1].value.start
      BY <1>5, <2>1, <2>2, <2>3
    <3>2. extent'.start <= todo[i + 1].value.start
      BY <1>2, <2>1, <3>1
    <3>3. ASSUME NEW j \in 1 .. i, IsRoot(j)' PROVE todo'[j].value.start <= todo'[i].value.start
      <4>1. j \in 1 .. n - 1 /\ j + 1 \in 1 .. i + 1
        BY <1>1, <2>1
      <4>2. todo'[j] = todo[j + 1] /\ IsRoot(j + 1)
        BY <1>1, <3>3, <4>1
      <4> QED BY <2>2, <3>1, <4>1, <4>2
    <3> QED BY <2>2, <2>3, <3>2, <3>3
  <2>4. CASE ~IsRoot(i)'
    BY <1>5, <2>1, <2>2, <2>4
  <2> QED BY <2>3, <2>4
<1>10. /\ Trees(before, G)
       /\ \A b \in G : /\ disk[b].kind = before[b].kind
                       /\ disk[b].kind = "data" => disk[b].ptrs = << >>
                       /\ disk[b].kind = "file" => \A i \in DOMAIN disk[b].ptrs : disk[disk[b].ptrs[i]].kind = "data"
  BY DEF Writing
<1>11. \/ \A b \in G : before[b].kind = "data" => disk[b] = before[b]
       \/ \E f \in G :
             /\ before[f].kind = "file"
             /\ disk[f] = [before[f] EXCEPT !.ptrs = disk[f].ptrs]
             /\ \A i \in DOMAIN disk[f].ptrs \cap DOMAIN before[f].ptrs : disk[f].ptrs[i] = before[f].ptrs[i]
             /\ \A b \in G \ {f} : \/ disk[b] = before[b]
                                   \/ \E i \in DOMAIN disk[f].ptrs \cap DOMAIN before[f].ptrs : before[f].ptrs[i] = b
  BY DEF Writing
<1> QED BY <1>1, <1>3, <1>6, <1>7, <1>8, <1>9, <1>10, <1>11 DEF Writing

\* Where a format is under way, its first write makes the root what it writes.
LEMMA FormattingGoesOn ==
    ASSUME CrashTypeOK, TodoOK, RestOK, server = "up", WriteSector, todo' # << >>, Formatting
    PROVE  Formatting' /\ RestOK'
<1>1. /\ UNCHANGED vars /\ before' = before
  BY FirstWrite
<1>2. UNCHANGED <<disk, alloc>>
  BY <1>1 DEF vars
<1>3. disk[FILE_ROOT] = DefaultRootFolder /\ alloc = DefaultRoot
  BY DEF Formatting
<1>4. todo' = Tail(todo)
  BY DEF WriteSector
<1>5. todo = <<[addr |-> FILE_ROOT, value |-> DefaultRootFolder], Root(DefaultRoot)>>
  BY <1>4 DEF Formatting
<1>6. todo' = <<Root(DefaultRoot)>>
  BY <1>4, <1>5
<1>7. /\ todo[1].addr = FILE_ROOT /\ todo[2].addr = ALLOC_ROOT /\ DOMAIN todo = {1, 2}
  BY <1>5 DEF Root
<1>8. ~IsRoot(1) /\ IsRoot(2)
  BY <1>7 DEF IsRoot, FILE_ROOT, ALLOC_ROOT
<1>9. platter' = [platter EXCEPT ![FILE_ROOT] = DefaultRootFolder] /\ extent' = extent
  BY <1>3, <1>7, <1>8, FirstWrite
<1>10. platter \in [Blocks -> Block] /\ disk \in [Blocks -> Block] /\ FILE_ROOT \in Blocks
  BY BlankType DEF CrashTypeOK, TypeOK
<1>11. ASSUME NEW b \in Blocks PROVE platter'[b] = disk[b]
  <2>1. platter[b] = disk[b] \/ b = FILE_ROOT
    <3>1. platter[b] = disk[b] \/ \E i \in DOMAIN todo : todo[i].addr = b /\ ~IsRoot(i)
      BY DEF TodoOK
    <3> QED BY <1>7, <1>8, <3>1
  <2> QED BY <1>3, <1>9, <1>10, <2>1
<1>12. platter' = disk
  <2>1. platter' \in [Blocks -> Block]
    BY <1>9, <1>10, RootType
  <2> QED BY <1>10, <1>11, <2>1
<1>13. Formatting'
  BY <1>2, <1>3, <1>6, <1>12 DEF Formatting
<1>14. RestOK'
  <2>1. platter'[FILE_ROOT] = DefaultRootFolder
    BY <1>3, <1>12
  <2>2. CASE extent = NoExtent
    BY <1>9, <2>1, <2>2 DEF RestOK
  <2>3. CASE extent # NoExtent
    <3>1. ExtentOK(extent')
      BY <1>9, <2>3 DEF RestOK
    <3>2. Trees(platter', {FILE_ROOT}) /\ Below({FILE_ROOT}, extent')
      BY <2>1, TreesFormat DEF Below
    <3>3. {FILE_ROOT} \in SUBSET Blocks
      BY <1>10
    <3> QED BY <1>9, <2>3, <3>1, <3>2, <3>3 DEF RestOK
  <2> QED BY <2>2, <2>3
<1> QED BY <1>13, <1>14

LEMMA WriteKeeps ==
    ASSUME CrashInv, WriteSector
    PROVE  CrashInv'
<1>0. CrashTypeOK /\ TodoOK /\ OffOK /\ RestOK /\ RunOK /\ PendingOK
  BY DEF CrashInv
<1>1. /\ UNCHANGED vars /\ todo # << >>
      /\ before' = IF todo' = << >> THEN platter' ELSE before
  BY DEF WriteSector
<1>2. UNCHANGED <<disk, alloc, count, pc, cmd, cwd, path, tmp, content, server, intact>>
  BY <1>1 DEF vars
<1>3. server = "up"
  BY <1>0, <1>1 DEF OffOK, CrashTypeOK
<1>4. TodoOK'
  BY <1>0, WriteTodo
<1>5. TypeOK /\ TypeOK'
  <2>1. TypeOK
    BY <1>0, <1>3 DEF CrashTypeOK
  <2> QED BY <1>2, <2>1 DEF TypeOK, AllocOK, CommandOK
<1>6. platter' \in [Blocks -> Block] /\ extent' \in [start : Blocks, len : Nat]
  <2>1. IF IsRoot(1) THEN extent' = todo[1].value /\ platter' = platter
        ELSE platter' = [platter EXCEPT ![todo[1].addr] = disk[todo[1].addr]] /\ extent' = extent
    BY <1>0, FirstWrite
  <2>2. 1 \in DOMAIN todo /\ todo \in Seq(Writes)
    BY <1>0, FirstWrite
  <2>3. todo[1].addr \in Blocks
    <3>1. todo[1] \in Writes
      BY <2>2
    <3> QED BY <3>1 DEF Writes
  <2>4. IsRoot(1) => todo[1].value \in [start : Blocks, len : Nat]
    BY <1>0, <2>2 DEF TodoOK, ExtentOK
  <2>5. disk \in [Blocks -> Block]
    BY <1>5 DEF TypeOK
  <2>6. platter \in [Blocks -> Block] /\ extent \in [start : Blocks, len : Nat]
    BY <1>0 DEF CrashTypeOK
  <2> QED BY <2>1, <2>3, <2>4, <2>5, <2>6
<1>7. todo' = << >> => platter' = disk' /\ extent' = alloc'
  <2> SUFFICES ASSUME todo' = << >> PROVE platter' = disk' /\ extent' = alloc'
    OBVIOUS
  <2>1. DOMAIN todo' = {}
    OBVIOUS
  <2>2. extent' = alloc' /\ \A b \in Blocks : platter'[b] = disk'[b]
    BY <1>4, <2>1 DEF TodoOK
  <2>3. disk' \in [Blocks -> Block]
    BY <1>5 DEF TypeOK
  <2> QED BY <1>6, <2>2, <2>3
<1>8. CrashTypeOK'
  BY <1>0, <1>1, <1>2, <1>3, <1>5, <1>6, <1>7 DEF CrashTypeOK
<1>9. OffOK'
  BY <1>2, <1>3 DEF OffOK
<1>10. RunOK'
  BY <1>0, <1>2 DEF RunOK, HandleIn, Live
<1>11. RestOK' /\ PendingOK'
  <2>1. CASE todo' = << >>
    <3>1. platter' = disk /\ extent' = alloc
      BY <1>2, <1>7, <2>1
    <3>2. ExtentOK(alloc) /\ alloc # NoExtent
      BY <1>5, AllocIs DEF TypeOK
    <3>3. PICK G \in SUBSET Blocks : Trees(disk, G) /\ Below(G, alloc)
      BY <1>0, <1>3 DEF RunOK
    <3> QED BY <2>1, <3>1, <3>2, <3>3 DEF RestOK, PendingOK
  <2>2. CASE todo' # << >> /\ Formatting
    BY <1>0, <1>3, <2>2, FormattingGoesOn DEF PendingOK
  <2>3. CASE todo' # << >> /\ \E G \in SUBSET Blocks : Writing(G)
    <3>1. PICK G \in SUBSET Blocks : Writing(G)
      BY <2>3
    <3>2. Writing(G)'
      BY <1>0, <2>3, <3>1, WritingGoesOn
    <3>3. (Trees(platter, G) /\ Below(G, extent) /\ ExtentOK(extent) /\ extent # NoExtent)'
      <4>1. /\ \A b \in G : \/ platter'[b] = before'[b]
                            \/ before'[b].kind = "data" /\ platter'[b].kind = "data" /\ platter'[b].ptrs = << >>
            /\ Trees(before', G) /\ Below(G, extent') /\ ExtentOK(extent')
        BY <3>2 DEF Writing
      <4>2. Trees(platter', G)
        BY <4>1, TreesData
      <4>3. extent' # NoExtent
        BY <4>1 DEF ExtentOK, NoExtent, RESERVED_BLOCKS
      <4> QED BY <4>1, <4>2, <4>3
    <3> QED BY <3>2, <3>3 DEF RestOK, PendingOK
  <2> QED BY <1>0, <1>1, <2>1, <2>2, <2>3 DEF PendingOK
<1> QED BY <1>4, <1>8, <1>9, <1>10, <1>11 DEF CrashInv

LEMMA CrashKeeps ==
    ASSUME CrashInv, Crash
    PROVE  CrashInv'
<1>1. /\ server' = "terminated" /\ todo' = << >>
      /\ disk' = platter /\ alloc' = extent /\ before' = platter
      /\ UNCHANGED <<platter, extent, intact>>
      /\ count' = Uncounted /\ pc' = Offline /\ cmd' = Idle /\ cwd' = AtRoot /\ path' = AtTop
      /\ tmp' = AtRoot /\ content' = AtTop
  BY DEF Crash
<1>2. CrashTypeOK'
  BY <1>1 DEF CrashInv, CrashTypeOK
<1>3. OffOK'
  BY <1>1 DEF OffOK, Uncounted, Offline, Idle, AtRoot, AtTop
<1>4. RestOK'
  BY <1>1 DEF CrashInv, RestOK
<1>5. RunOK' /\ PendingOK'
  BY <1>1 DEF RunOK, PendingOK
<1>6. TodoOK'
  BY <1>1 DEF TodoOK
<1> QED BY <1>2, <1>3, <1>4, <1>5, <1>6 DEF CrashInv

\* A process that has just started
LEMMA Started ==
    ASSUME OffOK, server = "terminated", UNCHANGED <<count, pc, cmd, cwd, path, tmp, content, intact>>,
           server' = "up", intact \in BOOLEAN, disk' \in [Blocks -> Block], AllocOK',
           NEW G \in SUBSET Blocks, Trees(disk', G), Below(G, alloc')
    PROVE  RunsOn(G)'
<1>1. /\ count' = Uncounted /\ pc' = Offline /\ cmd' = Idle /\ cwd' = AtRoot /\ path' = AtTop
      /\ tmp' = AtRoot /\ content' = AtTop
  BY DEF OffOK
<1>2. FILE_ROOT \in Blocks /\ << >> \in Seq(Names) /\ << >> \in Seq(Data \cup {NoData})
  BY BlankType
<1>3. /\ count' \in [Blocks -> Nat] /\ pc' \in [Clients -> Steps]
      /\ cmd' \in [Clients -> FileCommands \cup {"none"}] /\ cwd' \in [Clients -> Blocks]
      /\ path' \in [Clients -> Seq(Names)] /\ tmp' \in [Clients -> Blocks]
      /\ content' \in [Clients -> Seq(Data \cup {NoData})]
  BY <1>1, <1>2 DEF Uncounted, Offline, Idle, AtRoot, AtTop, Steps
<1>4. ASSUME NEW c \in Clients PROVE CommandOK(c)' /\ HandleIn(c, G)'
  <2>1. pc'[c] = "off" /\ cmd'[c] = "none"
    BY <1>1 DEF Offline, Idle
  <2> QED BY <2>1 DEF CommandOK, HandleIn, Live, FileSteps, CdSteps
<1>5. TypeOK'
  BY <1>3, <1>4 DEF TypeOK
<1> QED BY <1>4, <1>5 DEF RunsOn

LEMMA BootKeeps ==
    ASSUME CrashInv, Boot
    PROVE  CrashInv'
<1>1. /\ server = "terminated" /\ server' = "up"
      /\ UNCHANGED <<count, pc, cmd, cwd, path, tmp, content, intact, platter, extent, before>>
  BY DEF Boot
<1>2. OffOK /\ todo = << >> /\ intact
  BY <1>1 DEF CrashInv, OffOK, CrashTypeOK
<1>3. Rested
  BY <1>2, AtRest
<1>4. disk \in [Blocks -> Block]
  BY <1>3 DEF CrashInv, CrashTypeOK, Rested
<1>5. CASE disk[FILE_ROOT].kind # "folder" \/ alloc = NoExtent
  <2>1. /\ disk' = [disk EXCEPT ![FILE_ROOT] = DefaultRootFolder]
        /\ alloc' = DefaultRoot /\ todo' = FormatWrites
    BY <1>5 DEF Boot
  <2>2. /\ AllocOK' /\ disk' \in [Blocks -> Block] /\ disk'[FILE_ROOT] = DefaultRootFolder
        /\ TodoOK' /\ Formatting'
    BY <1>1, <1>3, <1>4, <2>1, FormatTodo
  <2>3. {FILE_ROOT} \in SUBSET Blocks /\ Trees(disk', {FILE_ROOT}) /\ Below({FILE_ROOT}, alloc')
    BY <2>2, BlankType, TreesFormat DEF Below
  <2>4. RunsOn({FILE_ROOT})'
    BY <1>1, <1>2, <2>2, <2>3, Started
  <2>5. \E H \in SUBSET Blocks : RunsOn(H)'
    BY <2>3, <2>4
  <2> QED BY <1>1, <1>2, <2>2, <2>5, MethodKeeps DEF PendingOK
<1>6. CASE disk[FILE_ROOT].kind = "folder" /\ alloc # NoExtent
  <2>1. UNCHANGED <<disk, alloc, todo>>
    BY <1>6 DEF Boot
  <2>2. ExtentOK(alloc) /\ \E G \in SUBSET Blocks : Trees(disk, G) /\ Below(G, alloc)
    BY <1>3, <1>6 DEF CrashInv, RestOK, Rested
  <2>3. PICK G \in SUBSET Blocks : Trees(disk, G) /\ Below(G, alloc)
    BY <2>2
  <2>4. AllocOK'
    BY <2>1, <2>2 DEF AllocOK, ExtentOK
  <2>5. RunsOn(G)'
    BY <1>1, <1>2, <1>4, <2>1, <2>3, <2>4, Started
  <2>6. TodoOK'
    BY <1>1, <1>2, <2>1 DEF CrashInv, TodoOK
  <2>7. PendingOK'
    BY <1>2, <2>1 DEF PendingOK
  <2> QED BY <1>1, <1>2, <2>3, <2>5, <2>6, <2>7, MethodKeeps
<1> QED BY <1>5, <1>6

LEMMA CrashInit == CInit => CrashInv
<1> SUFFICES ASSUME CInit PROVE CrashInv
  OBVIOUS
<1>1. platter \in [Blocks -> Block] /\ platter[FILE_ROOT].kind # "folder"
  BY BlankType DEF CInit, Blank
<1>2. extent \in [start : Blocks, len : Nat]
  <2>1. 0 \in Blocks /\ 0 \in Nat
    BY BlankType DEF FILE_ROOT
  <2> QED BY <2>1 DEF CInit, NoExtent
<1>3. CrashTypeOK /\ OffOK /\ PendingOK
  BY <1>1, <1>2 DEF CInit, CrashTypeOK, OffOK, PendingOK
<1>4. RestOK /\ RunOK
  BY <1>1 DEF CInit, RestOK, RunOK
<1>5. TodoOK
  BY DEF CInit, TodoOK
<1> QED BY <1>3, <1>4, <1>5 DEF CrashInv

LEMMA CrashStep == CrashInv /\ [CNext]_cvars => CrashInv'
<1> SUFFICES ASSUME CrashInv, [CNext]_cvars PROVE CrashInv'
  OBVIOUS
<1>1. ASSUME NEW c \in Clients, Request(c) PROVE CrashInv'
  BY <1>1, RequestKeeps
<1>2. CASE WriteSector
  BY <1>2, WriteKeeps
<1>3. CASE Crash
  BY <1>3, CrashKeeps
<1>4. CASE Boot
  BY <1>4, BootKeeps
<1>5. CASE UNCHANGED cvars
  <2>1. UNCHANGED <<disk, alloc, count, server, pc, cmd, cwd, path, tmp, content, intact>>
        /\ UNCHANGED <<platter, extent, todo, before>>
    BY <1>5 DEF cvars, vars
  <2>2. TypeOK => TypeOK'
    BY <2>1 DEF TypeOK, AllocOK, CommandOK
  <2>3. CrashTypeOK' /\ OffOK' /\ RestOK'
    BY <2>1, <2>2 DEF CrashInv, CrashTypeOK, OffOK, RestOK
  <2>4. RunOK'
    BY <2>1 DEF CrashInv, RunOK, HandleIn, Live
  <2>5. TodoOK'
    BY <2>1 DEF CrashInv, TodoOK, IsRoot
  <2>6. PendingOK'
    BY <2>1 DEF CrashInv, PendingOK, Formatting, Writing, IsRoot
  <2> QED BY <2>3, <2>4, <2>5, <2>6 DEF CrashInv
<1> QED BY <1>1, <1>2, <1>3, <1>4, <1>5 DEF CNext

\* Every state of the file system on a disk that outlives it has its type, and the
\* writes of each method keep to an order that a crash cannot spoil.
THEOREM CrashInvariant == CSpec => []CrashInv
<1> QED BY CrashInit, CrashStep, PTL DEF CSpec

\* Every variable has its type, and between two methods the sectors are the blocks.
THEOREM CrashTypeCorrect == CSpec => []CrashTypeOK
<1>1. CrashInv => CrashTypeOK
  BY DEF CrashInv
<1> QED BY <1>1, CrashInvariant, PTL

\* Whatever method a crash cuts short, and after whichever of its writes, the
\* sectors are unformatted or sound: nothing the root leads to is taken for what
\* it is not, and the allocator hands none of it out again.
THEOREM SoundAfterCrashes == CSpec => []SoundAfterCrash
<1>1. CrashInv => SoundAfterCrash
  <2> SUFFICES ASSUME CrashInv, extent # NoExtent PROVE SoundAfterCrash
    BY DEF SoundAfterCrash
  <2>1. ExtentOK(extent) /\ \E G \in SUBSET Blocks : Trees(platter, G) /\ Below(G, extent)
    BY DEF CrashInv, RestOK
  <2>2. PICK G \in SUBSET Blocks : Trees(platter, G) /\ Below(G, extent)
    BY <2>1
  <2>3. extent.start \in Int
    BY <2>1, SizeAssumption DEF ExtentOK, Blocks
  <2>4. Sound(platter, extent)
    BY <2>2, <2>3, TreesAreSound
  <2> QED BY <2>4 DEF SoundAfterCrash
<1> QED BY <1>1, CrashInvariant, PTL

-----------------------------------------------------------------------------
(* What users see after a crash *)

\* Of the trees of d only data, and what files point to, is different on e.
Alike(d, e, G) ==
    \A a \in G : /\ e[a].kind = d[a].kind
                 /\ d[a].kind \in NodeKinds => e[a].parent = d[a].parent /\ e[a].name = d[a].name
                 /\ d[a].kind = "folder" => e[a].ptrs = d[a].ptrs
                 /\ d[a].kind = "file" => \A i \in DOMAIN e[a].ptrs : e[e[a].ptrs[i]].kind = "data"
                 /\ d[a].kind \notin NodeKinds => DOMAIN e[a].ptrs = {}

LEMMA AlikePaths ==
    ASSUME NEW d \in [Blocks -> Block], NEW e \in [Blocks -> Block],
           NEW G \in SUBSET Blocks, Trees(d, G), Alike(d, e, G)
    PROVE  PathsIn(e) = PathsIn(d)
<1>1. FILE_ROOT \in G /\ G \subseteq Blocks
  BY DEF Trees
<1>2. \A a \in G : /\ e[a].kind = d[a].kind
                   /\ d[a].kind \in NodeKinds => e[a].parent = d[a].parent /\ e[a].name = d[a].name
                   /\ d[a].kind = "folder" => e[a].ptrs = d[a].ptrs
                   /\ d[a].kind \in NodeKinds /\ a # FILE_ROOT =>
                         d[a].parent \in G /\ d[d[a].parent].kind = "folder"
  BY DEF Alike, Trees
<1>3. \A a \in G : \A i \in DOMAIN d[a].ptrs :
         d[a].ptrs[i] \in G \/ d[d[a].ptrs[i]].kind \notin NodeKinds
  BY TreesPoint
<1>4. ASSUME NEW a \in G, NEW i \in DOMAIN e[a].ptrs
      PROVE  e[a].ptrs[i] \in G \/ e[e[a].ptrs[i]].kind \notin NodeKinds
  <2>1. CASE d[a].kind = "folder"
    <3>1. e[a].ptrs = d[a].ptrs
      BY <1>2, <2>1
    <3>2. d[a].ptrs[i] \in G
      BY <3>1, TreesPoint
    <3> QED BY <3>1, <3>2
  <2>2. CASE d[a].kind = "file"
    BY <2>2 DEF Alike, NodeKinds
  <2>3. CASE d[a].kind \notin NodeKinds
    BY <2>3 DEF Alike
  <2> QED BY <2>1, <2>2, <2>3 DEF NodeKinds
<1>5. \A a \in G : \A i \in DOMAIN e[a].ptrs :
         e[a].ptrs[i] \in G \/ e[e[a].ptrs[i]].kind \notin NodeKinds
  BY <1>4
<1> QED BY <1>1, <1>2, <1>3, <1>5, PathsAgree

\* The block that a path of trees leads to is a node of theirs.
LEMMA PathLeads ==
    ASSUME NEW d \in [Blocks -> Block], NEW G \in SUBSET Blocks, Trees(d, G),
           NEW x \in Blocks, PathsIn(d)[x] # {}
    PROVE  x \in G /\ d[x].kind \in NodeKinds
<1>1. \A a \in G : \A i \in DOMAIN d[a].ptrs :
         d[a].ptrs[i] \in G \/ d[d[a].ptrs[i]].kind \notin NodeKinds
  BY TreesPoint
<1>2. FILE_ROOT \in G /\ G \subseteq Blocks
  BY DEF Trees
<1>3. x \in G
  BY <1>1, <1>2, PathsStayWithin
<1>4. d[x].kind \in NodeKinds
  <2>1. CASE x = FILE_ROOT
    BY <2>1 DEF Trees, NodeKinds
  <2>2. CASE x # FILE_ROOT
    BY <2>2, PathsUp DEF Paths
  <2> QED BY <2>1, <2>2
<1> QED BY <1>3, <1>4

\* The block at a path, and the tree in its terms
At(d, p) == CHOOSE b \in Blocks : p \in PathsIn(d)[b]

LEMMA TreeIs ==
    ASSUME NEW d
    PROVE  /\ DOMAIN TreeOf(d) = UNION {PathsIn(d)[b] : b \in Blocks}
           /\ \A p \in DOMAIN TreeOf(d) : /\ TreeOf(d)[p] = Seen(d, At(d, p))
                                          /\ At(d, p) \in Blocks /\ p \in PathsIn(d)[At(d, p)]
<1>1. TreeOf(d) = [p \in UNION {PathsIn(d)[b] : b \in Blocks} |-> Seen(d, At(d, p))]
  BY DEF TreeOf, At
<1>2. ASSUME NEW p \in UNION {PathsIn(d)[b] : b \in Blocks}
      PROVE  At(d, p) \in Blocks /\ p \in PathsIn(d)[At(d, p)]
  <2>1. PICK b \in Blocks : p \in PathsIn(d)[b]
    OBVIOUS
  <2> QED BY <2>1 DEF At
<1> QED BY <1>1, <1>2

\* While a method writes, the sectors have the paths they had when it began.
LEMMA WritingPaths ==
    ASSUME CrashTypeOK, NEW G \in SUBSET Blocks, Writing(G)
    PROVE  PathsIn(platter) = PathsIn(before)
<1>1. platter \in [Blocks -> Block] /\ before \in [Blocks -> Block] /\ Trees(before, G)
  BY DEF CrashTypeOK, Writing
<1>2. \A b \in G : \/ platter[b] = before[b]
                   \/ before[b].kind = "data" /\ platter[b].kind = "data" /\ platter[b].ptrs = << >>
  BY DEF Writing
<1>3. Alike(before, platter, G)
  <2> SUFFICES ASSUME NEW a \in G
               PROVE  /\ platter[a].kind = before[a].kind
                      /\ before[a].kind \in NodeKinds => /\ platter[a].parent = before[a].parent
                                                         /\ platter[a].name = before[a].name
                      /\ before[a].kind = "folder" => platter[a].ptrs = before[a].ptrs
                      /\ before[a].kind = "file" =>
                            \A i \in DOMAIN platter[a].ptrs : platter[platter[a].ptrs[i]].kind = "data"
                      /\ before[a].kind \notin NodeKinds => DOMAIN platter[a].ptrs = {}
    BY DEF Alike
  <2>1. CASE before[a].kind \in NodeKinds
    <3>1. platter[a] = before[a] /\ before[a].kind # "data"
      BY <1>2, <2>1 DEF NodeKinds
    <3>2. ASSUME before[a].kind = "file", NEW i \in DOMAIN before[a].ptrs
          PROVE  platter[before[a].ptrs[i]].kind = "data"
      <4>1. before[a].ptrs[i] \in G /\ before[before[a].ptrs[i]].kind = "data"
        BY <1>1, <3>2, TreesPoint
      <4> QED BY <1>2, <4>1
    <3> QED BY <2>1, <3>1, <3>2
  <2>2. CASE before[a].kind \notin NodeKinds
    <3>1. DOMAIN before[a].ptrs = {}
      BY <1>1, <2>2, TreesPoint
    <3> QED BY <1>2, <2>2, <3>1 DEF NodeKinds
  <2> QED BY <2>1, <2>2
<1> QED BY <1>1, <1>3, AlikePaths

\* Where a block of a file x is not what it was, x is the file that is written: it is
\* where it was, and of the blocks it keeps each is the old one or the new one.
LEMMA WritingFile ==
    ASSUME CrashTypeOK, disk \in [Blocks -> Block], NEW G \in SUBSET Blocks, Writing(G),
           NEW x \in G, before[x].kind = "file", NEW m \in DOMAIN before[x].ptrs,
           platter[before[x].ptrs[m]] # before[before[x].ptrs[m]]
    PROVE  /\ PathsIn(disk) = PathsIn(before) /\ disk[x].kind = "file"
           /\ \A i \in DOMAIN before[x].ptrs :
                 LET b == before[x].ptrs[i]
                 IN  \/ platter[b] = before[b]
                     \/ /\ i \in DOMAIN disk[x].ptrs /\ disk[x].ptrs[i] = b
                        /\ platter[b] = disk[b]
<1>1. before \in [Blocks -> Block] /\ Trees(before, G)
  BY DEF CrashTypeOK, Writing
<1>2. /\ \A b \in G : \/ platter[b] = before[b]
                      \/ before[b].kind = "data" /\ platter[b] = disk[b]
      /\ \A b \in G : /\ disk[b].kind = before[b].kind
                      /\ disk[b].kind = "data" => disk[b].ptrs = << >>
                      /\ disk[b].kind = "file" => \A i \in DOMAIN disk[b].ptrs : disk[disk[b].ptrs[i]].kind = "data"
  BY DEF Writing
<1>3. ASSUME NEW i \in DOMAIN before[x].ptrs
      PROVE  before[x].ptrs[i] \in G /\ before[before[x].ptrs[i]].kind = "data"
  BY <1>1, TreesPoint
<1>4. ~ \A b \in G : before[b].kind = "data" => disk[b] = before[b]
  BY <1>2, <1>3
<1>5. PICK f \in G :
         /\ before[f].kind = "file"
         /\ disk[f] = [before[f] EXCEPT !.ptrs = disk[f].ptrs]
         /\ \A i \in DOMAIN disk[f].ptrs \cap DOMAIN before[f].ptrs : disk[f].ptrs[i] = before[f].ptrs[i]
         /\ \A b \in G \ {f} : \/ disk[b] = before[b]
                               \/ \E i \in DOMAIN disk[f].ptrs \cap DOMAIN before[f].ptrs : before[f].ptrs[i] = b
  BY <1>4 DEF Writing
\* The pointer to a block that is written is the file's own.
<1>6. ASSUME NEW i \in DOMAIN before[x].ptrs,
             platter[before[x].ptrs[i]] # before[before[x].ptrs[i]]
      PROVE  /\ x = f /\ i \in DOMAIN disk[x].ptrs /\ disk[x].ptrs[i] = before[x].ptrs[i]
             /\ platter[before[x].ptrs[i]] = disk[before[x].ptrs[i]]
  <2>1. PICK b : b = before[x].ptrs[i]
    OBVIOUS
  <2>2. b \in G /\ before[b].kind = "data" /\ platter[b] = disk[b] /\ disk[b] # before[b]
    BY <1>2, <1>3, <1>6, <2>1
  <2>3. b # f
    BY <1>5, <2>2
  <2>4. PICK j \in DOMAIN disk[f].ptrs \cap DOMAIN before[f].ptrs : before[f].ptrs[j] = b
    BY <1>5, <2>2, <2>3
  <2>5. x = f /\ i = j
    BY <1>1, <2>1, <2>4, TreesOnce
  <2> QED BY <1>5, <2>1, <2>2, <2>4, <2>5
<1>7. x = f
  BY <1>6
<1>8. disk[x].kind = "file"
  BY <1>2
<1>9. Alike(before, disk, G)
  <2> SUFFICES ASSUME NEW a \in G
               PROVE  /\ disk[a].kind = before[a].kind
                      /\ before[a].kind \in NodeKinds => /\ disk[a].parent = before[a].parent
                                                         /\ disk[a].name = before[a].name
                      /\ before[a].kind = "folder" => disk[a].ptrs = before[a].ptrs
                      /\ before[a].kind = "file" =>
                            \A i \in DOMAIN disk[a].ptrs : disk[disk[a].ptrs[i]].kind = "data"
                      /\ before[a].kind \notin NodeKinds => DOMAIN disk[a].ptrs = {}
    BY DEF Alike
  <2>1. disk[a].kind = before[a].kind
    BY <1>2
  <2>2. before[a].kind = "file" => \A i \in DOMAIN disk[a].ptrs : disk[disk[a].ptrs[i]].kind = "data"
    BY <1>2
  <2>3. CASE a = f
    <3>1. disk[f].parent = before[f].parent /\ disk[f].name = before[f].name
      <4>1. before[f] \in Block
        BY <1>1, <1>5
      <4>2. PICK q : q = disk[f].ptrs
        OBVIOUS
      <4>3. disk[f] = [before[f] EXCEPT !.ptrs = q]
        BY <1>5, <4>2
      <4> QED BY <4>1, <4>3 DEF Block
    <3> QED BY <1>5, <2>1, <2>2, <2>3, <3>1 DEF NodeKinds
  <2>4. CASE a # f /\ disk[a] = before[a]
    <3>1. before[a].kind \notin NodeKinds => DOMAIN before[a].ptrs = {}
      BY <1>1, TreesPoint
    <3> QED BY <2>2, <2>4, <3>1
  <2>5. CASE \E i \in DOMAIN disk[f].ptrs \cap DOMAIN before[f].ptrs : before[f].ptrs[i] = a
    <3>1. before[a].kind = "data"
      BY <1>3, <1>7, <2>5
    <3>2. disk[a].ptrs = << >>
      BY <1>2, <3>1
    <3> QED BY <2>1, <3>1, <3>2 DEF NodeKinds
  <2> QED BY <1>5, <2>3, <2>4, <2>5
<1>10. PathsIn(disk) = PathsIn(before)
  BY <1>1, <1>9, AlikePaths
<1>11. \A i \in DOMAIN before[x].ptrs :
          \/ platter[before[x].ptrs[i]] = before[before[x].ptrs[i]]
          \/ /\ i \in DOMAIN disk[x].ptrs /\ disk[x].ptrs[i] = before[x].ptrs[i]
             /\ platter[before[x].ptrs[i]] = disk[before[x].ptrs[i]]
  BY <1>6
<1> QED BY <1>8, <1>10, <1>11

\* The data of a file's blocks
DataOf(d, x) == [i \in DOMAIN d[x].ptrs |-> d[d[x].ptrs[i]].data]

LEMMA DataLength ==
    ASSUME NEW d \in [Blocks -> Block], NEW x \in Blocks
    PROVE  Len(DataOf(d, x)) = Len(d[x].ptrs) /\ DOMAIN DataOf(d, x) = DOMAIN d[x].ptrs
<1>1. d[x].ptrs \in Seq(Blocks)
  BY DEF Block
<1>2. PICK n \in Nat : DOMAIN d[x].ptrs = 1 .. n /\ n = Len(d[x].ptrs)
  BY <1>1
<1>3. DataOf(d, x) = [i \in 1 .. n |-> d[d[x].ptrs[i]].data]
  BY <1>2 DEF DataOf
<1> QED BY <1>2, <1>3

\* What users see at a node of the trees: what was there, or a mixture.
LEMMA WritingNode ==
    ASSUME CrashTypeOK, disk \in [Blocks -> Block], NEW G \in SUBSET Blocks, Writing(G),
           NEW x \in G, before[x].kind \in NodeKinds
    PROVE  \/ Seen(platter, x) = Seen(before, x)
           \/ /\ PathsIn(disk) = PathsIn(before)
              /\ Seen(platter, x).kind = "file"
              /\ Mixed(Seen(platter, x).content, Seen(before, x).content, Seen(disk, x).content)
<1>1. platter[x] = before[x]
  BY DEF Writing, NodeKinds
<1>2. \A d : Seen(d, x) = [kind |-> d[x].kind,
                           content |-> IF d[x].kind = "file" THEN DataOf(d, x) ELSE << >>]
  BY DEF Seen, DataOf
<1>3. CASE before[x].kind # "file"
  BY <1>1, <1>2, <1>3
<1>4. CASE before[x].kind = "file" /\ \A i \in DOMAIN before[x].ptrs :
              platter[before[x].ptrs[i]] = before[before[x].ptrs[i]]
  <2>1. DataOf(platter, x) = DataOf(before, x)
    BY <1>1, <1>4 DEF DataOf
  <2> QED BY <1>1, <1>2, <2>1
<1>5. CASE before[x].kind = "file" /\ \E i \in DOMAIN before[x].ptrs :
              platter[before[x].ptrs[i]] # before[before[x].ptrs[i]]
  <2>1. /\ PathsIn(disk) = PathsIn(before) /\ disk[x].kind = "file"
        /\ \A i \in DOMAIN before[x].ptrs :
              \/ platter[before[x].ptrs[i]] = before[before[x].ptrs[i]]
              \/ /\ i \in DOMAIN disk[x].ptrs /\ disk[x].ptrs[i] = before[x].ptrs[i]
                 /\ platter[before[x].ptrs[i]] = disk[before[x].ptrs[i]]
    BY <1>5, WritingFile
  <2>2. platter \in [Blocks -> Block] /\ before \in [Blocks -> Block] /\ x \in Blocks
    BY DEF CrashTypeOK
  <2> DEFINE now == DataOf(platter, x)
             old == DataOf(before, x)
             new == DataOf(disk, x)
  <2>3. Len(now) = Len(old) /\ DOMAIN now = DOMAIN before[x].ptrs /\ DOMAIN old = DOMAIN before[x].ptrs
        /\ DOMAIN new = DOMAIN disk[x].ptrs
    BY <1>1, <2>2, DataLength
  <2>4. ASSUME NEW i \in DOMAIN before[x].ptrs
        PROVE  \/ now[i] = old[i]
               \/ i \in DOMAIN disk[x].ptrs /\ now[i] = new[i]
    BY <1>1, <2>1 DEF DataOf
  <2> HIDE DEF now, old, new
  <2>5. Mixed(now, old, new)
    BY <2>3, <2>4 DEF Mixed
  <2>6. \A d : d[x].kind = "file" => Seen(d, x).kind = "file" /\ Seen(d, x).content = DataOf(d, x)
    BY <1>2
  <2>7. Seen(platter, x).kind = "file" /\ Seen(platter, x).content = now
    <3>1. platter[x].kind = "file"
      BY <1>1, <1>5
    <3> QED BY <2>6, <3>1 DEF now
  <2>8. Seen(before, x).content = old
    BY <1>5, <2>6 DEF old
  <2>9. Seen(disk, x).content = new
    BY <2>1, <2>6 DEF new
  <2> QED BY <2>1, <2>5, <2>7, <2>8, <2>9
<1> QED BY <1>3, <1>4, <1>5

\* What users see of the sectors, whatever is still to be written
LEMMA SeenWhole ==
    ASSUME CrashInv
    PROVE  AllOrNothing
<1> DEFINE old == TreeOf(before)
           new == TreeOf(disk)
           now == TreeOf(platter)
<1>1. CASE todo = << >> \/ Formatting
  <2>1. platter = disk \/ platter = before
    BY <1>1 DEF CrashInv, CrashTypeOK, Formatting
  <2>2. now = new \/ now = old
    BY <2>1
  <2> QED BY <2>2 DEF AllOrNothing
<1>2. CASE todo # << >> /\ \E G \in SUBSET Blocks : Writing(G)
  <2>1. PICK G \in SUBSET Blocks : Writing(G)
    BY <1>2
  <2>2. CrashTypeOK /\ server = "up"
    BY <1>2 DEF CrashInv, OffOK, CrashTypeOK
  <2>3. disk \in [Blocks -> Block] /\ before \in [Blocks -> Block]
    BY <2>2 DEF CrashTypeOK, TypeOK
  <2>4. PathsIn(platter) = PathsIn(before) /\ Trees(before, G)
    BY <2>1, <2>2, WritingPaths DEF Writing
  <2>5. DOMAIN now = DOMAIN old /\ \A p : At(platter, p) = At(before, p)
    BY <2>4, TreeIs DEF At
  <2>6. ASSUME NEW p \in DOMAIN now
        PROVE  \/ now[p] = old[p]
               \/ /\ p \in DOMAIN old \cap DOMAIN new
                  /\ now[p].kind = "file"
                  /\ Mixed(now[p].content, old[p].content, new[p].content)
    <3> DEFINE x == At(before, p)
    <3>1. /\ p \in DOMAIN old /\ old[p] = Seen(before, x) /\ now[p] = Seen(platter, x)
          /\ x \in Blocks /\ p \in PathsIn(before)[x]
      BY <2>5, TreeIs
    <3>2. x \in G /\ before[x].kind \in NodeKinds
      BY <2>3, <2>4, <3>1, PathLeads
    <3>3. ASSUME PathsIn(disk) = PathsIn(before)
          PROVE  p \in DOMAIN new /\ new[p] = Seen(disk, x)
      <4>1. At(disk, p) = x
        BY <3>3 DEF At
      <4>2. p \in DOMAIN new
        <5>1. DOMAIN new = UNION {PathsIn(disk)[b] : b \in Blocks}
          BY TreeIs
        <5> HIDE DEF new
        <5> QED BY <3>1, <3>3, <5>1
      <4> QED BY <4>1, <4>2, TreeIs
    <3> HIDE DEF x, now, old, new
    <3>4. \/ Seen(platter, x) = Seen(before, x)
          \/ /\ PathsIn(disk) = PathsIn(before)
             /\ Seen(platter, x).kind = "file"
             /\ Mixed(Seen(platter, x).content, Seen(before, x).content, Seen(disk, x).content)
      BY <2>1, <2>2, <2>3, <3>2, WritingNode
    <3> QED BY <3>1, <3>3, <3>4
  <2> HIDE DEF now, old, new
  <2>7. \E t \in {old, new} :
          /\ DOMAIN now = DOMAIN t
          /\ \A p \in DOMAIN now :
                \/ now[p] = t[p]
                \/ /\ p \in DOMAIN old \cap DOMAIN new
                   /\ now[p].kind = "file"
                   /\ Mixed(now[p].content, old[p].content, new[p].content)
    BY <2>5, <2>6
  <2> QED BY <2>7 DEF AllOrNothing, old, new, now
<1> QED BY <1>1, <1>2 DEF CrashInv, PendingOK

\* A crash in the middle of a method leaves the tree of names before it or the one
\* after it; at most the file that was being written has blocks of both.
THEOREM WholeAfterCrashes == CSpec => []AllOrNothing
<1> QED BY SeenWhole, CrashInvariant, PTL

LEMMA PersistStep ==
    ASSUME CrashInv, [CNext]_cvars, server' # server, todo = << >>, disk[FILE_ROOT].kind = "folder"
    PROVE  TreeOf(disk)' = TreeOf(disk)
<1>1. Rested
  BY AtRest
<1>2. \A c \in Clients : ~Request(c)
  <2>1. ASSUME NEW c \in Clients, Quiet(c) PROVE FALSE
    BY <2>1, QuietIs
  <2>2. ASSUME NEW c \in Clients, Method(c) PROVE FALSE
    BY <2>2 DEF Method, CreateNode, RemoveNode, Store, Format, Goto
  <2> QED BY <2>1, <2>2 DEF Request
<1>3. Crash \/ Boot
  BY <1>2 DEF CNext, WriteSector, cvars, vars
<1>4. CASE Crash
  BY <1>1, <1>4 DEF Crash, Rested
<1>5. CASE Boot
  <2>1. CASE alloc # NoExtent
    <3>1. disk' = disk
      BY <1>5, <2>1 DEF Boot
    <3> QED BY <3>1
  <2>2. CASE alloc = NoExtent
    <3>1. disk[FILE_ROOT] = DefaultRootFolder
      BY <1>1, <2>2 DEF CrashInv, RestOK, Rested
    <3>2. disk' = [disk EXCEPT ![FILE_ROOT] = DefaultRootFolder]
      BY <1>5, <2>2 DEF Boot
    <3>3. disk \in [Blocks -> Block]
      BY <1>1 DEF CrashInv, CrashTypeOK, Rested
    <3>4. disk' = disk
      BY <3>1, <3>2, <3>3
    <3> QED BY <3>4
  <2> QED BY <2>1, <2>2
<1> QED BY <1>3, <1>4, <1>5

\* What a method has stored when it returned is still there when the process has
\* ended, and when the next one has started: neither step changes the tree.
THEOREM StoredIsPersistent == CSpec => Persistent
<1>1. CrashInv /\ [CNext]_cvars =>
         [server' # server /\ todo = << >> /\ disk[FILE_ROOT].kind = "folder" =>
             TreeOf(disk)' = TreeOf(disk)]_cvars
  BY PersistStep
<1> QED BY <1>1, CrashInvariant, PTL DEF CSpec, Persistent
=============================================================================
