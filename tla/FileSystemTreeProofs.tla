------------------------- MODULE FileSystemTreeProofs -------------------------
(***************************************************************************)
(* The tree of FileSystem stays sound as long as the disk is intact, for   *)
(* every value of the constants: TreeSound is inductive, and what the      *)
(* requests rely on follows from it.                                       *)
(***************************************************************************)
EXTENDS FileSystemProofs, SequenceTheorems

\* The allocated blocks are blocks of the disk.
LEMMA AllocatedType ==
    ASSUME TypeOK
    PROVE  /\ Allocated \subseteq Blocks
           /\ alloc.start \in Blocks \ Allocated
           /\ \A a \in Allocated : a < alloc.start
           /\ \A a \in Allocated : disk[a] \in Block /\ disk[a].ptrs \in Seq(Blocks)
           /\ FILE_ROOT \in Allocated
<1>1. /\ Allocated \subseteq Blocks
      /\ alloc.start \in Blocks \ Allocated
      /\ \A a \in Allocated : a < alloc.start
      /\ FILE_ROOT \in Allocated
  BY SizeAssumption DEF TypeOK, AllocOK, Allocated, Blocks, FILE_ROOT, RESERVED_BLOCKS
<1> QED BY <1>1 DEF TypeOK, Block

\* A thread that waits for a request has a current folder that is allocated.
LEMMA IdleFolder ==
    ASSUME TreeOK, NEW c \in Clients, pc[c] = "idle"
    PROVE  cwd[c] \in Allocated /\ disk[cwd[c]].kind = "folder"
BY DEF TreeOK, HandleOK, Live, Folders

\* create writes one new node, above all the others, and appends it to the current
\* folder, where no child had the name.
LEMMA CreateEffect ==
    ASSUME TypeOK, TreeOK, NEW c \in Clients, NEW k \in NodeKinds, CreateNode(c, k),
           intact, intact'
    PROVE  LET b == alloc.start
               p == cwd[c]
               L == Len(disk[p].ptrs)
           IN  /\ pc[c] = "idle" /\ UNCHANGED <<pc, cwd, tmp>>
               /\ p \in Allocated /\ disk[p].kind = "folder" /\ p # b /\ p < b
               /\ Allocated' = Allocated \cup {b}
               /\ b \notin Allocated /\ b \in Blocks /\ b # FILE_ROOT
               /\ disk'[b].kind = k /\ disk'[b].parent = p /\ disk'[b].ptrs = << >>
               /\ disk'[b].name \in Names /\ CreateReply(p, disk'[b].name) = "ok"
               /\ \A a \in Allocated : /\ disk'[a].kind = disk[a].kind
                                       /\ disk'[a].parent = disk[a].parent
                                       /\ disk'[a].name = disk[a].name
                                       /\ a # p => disk'[a] = disk[a]
               /\ disk[p].ptrs \in Seq(Blocks) /\ L \in Nat
               /\ DOMAIN disk[p].ptrs = 1 .. L
               /\ disk'[p].ptrs = Append(disk[p].ptrs, b)
               /\ DOMAIN disk'[p].ptrs = 1 .. L + 1
               /\ \A i \in 1 .. L : disk'[p].ptrs[i] = disk[p].ptrs[i]
               /\ disk'[p].ptrs[L + 1] = b
<1> DEFINE b == alloc.start
           p == cwd[c]
           L == Len(disk[p].ptrs)
<1>1. alloc.len > 1 /\ NewBlock(alloc, 0) = b /\ alloc'.start = b + 1
  <2>1. ~Exhausts(alloc, 1) /\ alloc' = Rest(alloc, 1)
    BY DEF CreateNode
  <2>2. alloc.len \in Nat /\ alloc.start \in Nat /\ alloc.len >= 1
    BY SizeAssumption DEF TypeOK, AllocOK, Blocks
  <2> QED BY <2>1, <2>2 DEF Exhausts, NewBlock, Rest
<1>2. PICK n \in Names :
         /\ CreateReply(p, n) = "ok"
         /\ disk' = [disk EXCEPT ![b] = NewNode(k, n, p),
                                 ![p] = [disk[p] EXCEPT !.ptrs = Append(@, b)]]
  BY <1>1 DEF CreateNode
<1>3. pc[c] = "idle" /\ pc' = pc /\ UNCHANGED <<cwd, tmp>>
  BY DEF CreateNode, Goto, TypeOK
<1>4. p \in Allocated /\ disk[p].kind = "folder" /\ p # b /\ p < b
  BY <1>3, IdleFolder, AllocatedType
<1>5. Allocated' = Allocated \cup {b} /\ b \notin Allocated /\ b \in Blocks /\ b # FILE_ROOT
  <2>1. b \in Nat /\ b >= RESERVED_BLOCKS /\ alloc'.start - 1 = b
    BY <1>1, SizeAssumption DEF TypeOK, AllocOK, Blocks
  <2>2. RESERVED_BLOCKS .. b = (RESERVED_BLOCKS .. b - 1) \cup {b}
    BY <2>1 DEF RESERVED_BLOCKS
  <2>3. Allocated' = Allocated \cup {b}
    BY <2>1, <2>2 DEF Allocated
  <2> QED BY <2>1, <2>3, AllocatedType DEF FILE_ROOT, RESERVED_BLOCKS
<1>6. /\ disk'[b] = NewNode(k, n, p)
      /\ \A a \in Allocated \ {p} : disk'[a] = disk[a]
      /\ /\ disk'[p].ptrs = Append(disk[p].ptrs, b) /\ disk'[p].kind = disk[p].kind
         /\ disk'[p].parent = disk[p].parent /\ disk'[p].name = disk[p].name
  <2>1. disk'[b] = NewNode(k, n, p)
    BY <1>2, <1>4, <1>5 DEF TypeOK
  <2>2. disk'[p] = [disk[p] EXCEPT !.ptrs = Append(disk[p].ptrs, b)]
    BY <1>2, <1>4, AllocatedType DEF TypeOK
  <2>3. \A a \in Allocated \ {p} : disk'[a] = disk[a]
    BY <1>2, <1>5, AllocatedType DEF TypeOK
  <2>4. disk[p] \in Block
    BY <1>4, AllocatedType
  <2>5. disk'[p].ptrs = Append(disk[p].ptrs, b) /\ disk'[p].kind = disk[p].kind
        /\ disk'[p].parent = disk[p].parent /\ disk'[p].name = disk[p].name
    BY <2>2, <2>4 DEF Block
  <2> QED BY <2>1, <2>3, <2>5
<1>7. /\ disk[p].ptrs \in Seq(Blocks) /\ L \in Nat
      /\ DOMAIN disk[p].ptrs = 1 .. L
      /\ DOMAIN disk'[p].ptrs = 1 .. L + 1
      /\ \A i \in 1 .. L : disk'[p].ptrs[i] = disk[p].ptrs[i]
      /\ disk'[p].ptrs[L + 1] = b
  BY <1>4, <1>5, <1>6, AllocatedType
<1>8. /\ disk'[b].kind = k /\ disk'[b].parent = p /\ disk'[b].ptrs = << >> /\ disk'[b].name = n
  BY <1>6 DEF NewNode
<1> QED BY <1>2, <1>3, <1>4, <1>5, <1>6, <1>7, <1>8

\* create keeps the tree sound.
LEMMA TreeCreate ==
    ASSUME TypeOK, TreeOK, NEW c \in Clients, NEW k \in NodeKinds, CreateNode(c, k),
           intact, intact'
    PROVE  TreeOK'
<1> DEFINE b == alloc.start
           p == cwd[c]
           L == Len(disk[p].ptrs)
<1>3. pc[c] = "idle" /\ pc' = pc /\ UNCHANGED <<cwd, tmp>>
  BY CreateEffect
<1>4. p \in Allocated /\ disk[p].kind = "folder" /\ p # b /\ p < b
  BY CreateEffect
<1>5. Allocated' = Allocated \cup {b} /\ b \notin Allocated /\ b \in Blocks /\ b # FILE_ROOT
  BY CreateEffect
<1>6. /\ disk'[b].kind = k /\ disk'[b].parent = p /\ disk'[b].ptrs = << >>
      /\ \A a \in Allocated : disk'[a].kind = disk[a].kind /\ disk'[a].parent = disk[a].parent
      /\ \A a \in Allocated \ {p} : disk'[a].ptrs = disk[a].ptrs
      /\ disk'[p].ptrs = Append(disk[p].ptrs, b)
  BY CreateEffect
<1>7. /\ disk[p].ptrs \in Seq(Blocks) /\ L \in Nat
      /\ DOMAIN disk[p].ptrs = 1 .. L
      /\ DOMAIN disk'[p].ptrs = 1 .. L + 1
      /\ \A i \in 1 .. L : disk'[p].ptrs[i] = disk[p].ptrs[i]
      /\ disk'[p].ptrs[L + 1] = b
  BY CreateEffect
\* A pointer of the new state is the one to the new node, or was there before.
<1>8. ASSUME NEW a \in Allocated', NEW i \in DOMAIN disk'[a].ptrs
      PROVE  \/ a = p /\ i = L + 1 /\ disk'[a].ptrs[i] = b
             \/ a \in Allocated /\ i \in DOMAIN disk[a].ptrs /\ disk'[a].ptrs[i] = disk[a].ptrs[i]
  <2>1. CASE a = b
    BY <2>1, <1>6
  <2>2. CASE a = p
    <3>1. i \in 1 .. L + 1
      BY <2>2, <1>7
    <3>2. CASE i = L + 1
      BY <2>2, <3>2, <1>7
    <3>3. CASE i \in 1 .. L
      BY <2>2, <3>3, <1>4, <1>7
    <3>4. i = L + 1 \/ i \in 1 .. L
      BY <3>1, <1>7
    <3> QED BY <3>2, <3>3, <3>4
  <2>3. CASE a \in Allocated \ {p}
    BY <2>3, <1>6
  <2> QED BY <1>5, <2>1, <2>2, <2>3
<1>9. \A a \in Allocated : \A i \in DOMAIN disk[a].ptrs : disk[a].ptrs[i] \in Allocated \ {FILE_ROOT, b}
  BY <1>5 DEF TreeOK, PointersOK
<1>10. RootOK'
  BY <1>6, AllocatedType DEF TreeOK, RootOK
<1>11. PointersOK'
  BY <1>5, <1>8, <1>9 DEF PointersOK
<1>12. SingleRefs'
  <2> SUFFICES ASSUME NEW a1 \in Allocated', NEW a2 \in Allocated',
                      NEW i \in DOMAIN disk'[a1].ptrs, NEW j \in DOMAIN disk'[a2].ptrs,
                      disk'[a1].ptrs[i] = disk'[a2].ptrs[j]
               PROVE  a1 = a2 /\ i = j
    BY DEF SingleRefs
  <2>1. SingleRefs
    BY DEF TreeOK
  <2>2. \/ a1 = p /\ i = L + 1 /\ disk'[a1].ptrs[i] = b
        \/ a1 \in Allocated /\ i \in DOMAIN disk[a1].ptrs /\ disk'[a1].ptrs[i] = disk[a1].ptrs[i]
    BY <1>8
  <2>3. \/ a2 = p /\ j = L + 1 /\ disk'[a2].ptrs[j] = b
        \/ a2 \in Allocated /\ j \in DOMAIN disk[a2].ptrs /\ disk'[a2].ptrs[j] = disk[a2].ptrs[j]
    BY <1>8
  <2> QED BY <1>9, <2>1, <2>2, <2>3 DEF SingleRefs
<1>13. ASSUME NEW a \in Allocated' PROVE (FolderOK(a) /\ FileOK(a) /\ LeafOK(a) /\ UpOK(a))'
  <2>1. CASE a = b
    <3>1. Folders \subseteq Folders'
      BY <1>5, <1>6 DEF Folders
    <3>2. p \in Folders'
      BY <1>4, <3>1 DEF Folders
    <3> QED BY <2>1, <1>6, <3>2 DEF FolderOK, FileOK, LeafOK, UpOK
  <2>2. CASE a \in Allocated
    <3>1. FolderOK(a) /\ FileOK(a) /\ LeafOK(a) /\ UpOK(a)
      BY <2>2 DEF TreeOK
    <3>2. FolderOK(a)'
      <4> SUFFICES ASSUME disk'[a].kind = "folder", NEW i \in DOMAIN disk'[a].ptrs
                   PROVE  /\ disk'[disk'[a].ptrs[i]].kind \in NodeKinds
                          /\ disk'[disk'[a].ptrs[i]].parent = a
                          /\ a < disk'[a].ptrs[i]
        BY DEF FolderOK
      <4>1. CASE a = p /\ i = L + 1 /\ disk'[a].ptrs[i] = b
        BY <4>1, <1>4, <1>6
      <4>2. CASE i \in DOMAIN disk[a].ptrs /\ disk'[a].ptrs[i] = disk[a].ptrs[i]
        BY <4>2, <2>2, <1>6, <1>9, <3>1 DEF FolderOK
      <4> QED BY <1>8, <4>1, <4>2
    <3>3. FileOK(a)'
      BY <2>2, <1>4, <1>6, <1>9, <3>1 DEF FileOK
    <3>4. LeafOK(a)'
      BY <2>2, <1>4, <1>6, <3>1 DEF LeafOK, NodeKinds
    <3>5. UpOK(a)'
      BY <2>2, <1>5, <1>6, <3>1 DEF UpOK, Folders
    <3> QED BY <3>2, <3>3, <3>4, <3>5
  <2> QED BY <1>5, <2>1, <2>2
<1>14. ASSUME NEW d \in Clients PROVE HandleOK(d)'
  <2>1. Folders \subseteq Folders' /\ Files \subseteq Files'
    BY <1>5, <1>6 DEF Folders, Files
  <2>2. HandleOK(d)
    BY DEF TreeOK
  <2> QED BY <1>3, <2>1, <2>2 DEF HandleOK, Live
<1> QED BY <1>10, <1>11, <1>12, <1>13, <1>14 DEF TreeOK

\* RemoveAt closes the gap: every element left was one place further or where it is.
LEMMA RemoveAtPlaces ==
    ASSUME NEW S, NEW s \in Seq(S), NEW i \in DOMAIN s
    PROVE  /\ DOMAIN RemoveAt(s, i) = 1 .. Len(s) - 1
           /\ \A j \in 1 .. Len(s) - 1 : RemoveAt(s, i)[j] = s[IF j < i THEN j ELSE j + 1]
<1> DEFINE l == SubSeq(s, 1, i - 1)
           r == SubSeq(s, i + 1, Len(s))
<1>1. Len(s) \in Nat /\ i \in 1 .. Len(s)
  OBVIOUS
<1>2. l \in Seq(S) /\ Len(l) = i - 1 /\ \A j \in 1 .. i - 1 : l[j] = s[j]
  BY <1>1
<1>3. r \in Seq(S) /\ Len(r) = Len(s) - i /\ \A j \in 1 .. Len(s) - i : r[j] = s[j + i]
  BY <1>1
<1>4. RemoveAt(s, i) = l \o r
  BY DEF RemoveAt
<1> i \in Int /\ Len(s) \in Int
  BY <1>1
<1> HIDE DEF l, r
<1>5. Len(l \o r) = Len(s) - 1 /\ l \o r \in Seq(S)
  BY <1>1, <1>2, <1>3, ConcatProperties
<1>6. ASSUME NEW j \in 1 .. Len(s) - 1 PROVE (l \o r)[j] = s[IF j < i THEN j ELSE j + 1]
  <2>1. (l \o r)[j] = IF j <= Len(l) THEN l[j] ELSE r[j - Len(l)]
    BY <1>1, <1>2, <1>3, <1>5, ConcatProperties
  <2>2. CASE j < i
    BY <2>1, <2>2, <1>1, <1>2
  <2>3. CASE ~(j < i)
    <3>1. j - Len(l) \in 1 .. Len(s) - i /\ (j - Len(l)) + i = j + 1
      BY <2>3, <1>1, <1>2
    <3>2. r[j - Len(l)] = s[j + 1]
      BY <3>1, <1>3
    <3> QED BY <2>1, <2>3, <3>2, <1>1, <1>2
  <2> QED BY <2>2, <2>3
<1> QED BY <1>2, <1>3, <1>4, <1>5, <1>6, ConcatProperties

\* remove takes one pointer out of the current folder, one whose node has no count.
LEMMA RemoveEffect ==
    ASSUME TypeOK, TreeOK, NEW c \in Clients, NEW k \in NodeKinds, RemoveNode(c, k)
    PROVE  LET p == cwd[c]
           IN  /\ pc[c] = "idle" /\ UNCHANGED <<pc, cwd, tmp, alloc>>
               /\ Allocated' = Allocated
               /\ p \in Allocated /\ disk[p].kind = "folder"
               /\ disk[p] \in Block /\ disk[p].ptrs \in Seq(Blocks)
               /\ \A a \in Allocated : /\ disk'[a].kind = disk[a].kind
                                       /\ disk'[a].parent = disk[a].parent
                                       /\ disk'[a].name = disk[a].name
                                       /\ a # p => disk'[a] = disk[a]
               /\ \E x \in DOMAIN disk[p].ptrs :
                     /\ disk'[p].ptrs = RemoveAt(disk[p].ptrs, x)
                     /\ ~(count[disk[p].ptrs[x]] > 0)
<1> DEFINE p == cwd[c]
<1>1. PICK x \in DOMAIN disk[p].ptrs : /\ disk' = [disk EXCEPT ![p].ptrs = RemoveAt(@, x)]
                                       /\ ~(count[disk[p].ptrs[x]] > 0)
  <2>1. PICK n \in Names : \E x \in FirstMatch(p, k, n) :
           /\ RemoveReply(p, k, n) = "ok"
           /\ disk' = [disk EXCEPT ![p].ptrs = RemoveAt(@, x)]
    BY DEF RemoveNode
  <2>2. PICK x \in FirstMatch(p, k, n) :
           /\ RemoveReply(p, k, n) = "ok"
           /\ disk' = [disk EXCEPT ![p].ptrs = RemoveAt(@, x)]
    BY <2>1
  <2>3. ~(count[disk[p].ptrs[x]] > 0)
    BY <2>2 DEF RemoveReply
  <2>4. x \in DOMAIN disk[p].ptrs
    BY DEF FirstMatch, Matches
  <2> QED BY <2>2, <2>3, <2>4
<1>2. pc[c] = "idle" /\ UNCHANGED <<pc, alloc, cwd, tmp>>
  BY DEF RemoveNode, Goto, TypeOK
<1>3. Allocated' = Allocated
  BY <1>2 DEF Allocated
<1>4. p \in Allocated /\ disk[p] \in Block /\ disk[p].ptrs \in Seq(Blocks) /\ disk[p].kind = "folder"
  BY <1>2, IdleFolder, AllocatedType
<1>5. disk'[p] = [disk[p] EXCEPT !.ptrs = RemoveAt(disk[p].ptrs, x)]
  BY <1>1, <1>4, AllocatedType DEF TypeOK
<1>6. \A a \in Allocated \ {p} : disk'[a] = disk[a]
  BY <1>1, AllocatedType DEF TypeOK
<1>7. disk'[p].ptrs = RemoveAt(disk[p].ptrs, x) /\ disk'[p].kind = disk[p].kind
      /\ disk'[p].parent = disk[p].parent /\ disk'[p].name = disk[p].name
  BY <1>5, <1>4 DEF Block
<1> QED BY <1>1, <1>2, <1>3, <1>4, <1>6, <1>7

\* remove keeps the tree sound.
LEMMA TreeRemove ==
    ASSUME TypeOK, TreeOK, NEW c \in Clients, NEW k \in NodeKinds, RemoveNode(c, k)
    PROVE  TreeOK'
<1> DEFINE p == cwd[c]
           L == Len(disk[p].ptrs)
<1>1. PICK x \in DOMAIN disk[p].ptrs : disk'[p].ptrs = RemoveAt(disk[p].ptrs, x)
  BY RemoveEffect
<1>2. pc[c] = "idle" /\ pc' = pc /\ UNCHANGED <<alloc, cwd, tmp>>
  BY RemoveEffect
<1>3. Allocated' = Allocated
  BY RemoveEffect
<1>4. p \in Allocated /\ disk[p] \in Block /\ disk[p].ptrs \in Seq(Blocks) /\ disk[p].kind = "folder"
  BY RemoveEffect
<1>5. /\ \A a \in Allocated : disk'[a].kind = disk[a].kind /\ disk'[a].parent = disk[a].parent
      /\ \A a \in Allocated \ {p} : disk'[a].ptrs = disk[a].ptrs
      /\ disk'[p].ptrs = RemoveAt(disk[p].ptrs, x)
  BY <1>1, RemoveEffect
\* Where the pointers of the new state were.
<1> DEFINE Was(a, i) == IF a = p /\ i >= x THEN i + 1 ELSE i
<1>6. ASSUME NEW a \in Allocated, NEW i \in DOMAIN disk'[a].ptrs
      PROVE  Was(a, i) \in DOMAIN disk[a].ptrs /\ disk'[a].ptrs[i] = disk[a].ptrs[Was(a, i)]
  <2>1. CASE a = p
    <3>1. L \in Nat /\ DOMAIN disk[p].ptrs = 1 .. L /\ x \in 1 .. L
      BY <1>4
    <3>2. i \in 1 .. L - 1 /\ disk'[p].ptrs[i] = disk[p].ptrs[IF i < x THEN i ELSE i + 1]
      <4>1. disk[p].ptrs \in Seq(Blocks) /\ disk'[p].ptrs = RemoveAt(disk[p].ptrs, x)
            /\ i \in DOMAIN disk'[p].ptrs
        BY <2>1, <1>4, <1>5
      <4>2. PICK s : s = disk[p].ptrs
        OBVIOUS
      <4>3. s \in Seq(Blocks) /\ x \in DOMAIN s /\ i \in DOMAIN RemoveAt(s, x)
        BY <4>1, <4>2
      <4>4. i \in 1 .. Len(s) - 1 /\ RemoveAt(s, x)[i] = s[IF i < x THEN i ELSE i + 1]
        BY <4>3, RemoveAtPlaces
      <4> QED BY <4>1, <4>2, <4>4
    <3>3. i \in Int /\ x \in Int /\ L \in Int /\ i + 1 \in 1 .. L /\ i \in 1 .. L
      BY <3>1, <3>2
    <3>4. Was(a, i) = IF i < x THEN i ELSE i + 1
      BY <2>1, <3>3
    <3>5. Was(a, i) \in 1 .. L
      BY <3>3, <3>4
    <3> HIDE DEF Was, L
    <3> QED BY <2>1, <3>1, <3>2, <3>4, <3>5
  <2>2. CASE a # p
    BY <2>2, <1>5
  <2> QED BY <2>1, <2>2
<1>7. ASSUME NEW a \in Allocated, NEW i \in DOMAIN disk'[a].ptrs, NEW j \in DOMAIN disk'[a].ptrs,
             Was(a, i) = Was(a, j)
      PROVE  i = j
  <2>1. CASE a = p
    <3>1. i \in Int /\ j \in Int /\ x \in Int
      BY <2>1, <1>4, <1>5, RemoveAtPlaces
    <3> QED BY <1>7, <3>1
  <2>2. CASE a # p
    BY <1>7, <2>2
  <2> QED BY <2>1, <2>2
<1> HIDE DEF Was
<1>8. \A a \in Allocated : \A i \in DOMAIN disk[a].ptrs : disk[a].ptrs[i] \in Allocated \ {FILE_ROOT}
  BY DEF TreeOK, PointersOK
<1>9. RootOK'
  BY <1>5, AllocatedType DEF TreeOK, RootOK
<1>10. PointersOK'
  BY <1>3, <1>6, <1>8 DEF PointersOK
<1>11. SingleRefs'
  <2> SUFFICES ASSUME NEW a1 \in Allocated, NEW a2 \in Allocated,
                      NEW i \in DOMAIN disk'[a1].ptrs, NEW j \in DOMAIN disk'[a2].ptrs,
                      disk'[a1].ptrs[i] = disk'[a2].ptrs[j]
               PROVE  a1 = a2 /\ i = j
    BY <1>3 DEF SingleRefs
  <2>1. SingleRefs
    BY DEF TreeOK
  <2>2. /\ Was(a1, i) \in DOMAIN disk[a1].ptrs /\ disk'[a1].ptrs[i] = disk[a1].ptrs[Was(a1, i)]
        /\ Was(a2, j) \in DOMAIN disk[a2].ptrs /\ disk'[a2].ptrs[j] = disk[a2].ptrs[Was(a2, j)]
    BY <1>6
  <2>3. disk[a1].ptrs[Was(a1, i)] = disk[a2].ptrs[Was(a2, j)]
    BY <2>2
  <2>4. \A m \in DOMAIN disk[a1].ptrs, q \in DOMAIN disk[a2].ptrs :
           disk[a1].ptrs[m] = disk[a2].ptrs[q] => a1 = a2 /\ m = q
    BY <2>1 DEF SingleRefs
  <2>5. a1 = a2 /\ Was(a1, i) = Was(a2, j)
    BY <2>2, <2>3, <2>4
  <2> QED BY <2>5, <1>7
<1>12. ASSUME NEW a \in Allocated' PROVE (FolderOK(a) /\ FileOK(a) /\ LeafOK(a) /\ UpOK(a))'
  <2>1. FolderOK(a) /\ FileOK(a) /\ LeafOK(a) /\ UpOK(a)
    BY <1>3 DEF TreeOK
  <2>2. FolderOK(a)'
    BY <1>3, <1>5, <1>6, <1>8, <2>1 DEF FolderOK
  <2>3. FileOK(a)'
    BY <1>3, <1>5, <1>6, <1>8, <2>1 DEF FileOK
  <2>4. LeafOK(a)'
    BY <1>3, <1>4, <1>5, <2>1 DEF LeafOK, NodeKinds
  <2>5. UpOK(a)'
    BY <1>3, <1>5, <2>1 DEF UpOK, Folders
  <2> QED BY <2>2, <2>3, <2>4, <2>5
<1>13. ASSUME NEW d \in Clients PROVE HandleOK(d)'
  <2>1. Folders' = Folders /\ Files' = Files
    BY <1>3, <1>5 DEF Folders, Files
  <2>2. HandleOK(d)
    BY DEF TreeOK
  <2> QED BY <1>2, <2>1, <2>2 DEF HandleOK, Live
<1> QED BY <1>9, <1>10, <1>11, <1>12, <1>13 DEF TreeOK

\* k calls of new_block that stop short of the last block move the extent by k.
LEMMA ExtentMoves ==
    ASSUME AllocOK, NEW k \in Nat, ~Exhausts(alloc, k)
    PROVE  Rest(alloc, k).start = alloc.start + k /\ (k = 0 \/ k < alloc.len)
<1>1. alloc.start \in Nat /\ alloc.len \in Nat /\ alloc.len >= 1
  BY SizeAssumption DEF AllocOK, Blocks
<1>2. k = 0 \/ k < alloc.len
  BY <1>1 DEF Exhausts
<1>3. NewBlock(alloc, k) = alloc.start + k
  BY <1>1, <1>2 DEF NewBlock
<1>4. Rest(alloc, k).start = alloc.start + (NewBlock(alloc, k) - alloc.start)
  BY DEF Rest
<1> QED BY <1>1, <1>2, <1>3, <1>4

\* write_all keeps the extents a file has, or the first of them, and adds new
\* blocks after them; it writes data blocks and the file's node, nothing else.
LEMMA StoreEffect ==
    ASSUME TypeOK, TreeOK, NEW c \in Clients, Store(c), intact, intact'
    PROVE  LET f == tmp[c]
               New == alloc.start .. alloc'.start - 1
           IN  /\ pc[c] \in {"opened", "loaded"} /\ pc' = [pc EXCEPT ![c] = "done"]
               /\ f \in Files
               /\ Allocated' = Allocated \cup New
               /\ New \cap Allocated = {}
               /\ New \subseteq Blocks \ {FILE_ROOT}
               /\ \A b \in New : disk'[b].kind = "data" /\ disk'[b].ptrs = << >>
               /\ \A a \in Allocated :
                     /\ disk'[a].kind = disk[a].kind
                     /\ disk[a].kind \in NodeKinds => /\ disk'[a].parent = disk[a].parent
                                                     /\ disk'[a].name = disk[a].name
                     /\ a # f => disk'[a].ptrs = disk[a].ptrs
                     /\ a # f /\ a \notin Children(f) => disk'[a] = disk[a]
               /\ \A i \in DOMAIN disk'[f].ptrs :
                     /\ i \in Nat
                     /\ \/ i \in DOMAIN disk[f].ptrs /\ disk'[f].ptrs[i] = disk[f].ptrs[i]
                        \/ /\ disk'[f].ptrs[i] = alloc.start + (i - Len(disk[f].ptrs) - 1)
                           /\ disk'[f].ptrs[i] \in New
<1> DEFINE f == tmp[c]
           had == Len(disk[f].ptrs)
           More(m) == IF m > had THEN m - had ELSE 0
<1>1. PICK n \in 1 .. FileCapacity : \E new \in ToStore(c) :
         \E last \in [{Extents(f, n)[i] : i \in 1 .. n} -> 1 .. n] :
            /\ disk' = [b \in Blocks |->
                          IF b = f THEN [disk[f] EXCEPT !.ptrs = Extents(f, n)]
                          ELSE IF b \in DOMAIN last THEN DataBlock(new[last[b]])
                          ELSE disk[b]]
            /\ alloc' = Rest(alloc, More(n))
            /\ intact' = (intact /\ ~Exhausts(alloc, More(n)))
  BY DEF Store
<1> DEFINE E == Extents(f, n)
           Ext == {E[i] : i \in 1 .. n}
<1>2. PICK new, last :
            /\ DOMAIN last = Ext
            /\ disk' = [b \in Blocks |->
                          IF b = f THEN [disk[f] EXCEPT !.ptrs = E]
                          ELSE IF b \in DOMAIN last THEN DataBlock(new[last[b]])
                          ELSE disk[b]]
            /\ alloc' = Rest(alloc, More(n))
            /\ ~Exhausts(alloc, More(n))
  <2>1. PICK new \in ToStore(c), last \in [Ext -> 1 .. n] :
            /\ disk' = [b \in Blocks |->
                          IF b = f THEN [disk[f] EXCEPT !.ptrs = E]
                          ELSE IF b \in DOMAIN last THEN DataBlock(new[last[b]])
                          ELSE disk[b]]
            /\ alloc' = Rest(alloc, More(n))
            /\ intact' = (intact /\ ~Exhausts(alloc, More(n)))
    BY <1>1
  <2>2. ~Exhausts(alloc, More(n))
    BY <2>1
  <2>3. DOMAIN last = Ext
    OBVIOUS
  <2> QED BY <2>1, <2>2, <2>3
<1>3. /\ pc[c] \in {"opened", "loaded"} /\ UNCHANGED <<cwd, tmp>>
      /\ pc' = [pc EXCEPT ![c] = "done"] /\ pc \in [Clients -> Steps]
  BY DEF Store, Goto, BeforeStore, TypeOK
<1>4. f \in Allocated /\ disk[f].kind = "file" /\ f \in Files
  <2>1. f \in Files
    BY <1>3 DEF TreeOK, HandleOK, FileSteps
  <2> QED BY <2>1 DEF Files
<1>5. /\ disk[f] \in Block /\ disk[f].ptrs \in Seq(Blocks)
      /\ had \in Nat /\ n \in Nat /\ DOMAIN disk[f].ptrs = 1 .. had
  BY <1>4, AllocatedType, CapacityAssumption
<1>6. \A i \in 1 .. had : disk[f].ptrs[i] \in Allocated \ {FILE_ROOT} /\ disk[disk[f].ptrs[i]].kind = "data"
  BY <1>4, <1>5 DEF TreeOK, PointersOK, FileOK
\* The allocator moves past exactly the new extents.
<1> DEFINE s == alloc.start
           k == More(n)
<1>7. s \in Nat /\ alloc.len \in Nat /\ s >= RESERVED_BLOCKS /\ alloc.len >= 1 /\ s + alloc.len = MaxBlocks
  BY SizeAssumption DEF TypeOK, AllocOK, Blocks
<1> HIDE DEF had
<1>8. k \in Nat /\ (n > had => k = n - had) /\ (~(n > had) => k = 0)
  BY <1>5
<1> HIDE DEF k
<1>9. alloc'.start = s + k /\ (k = 0 \/ k < alloc.len)
  <2>1. alloc' = Rest(alloc, k) /\ ~Exhausts(alloc, k)
    BY <1>2 DEF k
  <2>2. AllocOK
    BY DEF TypeOK
  <2> QED BY <1>8, <2>1, <2>2, ExtentMoves
<1> HIDE DEF s, More
<1>10. /\ Allocated' = Allocated \cup (s .. s + k - 1)
      /\ (s .. s + k - 1) \cap Allocated = {}
      /\ s .. s + k - 1 \subseteq Blocks \ {FILE_ROOT}
  <2>1. RESERVED_BLOCKS .. (s + k) - 1 = (RESERVED_BLOCKS .. s - 1) \cup (s .. s + k - 1)
    BY <1>7, <1>8, <1>9 DEF RESERVED_BLOCKS
  <2>2. Allocated' = {FILE_ROOT} \cup (RESERVED_BLOCKS .. (s + k) - 1)
    BY <1>8, <1>9 DEF Allocated
  <2>3. Allocated' = Allocated \cup (s .. s + k - 1)
    BY <2>1, <2>2 DEF Allocated, s
  <2>4. (s .. s + k - 1) \cap Allocated = {}
    BY <1>7, <1>8, <1>9 DEF Allocated, FILE_ROOT, RESERVED_BLOCKS, s
  <2>5. s .. s + k - 1 \subseteq Blocks \ {FILE_ROOT}
    BY <1>7, <1>8, <1>9, SizeAssumption DEF Blocks, FILE_ROOT, RESERVED_BLOCKS
  <2> QED BY <2>3, <2>4, <2>5
<1>11. /\ DOMAIN E = 1 .. n
       /\ \A i \in 1 .. n : i <= had => E[i] = disk[f].ptrs[i]
       /\ \A i \in 1 .. n : i > had => E[i] = s + (i - had - 1) /\ E[i] \in s .. s + k - 1
  <2>1. DOMAIN E = 1 .. n /\ \A i \in 1 .. n : i <= had => E[i] = disk[f].ptrs[i]
    BY <1>5 DEF Extents, had
  <2>2. ASSUME NEW i \in 1 .. n, i > had
        PROVE  E[i] = s + (i - had - 1) /\ E[i] \in s .. s + k - 1
    <3>1. E[i] = NewBlock(alloc, i - had - 1)
      BY <2>2, <1>5 DEF Extents, had
    <3>2. k = n - had /\ i - had - 1 \in Nat /\ i - had - 1 < k /\ k < alloc.len
      BY <2>2, <1>5, <1>8, <1>9
    <3>3. E[i] = s + (i - had - 1)
      BY <3>1, <3>2, <1>7 DEF NewBlock, s
    <3>4. s + (i - had - 1) \in s .. s + k - 1
      BY <3>2, <1>5, <1>7
    <3> QED BY <3>3, <3>4
  <2> QED BY <2>1, <2>2
\* What the blocks hold then.
<1>12. \A a \in Ext : (a \in Allocated /\ disk[a].kind = "data") \/ a \in s .. s + k - 1
  BY <1>5, <1>6, <1>11
<1>13. f \notin Ext
  BY <1>4, <1>10, <1>12
<1>14. \A b \in s .. s + k - 1 : b \in Ext
  <2> SUFFICES ASSUME NEW b \in s .. s + k - 1 PROVE b \in Ext
    OBVIOUS
  <2>1. b \in Int /\ s <= b /\ b <= s + k - 1 /\ k > 0
    BY <1>7, <1>8, <1>9
  <2>2. k = n - had
    BY <2>1, <1>5, <1>8, <1>9
  <2>3. b - s + had + 1 \in 1 .. n /\ b - s + had + 1 > had
    BY <2>1, <2>2, <1>5, <1>7
  <2>4. E[b - s + had + 1] = s + ((b - s + had + 1) - had - 1)
    BY <1>11, <2>3
  <2>5. E[b - s + had + 1] = b
    BY <2>1, <2>4, <1>5, <1>7
  <2> QED BY <2>3, <2>5
<1>15. \A x : DataBlock(x).kind = "data" /\ DataBlock(x).ptrs = << >>
  BY DEF DataBlock, Blank
<1>16. /\ disk'[f].ptrs = E /\ disk'[f].kind = "file"
       /\ disk'[f].parent = disk[f].parent /\ disk'[f].name = disk[f].name
       /\ \A b \in Ext \cap Blocks : disk'[b].kind = "data" /\ disk'[b].ptrs = << >>
       /\ \A a \in Allocated : a # f /\ a \notin Ext => disk'[a] = disk[a]
  <2>1. f \in Blocks
    BY <1>4, AllocatedType
  <2>2. disk'[f] = [disk[f] EXCEPT !.ptrs = E]
    BY <1>2, <2>1
  <2>3. disk'[f].ptrs = E /\ disk'[f].kind = disk[f].kind /\ disk'[f].parent = disk[f].parent
          /\ disk'[f].name = disk[f].name
    BY <2>2, <1>5 DEF Block
  <2>4. \A b \in Ext \cap Blocks : disk'[b] = DataBlock(new[last[b]])
    BY <1>2, <1>13
  <2>5. \A a \in Allocated : a # f /\ a \notin Ext => disk'[a] = disk[a]
    BY <1>2, AllocatedType
  <2> QED BY <1>4, <1>15, <2>3, <2>4, <2>5
<1> HIDE DEF E, Ext
<1>17. ASSUME NEW a \in Allocated
       PROVE  /\ disk'[a].kind = disk[a].kind
              /\ disk[a].kind \in NodeKinds => /\ disk'[a].parent = disk[a].parent
                                              /\ disk'[a].name = disk[a].name
              /\ a # f => disk'[a].ptrs = disk[a].ptrs
              /\ a # f /\ a \notin Children(f) => disk'[a] = disk[a]
  <2>1. CASE a = f
    BY <2>1, <1>4, <1>16
  <2>2. CASE a \in Ext
    <3>1. a # f /\ a \in Blocks /\ disk[a].kind = "data"
      BY <2>2, <1>10, <1>12, <1>13, AllocatedType
    <3>2. disk[a].ptrs = << >>
      BY <3>1 DEF TreeOK, LeafOK, NodeKinds
    <3>3. a \in Children(f)
      BY <2>2, <1>5, <1>10, <1>11, <3>1 DEF Ext, Children
    <3> QED BY <2>2, <3>1, <3>2, <3>3, <1>16 DEF NodeKinds
  <2>3. CASE a # f /\ a \notin Ext
    BY <2>3, <1>16
  <2> QED BY <2>1, <2>2, <2>3
<1>18. \A b \in s .. s + k - 1 : disk'[b].kind = "data" /\ disk'[b].ptrs = << >>
  BY <1>10, <1>14, <1>16
<1>19. \A i \in DOMAIN E : /\ i \in Nat
                          /\ \/ i \in DOMAIN disk[f].ptrs /\ E[i] = disk[f].ptrs[i]
                             \/ E[i] = s + (i - had - 1) /\ E[i] \in s .. s + k - 1
  BY <1>5, <1>11
<1>20. alloc'.start - 1 = s + k - 1
  BY <1>7, <1>8, <1>9
<1> QED BY <1>3, <1>4, <1>10, <1>16, <1>17, <1>18, <1>19, <1>20 DEF s, had

\* What write_all adds keeps the tree sound.
LEMMA TreeStore ==
    ASSUME TypeOK, TreeOK, NEW c \in Clients, Store(c), intact, intact'
    PROVE  TreeOK'
<1> DEFINE f == tmp[c]
           had == Len(disk[f].ptrs)
           s == alloc.start
           New == alloc.start .. alloc'.start - 1
<1>1. /\ pc[c] \in {"opened", "loaded"} /\ pc' = [pc EXCEPT ![c] = "done"]
      /\ f \in Files
      /\ Allocated' = Allocated \cup New
      /\ New \cap Allocated = {}
      /\ New \subseteq Blocks \ {FILE_ROOT}
      /\ \A b \in New : disk'[b].kind = "data" /\ disk'[b].ptrs = << >>
  BY StoreEffect
<1>2. \A a \in Allocated : /\ disk'[a].kind = disk[a].kind
                           /\ disk[a].kind \in NodeKinds => disk'[a].parent = disk[a].parent
                           /\ a # f => disk'[a].ptrs = disk[a].ptrs
  BY StoreEffect
<1>3. \A i \in DOMAIN disk'[f].ptrs :
         /\ i \in Nat
         /\ \/ i \in DOMAIN disk[f].ptrs /\ disk'[f].ptrs[i] = disk[f].ptrs[i]
            \/ disk'[f].ptrs[i] = s + (i - had - 1) /\ disk'[f].ptrs[i] \in New
  BY StoreEffect
<1>4. f \in Allocated /\ disk[f].kind = "file" /\ had \in Nat /\ s \in Nat
  BY <1>1, AllocatedType, SizeAssumption DEF Files, Blocks
<1>5. UNCHANGED <<cwd, tmp>> /\ pc \in [Clients -> Steps]
  BY DEF Store, TypeOK
<1> HIDE DEF f, had, s, New
\* Where the pointers of the new state were, if not in a new extent.
<1>6. ASSUME NEW a \in Allocated', NEW i \in DOMAIN disk'[a].ptrs
      PROVE  /\ a \in Allocated
             /\ \/ i \in DOMAIN disk[a].ptrs /\ disk'[a].ptrs[i] = disk[a].ptrs[i]
                \/ /\ a = f /\ i \in Nat
                   /\ disk'[a].ptrs[i] = s + (i - had - 1)
                   /\ disk'[a].ptrs[i] \in New
  BY <1>1, <1>2, <1>3
<1>7. \A a \in Allocated : \A i \in DOMAIN disk[a].ptrs : disk[a].ptrs[i] \in Allocated \ {FILE_ROOT}
  BY DEF TreeOK, PointersOK
<1>8. RootOK'
  BY <1>2, AllocatedType DEF TreeOK, RootOK, NodeKinds
<1>9. PointersOK'
  BY <1>1, <1>6, <1>7 DEF PointersOK
<1>10. SingleRefs'
  <2> SUFFICES ASSUME NEW a1 \in Allocated', NEW a2 \in Allocated',
                      NEW i \in DOMAIN disk'[a1].ptrs, NEW j \in DOMAIN disk'[a2].ptrs,
                      disk'[a1].ptrs[i] = disk'[a2].ptrs[j]
               PROVE  a1 = a2 /\ i = j
    BY DEF SingleRefs
  <2> DEFINE Kept(a, m) == m \in DOMAIN disk[a].ptrs /\ disk'[a].ptrs[m] = disk[a].ptrs[m]
             Added(a, m) == /\ a = f /\ m \in Nat
                            /\ disk'[a].ptrs[m] = s + (m - had - 1)
                            /\ disk'[a].ptrs[m] \in New
  <2>1. /\ a1 \in Allocated /\ (Kept(a1, i) \/ Added(a1, i))
        /\ a2 \in Allocated /\ (Kept(a2, j) \/ Added(a2, j))
    BY <1>6
  <2>2. CASE Kept(a1, i) /\ Kept(a2, j)
    <3>1. SingleRefs
      BY DEF TreeOK
    <3>2. disk[a1].ptrs[i] = disk[a2].ptrs[j]
      BY <2>2
    <3> QED BY <2>1, <2>2, <3>1, <3>2 DEF SingleRefs
  <2>3. CASE Added(a1, i) /\ Added(a2, j)
    <3>1. s \in Int /\ i \in Int /\ j \in Int /\ had \in Int
      BY <2>3, <1>4
    <3>2. s + (i - had - 1) = s + (j - had - 1)
      BY <2>3
    <3>3. i = j
      BY <3>1, <3>2
    <3> QED BY <2>3, <3>3
  <2>4. CASE Kept(a1, i) /\ Added(a2, j)
    BY <2>1, <2>4, <1>1, <1>7
  <2>5. CASE Added(a1, i) /\ Kept(a2, j)
    BY <2>1, <2>5, <1>1, <1>7
  <2> QED BY <2>1, <2>2, <2>3, <2>4, <2>5
<1>11. ASSUME NEW a \in Allocated' PROVE (FolderOK(a) /\ FileOK(a) /\ LeafOK(a) /\ UpOK(a))'
  <2>1. CASE a \in New
    BY <2>1, <1>1 DEF FolderOK, FileOK, LeafOK, UpOK, NodeKinds
  <2>2. CASE a \in Allocated
    <3>1. FolderOK(a) /\ FileOK(a) /\ LeafOK(a) /\ UpOK(a)
      BY <2>2 DEF TreeOK
    <3>2. FolderOK(a)'
      BY <2>2, <3>1, <1>2, <1>4, <1>7 DEF FolderOK
    <3>3. FileOK(a)'
      BY <2>2, <3>1, <1>1, <1>2, <1>6, <1>7 DEF FileOK
    <3>4. LeafOK(a)'
      BY <2>2, <3>1, <1>2, <1>4 DEF LeafOK, NodeKinds
    <3>5. UpOK(a)'
      BY <2>2, <3>1, <1>1, <1>2 DEF UpOK, Folders
    <3> QED BY <3>2, <3>3, <3>4, <3>5
  <2> QED BY <1>1, <2>1, <2>2
<1>12. ASSUME NEW d \in Clients PROVE HandleOK(d)'
  <2>1. Folders \subseteq Folders' /\ Files \subseteq Files'
    BY <1>1, <1>2 DEF Folders, Files
  <2>2. HandleOK(d)
    BY DEF TreeOK
  <2> QED BY <1>1, <1>5, <2>1, <2>2 DEF HandleOK, Live, CdSteps, FileSteps
<1> QED BY <1>8, <1>9, <1>10, <1>11, <1>12 DEF TreeOK

-----------------------------------------------------------------------------
(* The steps that move handles only *)

\* Nothing but the handles matters to a step that leaves the blocks alone.
LEMMA SameBlocks ==
    ASSUME TreeOK, UNCHANGED <<disk, alloc>>, \A d \in Clients : HandleOK(d)'
    PROVE  TreeOK'
<1>1. Allocated' = Allocated /\ Folders' = Folders
  BY DEF Allocated, Folders
<1>2. RootOK' /\ PointersOK' /\ SingleRefs'
  BY <1>1 DEF TreeOK, RootOK, PointersOK, SingleRefs
<1>3. ASSUME NEW a \in Allocated'
      PROVE  (FolderOK(a) /\ FileOK(a) /\ LeafOK(a) /\ UpOK(a))'
  BY <1>1 DEF TreeOK, FolderOK, FileOK, LeafOK, UpOK
<1> QED BY <1>2, <1>3 DEF TreeOK

\* open_folder's handle is on a folder, if the address it found is one's.
LEMMA TreeCdOpen ==
    ASSUME TypeOK, TreeOK, NEW c \in Clients, NEW b \in Folders, NEW p, CdOpen(c, b, p)
    PROVE  TreeOK'
<1>1. /\ pc' = [pc EXCEPT ![c] = "cdOpened"] /\ tmp' = [tmp EXCEPT ![c] = b]
      /\ pc[c] = "idle" /\ UNCHANGED <<disk, alloc, cwd>>
  BY DEF CdOpen, Goto
<1>2. ASSUME NEW d \in Clients PROVE HandleOK(d)'
  <2>1. HandleOK(d) /\ Folders' = Folders /\ Files' = Files
    BY <1>1 DEF TreeOK, Folders, Files, Allocated
  <2> QED BY <1>1, <2>1 DEF HandleOK, Live, CdSteps, FileSteps, TypeOK
<1> QED BY <1>1, <1>2, SameBlocks

\* "cd" leads from folders to folders.
LEMMA TreeCd ==
    ASSUME TypeOK, TreeOK, NEW c \in Clients, CdDot(c) \/ CdUp(c) \/ CdDown(c)
    PROVE  TreeOK'
<1>1. pc[c] = "idle"
  BY DEF CdDot, CdUp, CdDown, CdOpen, Goto
<1>2. cwd[c] \in Folders /\ cwd[c] \in Allocated
  BY <1>1, IdleFolder DEF Folders
<1>3. CASE CdDot(c)
  BY <1>2, <1>3, TreeCdOpen DEF CdDot
<1>4. CASE CdUp(c)
  <2> DEFINE b == IF cwd[c] = FILE_ROOT THEN cwd[c] ELSE disk[cwd[c]].parent
             p == IF path[c] = << >> THEN path[c] ELSE Front(path[c])
  <2>1. UpOK(cwd[c])
    BY <1>2 DEF TreeOK
  <2>2. b \in Folders
    BY <1>2, <2>1 DEF UpOK, Folders, NodeKinds
  <2>3. CdOpen(c, b, p)
    BY <1>4 DEF CdUp
  <2> QED BY <2>2, <2>3, TreeCdOpen
<1>5. CASE CdDown(c)
  <2>1. PICK n \in Names : \E i \in FirstMatch(cwd[c], "folder", n) :
           CdOpen(c, disk[cwd[c]].ptrs[i], Append(path[c], n))
    BY <1>5 DEF CdDown
  <2>2. PICK i \in FirstMatch(cwd[c], "folder", n) :
           CdOpen(c, disk[cwd[c]].ptrs[i], Append(path[c], n))
    BY <2>1
  <2>3. i \in DOMAIN disk[cwd[c]].ptrs /\ disk[disk[cwd[c]].ptrs[i]].kind = "folder"
    BY DEF FirstMatch, Matches
  <2>4. disk[cwd[c]].ptrs[i] \in Folders
    BY <1>2, <2>3 DEF TreeOK, PointersOK, Folders
  <2> QED BY <2>2, <2>4, TreeCdOpen
<1> QED BY <1>3, <1>4, <1>5

\* open's handle is on a file that the current folder lists.
LEMMA TreeOpen ==
    ASSUME TypeOK, TreeOK, NEW c \in Clients, NEW m, Open(c, m)
    PROVE  TreeOK'
<1>1. PICK n \in Names : \E i \in FirstMatch(cwd[c], "file", n) :
         tmp' = [tmp EXCEPT ![c] = disk[cwd[c]].ptrs[i]]
  BY DEF Open
<1> PICK i \in FirstMatch(cwd[c], "file", n) :
         tmp' = [tmp EXCEPT ![c] = disk[cwd[c]].ptrs[i]]
  BY <1>1
<1>2. /\ pc[c] = "idle" /\ pc' = [pc EXCEPT ![c] = "opened"]
      /\ UNCHANGED <<disk, alloc, cwd>>
  BY DEF Open, Goto
<1>3. i \in DOMAIN disk[cwd[c]].ptrs /\ disk[disk[cwd[c]].ptrs[i]].kind = "file"
  BY DEF FirstMatch, Matches
<1>4. disk[cwd[c]].ptrs[i] \in Files
  BY <1>2, <1>3, IdleFolder DEF TreeOK, PointersOK, Files
<1>5. ASSUME NEW d \in Clients PROVE HandleOK(d)'
  <2>1. HandleOK(d) /\ Folders' = Folders /\ Files' = Files
    BY <1>2 DEF TreeOK, Folders, Files, Allocated
  <2> QED BY <1>1, <1>2, <1>4, <2>1 DEF HandleOK, Live, CdSteps, FileSteps, TypeOK
<1> QED BY <1>2, <1>5, SameBlocks

\* The steps that give a thread no handle on another node, and leave the blocks alone.
Moves(c) ==
    \/ Connect(c) \/ Login(c) \/ Disconnect(c) \/ ResetByPeer(c)
    \/ CdRelease(c) \/ CdAdopt(c) \/ CdDrop(c) \/ Load(c) \/ Overrun(c) \/ Close(c)

LEMMA TreeMoves ==
    ASSUME TypeOK, TreeOK, NEW c \in Clients, Moves(c)
    PROVE  TreeOK' /\ intact' = intact /\ (server' # "garbled" \/ server' = server)
<1>1. UNCHANGED <<disk, alloc, intact>>
  BY DEF Moves, Connect, Login, Disconnect, ResetByPeer, CdRelease, CdAdopt, CdDrop, Load, Overrun, Close
<1>2. server' # "garbled" \/ server' = server
  BY DEF Moves, Connect, Login, Disconnect, ResetByPeer, CdRelease, CdAdopt, CdDrop, Load, Overrun, Close
<1>3. Folders' = Folders /\ Files' = Files /\ FILE_ROOT \in Folders
  BY <1>1, AllocatedType DEF Folders, Files, Allocated, TreeOK, RootOK
<1>4. ASSUME NEW d \in Clients PROVE HandleOK(d)'
  <2> USE <1>3 DEF HandleOK, Live, CdSteps, FileSteps
  <2>1. HandleOK(d)
    BY DEF TreeOK
  <2>2. pc \in [Clients -> Steps] /\ cwd \in [Clients -> Blocks] /\ tmp \in [Clients -> Blocks]
    BY DEF TypeOK
  <2>3. CASE Connect(c)
    BY <2>1, <2>2, <2>3 DEF Connect, Goto
  <2>4. CASE Login(c)
    BY <2>1, <2>2, <2>4 DEF Login, Goto
  <2>5. CASE Disconnect(c)
    BY <2>1, <2>2, <2>5 DEF Disconnect, Goto
  <2>6. CASE ResetByPeer(c)
    BY <2>1, <2>6 DEF ResetByPeer
  <2>7. CASE CdRelease(c)
    BY <2>1, <2>2, <2>7 DEF CdRelease, Goto
  <2>8. CASE CdAdopt(c)
    BY <2>1, <2>2, <2>8 DEF CdAdopt, Goto
  <2>9. CASE CdDrop(c)
    BY <2>1, <2>2, <2>9 DEF CdDrop, Goto
  <2>10. CASE Load(c)
    BY <2>1, <2>2, <2>10 DEF Load, Goto
  <2>11. CASE Overrun(c)
    BY <2>1, <2>11 DEF Overrun
  <2>12. CASE Close(c)
    BY <2>1, <2>2, <2>12 DEF Close, Goto
  <2> QED BY <2>3, <2>4, <2>5, <2>6, <2>7, <2>8, <2>9, <2>10, <2>11, <2>12 DEF Moves
<1> QED BY <1>1, <1>2, <1>4, SameBlocks

\* A format that leaves no handle but on the root leaves one empty folder, and
\* every handle on it, whatever the disk held before.
LEMMA TreeFormat ==
    ASSUME TypeOK, NEW c \in Clients, Format(c), intact'
    PROVE  TreeOK'
<1>1. alloc'.start = RESERVED_BLOCKS
  BY DEF Format, DefaultRoot
<1>2. Allocated' = {FILE_ROOT}
  BY <1>1 DEF Allocated, RESERVED_BLOCKS
<1>3. disk'[FILE_ROOT] = DefaultRootFolder
  BY SizeAssumption DEF Format, TypeOK, Blocks, FILE_ROOT, RESERVED_BLOCKS
<1>4. /\ disk'[FILE_ROOT].kind = "folder" /\ disk'[FILE_ROOT].parent = FILE_ROOT
      /\ disk'[FILE_ROOT].ptrs = << >>
  BY <1>3 DEF DefaultRootFolder, Blank
<1>5. RootOK' /\ PointersOK' /\ SingleRefs' /\ FILE_ROOT \in Folders'
  BY <1>2, <1>4 DEF RootOK, PointersOK, SingleRefs, Folders
<1>6. ASSUME NEW a \in Allocated' PROVE (FolderOK(a) /\ FileOK(a) /\ LeafOK(a) /\ UpOK(a))'
  BY <1>2, <1>4 DEF FolderOK, FileOK, LeafOK, UpOK
<1>7. ASSUME NEW d \in Clients PROVE HandleOK(d)'
  <2>1. pc' = pc /\ UNCHANGED <<cwd, tmp>> /\ pc[d] \notin FileSteps
    BY DEF Format, Goto, TypeOK
  <2>2. \A x \in {"cwd", "tmp"} : Live(<<d, x>>) => Addr(<<d, x>>) = FILE_ROOT
    BY DEF Format, HandleIds
  <2>3. Live(<<d, "cwd">>) => cwd[d] = FILE_ROOT
    BY <2>2 DEF Addr
  <2>4. pc[d] \in CdSteps => tmp[d] = FILE_ROOT
    BY <2>2 DEF Addr, Live, CdSteps
  <2> QED BY <1>5, <2>1, <2>3, <2>4 DEF HandleOK, Live
<1> QED BY <1>5, <1>6, <1>7 DEF TreeOK

\* With a sound tree no method can take a block for what it is not.
LEMMA NoMisread ==
    ASSUME TypeOK, TreeOK, NEW c \in Clients
    PROVE  ~Misreads(c)
<1>1. pc[c] = "idle" => FolderReadable(cwd[c])
  BY IdleFolder DEF TreeOK, FolderOK, FolderReadable
<1>2. pc[c] \in {"opened", "loaded"} => tmp[c] \in Files
  BY DEF TreeOK, HandleOK, FileSteps
<1>3. pc[c] \in {"opened", "loaded"} => disk[tmp[c]].kind = "file" /\ FileReadable(tmp[c])
  BY <1>2 DEF TreeOK, FileOK, Files, FileReadable
<1> QED BY <1>1, <1>3 DEF Misreads

LEMMA TreeInit ==
    ASSUME Init PROVE TreeSound
<1>1. Allocated = {FILE_ROOT}
  BY DEF Init, DefaultRoot, Allocated, RESERVED_BLOCKS
<1>2. disk[FILE_ROOT] = DefaultRootFolder
  BY SizeAssumption DEF Init, Blocks, FILE_ROOT, RESERVED_BLOCKS
<1>3. /\ disk[FILE_ROOT].kind = "folder" /\ disk[FILE_ROOT].parent = FILE_ROOT
      /\ disk[FILE_ROOT].ptrs = << >>
  BY <1>2 DEF DefaultRootFolder, Blank
<1>4. RootOK /\ PointersOK /\ SingleRefs
  BY <1>1, <1>3 DEF RootOK, PointersOK, SingleRefs
<1>5. \A a \in Allocated : FolderOK(a) /\ FileOK(a) /\ LeafOK(a) /\ UpOK(a)
  BY <1>1, <1>3 DEF FolderOK, FileOK, LeafOK, UpOK
<1>6. \A c \in Clients : HandleOK(c)
  BY DEF Init, HandleOK, Live, CdSteps, FileSteps
<1> QED BY <1>4, <1>5, <1>6 DEF TreeSound, TreeOK, NeverGarbled, Init

LEMMA TreeStep ==
    ASSUME TypeOK, TreeSound, [Next]_vars
    PROVE  TreeSound'
<1>1. CASE UNCHANGED vars
  <2>1. intact => \A d \in Clients : HandleOK(d)'
    BY <1>1 DEF vars, TreeSound, TreeOK, HandleOK, Live, Folders, Files, Allocated
  <2> QED BY <1>1, <2>1, SameBlocks DEF vars, TreeSound, NeverGarbled
<1>2. ASSUME NEW c \in Clients, Session(c) PROVE TreeSound'
  <2> SUFFICES ASSUME intact' PROVE TreeOK' /\ server' # "garbled"
    BY DEF TreeSound, NeverGarbled
  <2>1. CASE Format(c)
    BY <2>1, TreeFormat DEF Format, Goto
  <2>2. CASE ~Format(c)
    <3>1. PICK k \in NodeKinds, m \in FileCommands :
             \/ Moves(c) \/ CdDot(c) \/ CdUp(c) \/ CdDown(c) \/ CreateNode(c, k)
             \/ RemoveNode(c, k) \/ Open(c, m) \/ Store(c) \/ Garbled(c)
      BY <1>2, <2>2 DEF Session, Moves, NodeKinds, FileCommands
    <3>2. CASE Moves(c)
      <4>1. intact' = intact
        BY <3>2 DEF Moves, Connect, Login, Disconnect, ResetByPeer, CdRelease, CdAdopt, CdDrop,
                    Load, Overrun, Close
      <4>2. TreeOK /\ server # "garbled"
        BY <4>1 DEF TreeSound, NeverGarbled
      <4>3. TreeOK' /\ (server' # "garbled" \/ server' = server)
        BY <3>2, <4>2, TreeMoves
      <4> QED BY <4>2, <4>3
    <3>3. CASE CdDot(c) \/ CdUp(c) \/ CdDown(c)
      <4>1. intact' = intact /\ server' = "up"
        BY <3>3 DEF CdDot, CdUp, CdDown, CdOpen, Goto
      <4> QED BY <3>3, <4>1, TreeCd DEF TreeSound
    <3>4. CASE CreateNode(c, k)
      <4>1. intact /\ server' = "up"
        BY <3>4 DEF CreateNode, Goto
      <4> QED BY <3>4, <4>1, TreeCreate DEF TreeSound
    <3>5. CASE RemoveNode(c, k)
      <4>1. intact /\ server' = "up"
        BY <3>5 DEF RemoveNode, Goto
      <4> QED BY <3>5, <4>1, TreeRemove DEF TreeSound
    <3>6. CASE Open(c, m)
      <4>1. intact /\ server' = "up"
        BY <3>6 DEF Open, Goto
      <4> QED BY <3>6, <4>1, TreeOpen DEF TreeSound
    <3>7. CASE Store(c)
      <4>1. intact /\ server' = "up"
        BY <3>7 DEF Store, Goto
      <4> QED BY <3>7, <4>1, TreeStore DEF TreeSound
    <3>8. CASE Garbled(c)
      BY <3>8, NoMisread DEF Garbled, TreeSound
    <3> QED BY <3>1, <3>2, <3>3, <3>4, <3>5, <3>6, <3>7, <3>8
  <2> QED BY <2>1, <2>2
<1> QED BY <1>1, <1>2 DEF Next

\* As long as the disk is intact the blocks form trees and every handle is on an
\* allocated node of the kind the thread takes it for, in every reachable state.
THEOREM TreeIsSound == Spec => []TreeSound
<1>1. Init => TypeOK /\ TreeSound
  BY TypeInit, TreeInit
<1>2. TypeOK /\ TypeOK' /\ TreeSound /\ [Next]_vars => TreeSound'
  BY TreeStep
<1> QED BY <1>1, <1>2, TypeCorrect, PTL DEF Spec

\* A child names the folder that lists it as its parent and lies above it, so
\* that every way up by ".." ends at the root.
THEOREM ParentsAreRight == Spec => []ParentsMatch
<1>1. TypeOK /\ TreeSound => ParentsMatch
  <2> SUFFICES ASSUME TypeOK, TreeOK, NEW b \in Folders, NEW i \in DOMAIN disk[b].ptrs
               PROVE  disk[disk[b].ptrs[i]].parent = b /\ disk[b].ptrs[i] > b
    BY DEF TreeSound, ParentsMatch, Children
  <2>1. FolderOK(b) /\ disk[b].kind = "folder" /\ b \in Allocated
    BY DEF TreeOK, Folders
  <2>2. b \in Int /\ disk[b].ptrs[i] \in Int
    BY <2>1, AllocatedType, SizeAssumption DEF TreeOK, PointersOK, Blocks
  <2> QED BY <2>1, <2>2 DEF FolderOK
<1> QED BY <1>1, TreeIsSound, TypeCorrect, PTL

\* No block has two owners, and nothing but the allocator knows a free one.
THEOREM BlocksAreOwnedOnce == Spec => []BlocksOwnedOnce
<1>1. TypeOK /\ TreeSound => BlocksOwnedOnce
  <2> SUFFICES ASSUME TypeOK, TreeOK, NEW b \in Blocks
               PROVE  /\ Cardinality(RefsTo(b)) <= 1
                      /\ b \notin Allocated \ {FILE_ROOT} => RefsTo(b) = {}
    BY DEF TreeSound, BlocksOwnedOnce
  <2>1. ASSUME NEW r \in RefsTo(b)
        PROVE  \E a \in Allocated : \E i \in DOMAIN disk[a].ptrs : r = <<a, i>> /\ disk[a].ptrs[i] = b
    BY DEF RefsTo, Pointers
  <2>2. b \notin Allocated \ {FILE_ROOT} => RefsTo(b) = {}
    BY <2>1 DEF TreeOK, PointersOK
  <2>3. ASSUME NEW r \in RefsTo(b), NEW q \in RefsTo(b) PROVE r = q
    <3>1. PICK a \in Allocated, i \in Nat :
             i \in DOMAIN disk[a].ptrs /\ r = <<a, i>> /\ disk[a].ptrs[i] = b
      BY <2>1, AllocatedType
    <3>2. PICK d \in Allocated, j \in Nat :
             j \in DOMAIN disk[d].ptrs /\ q = <<d, j>> /\ disk[d].ptrs[j] = b
      BY <2>1, AllocatedType
    <3> QED BY <3>1, <3>2 DEF TreeOK, SingleRefs
  <2>4. CASE RefsTo(b) = {}
    BY <2>2, <2>4, FS_EmptySet
  <2>5. CASE RefsTo(b) # {}
    <3>1. PICK r : RefsTo(b) = {r}
      BY <2>3, <2>5
    <3>2. Cardinality(RefsTo(b)) = 1
      BY <3>1, FS_Singleton
    <3>3. Cardinality(RefsTo(b)) <= 1
      BY <3>2
    <3> QED BY <2>2, <3>3
  <2> QED BY <2>4, <2>5
<1> QED BY <1>1, TreeIsSound, TypeCorrect, PTL
=============================================================================
