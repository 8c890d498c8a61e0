------------------------- MODULE FileSystemNamesProofs -------------------------
(***************************************************************************)
(* What FileSystem promises its users, for every value of the constants:   *)
(* names are unique, nobody's node is taken away, nobody's content is      *)
(* touched.  All of it rests on TreeSound and CountsExact.  The removal in *)
(* two steps of RemoveWindow is as good as the one of FileSystem.          *)
(***************************************************************************)
EXTENDS FileSystemTreeProofs, RemoveWindow

\* Only four kinds of steps write blocks; all but "format" need an intact disk to
\* leave one, and a format leaves one empty folder.
LEMMA WritingSteps ==
    ASSUME TypeOK, TreeSound, NEW c \in Clients, Session(c), intact'
    PROVE  \/ Format(c)
           \/ /\ intact /\ TreeOK
              /\ \/ UNCHANGED <<disk, alloc>>
                 \/ \E k \in NodeKinds : CreateNode(c, k) \/ RemoveNode(c, k)
                 \/ Store(c)
<1>1. CASE Format(c)
  BY <1>1
<1>2. CASE \E k \in NodeKinds : CreateNode(c, k) \/ RemoveNode(c, k)
  BY <1>2 DEF CreateNode, RemoveNode, TreeSound
<1>3. CASE Store(c)
  BY <1>3 DEF Store, TreeSound
<1>4. CASE CdDot(c) \/ CdUp(c) \/ CdDown(c)
  BY <1>4 DEF CdDot, CdUp, CdDown, CdOpen, TreeSound
<1>5. ASSUME NEW m \in FileCommands, Open(c, m) PROVE UNCHANGED <<disk, alloc>> /\ intact /\ TreeOK
  BY <1>5 DEF Open, TreeSound
<1>6. CASE Moves(c)
  BY <1>6 DEF Moves, Connect, Login, Disconnect, ResetByPeer, CdRelease, CdAdopt, CdDrop, Load,
              Overrun, Close, TreeSound
<1>7. CASE Garbled(c)
  BY <1>7 DEF Garbled, TreeSound
<1> QED BY <1>1, <1>2, <1>3, <1>4, <1>5, <1>6, <1>7 DEF Session, Moves

\* A formatted disk has one folder, the root, and it is empty.
LEMMA FormatEffect ==
    ASSUME TypeOK, NEW c \in Clients, Format(c)
    PROVE  /\ Allocated' = {FILE_ROOT} /\ Folders' = {FILE_ROOT} /\ Files' = {}
           /\ disk'[FILE_ROOT] = DefaultRootFolder /\ disk'[FILE_ROOT].ptrs = << >>
           /\ UNCHANGED <<pc, cwd, tmp, path>>
<1>1. alloc'.start = RESERVED_BLOCKS
  BY DEF Format, DefaultRoot
<1>2. Allocated' = {FILE_ROOT}
  BY <1>1 DEF Allocated, RESERVED_BLOCKS
<1>3. disk'[FILE_ROOT] = DefaultRootFolder
  BY SizeAssumption DEF Format, TypeOK, Blocks, FILE_ROOT, RESERVED_BLOCKS
<1>4. disk'[FILE_ROOT].kind = "folder" /\ disk'[FILE_ROOT].ptrs = << >>
  BY <1>3 DEF DefaultRootFolder, Blank
<1>5. UNCHANGED <<pc, cwd, tmp, path>>
  BY DEF Format, Goto, TypeOK
<1> QED BY <1>2, <1>3, <1>4, <1>5 DEF Folders, Files

\* No request but "format" takes back a block, or changes the kind, the parent or
\* the name of a node; and folders keep the list they have, but for the current
\* folder of the session that creates or removes.
LEMMA NodesStay ==
    ASSUME TypeOK, TreeSound, NEW c \in Clients, Session(c), ~Format(c), intact'
    PROVE  /\ Allocated \subseteq Allocated'
           /\ \A a \in Allocated :
                 /\ disk'[a].kind = disk[a].kind
                 /\ disk[a].kind \in NodeKinds => disk'[a].parent = disk[a].parent
                                                  /\ disk'[a].name = disk[a].name
           /\ Folders \subseteq Folders' /\ Files \subseteq Files'
<1>1. /\ Allocated \subseteq Allocated'
      /\ \A a \in Allocated :
            /\ disk'[a].kind = disk[a].kind
            /\ disk[a].kind \in NodeKinds => disk'[a].parent = disk[a].parent
                                             /\ disk'[a].name = disk[a].name
  <2>0. intact /\ TreeOK
    BY WritingSteps
  <2>1. CASE UNCHANGED <<disk, alloc>>
    BY <2>1 DEF Allocated
  <2>2. ASSUME NEW k \in NodeKinds, CreateNode(c, k)
        PROVE  /\ Allocated \subseteq Allocated'
               /\ \A a \in Allocated : /\ disk'[a].kind = disk[a].kind
                                       /\ disk'[a].parent = disk[a].parent
                                       /\ disk'[a].name = disk[a].name
    BY <2>0, <2>2, CreateEffect
  <2>3. ASSUME NEW k \in NodeKinds, RemoveNode(c, k)
        PROVE  /\ Allocated \subseteq Allocated'
               /\ \A a \in Allocated : /\ disk'[a].kind = disk[a].kind
                                       /\ disk'[a].parent = disk[a].parent
                                       /\ disk'[a].name = disk[a].name
    BY <2>0, <2>3, RemoveEffect
  <2>4. CASE Store(c)
    BY <2>0, <2>4, StoreEffect
  <2> QED BY <2>1, <2>2, <2>3, <2>4, WritingSteps
<1> QED BY <1>1 DEF Folders, Files

\* What the step does to the list of a folder that stays one.
LEMMA FolderLists ==
    ASSUME TypeOK, TreeSound, NEW c \in Clients, Session(c), ~Format(c), intact',
           NEW b \in Folders
    PROVE  \/ disk'[b].ptrs = disk[b].ptrs
           \/ \E k \in NodeKinds : b = cwd[c] /\ (CreateNode(c, k) \/ RemoveNode(c, k))
<1>0. intact /\ TreeOK /\ b \in Allocated /\ disk[b].kind = "folder"
  BY WritingSteps DEF Folders
<1>1. ASSUME NEW k \in NodeKinds, CreateNode(c, k), b # cwd[c] PROVE disk'[b].ptrs = disk[b].ptrs
  BY <1>0, <1>1, CreateEffect
<1>2. ASSUME NEW k \in NodeKinds, RemoveNode(c, k), b # cwd[c] PROVE disk'[b].ptrs = disk[b].ptrs
  BY <1>0, <1>2, RemoveEffect
<1>3. CASE Store(c)
  <2>1. b # tmp[c]
    BY <1>0, <1>3, StoreEffect DEF Files
  <2> QED BY <1>0, <1>3, <2>1, StoreEffect
<1> QED BY <1>1, <1>2, <1>3, WritingSteps

-----------------------------------------------------------------------------
(* Names are unique *)

\* The children of a folder are allocated nodes below it.
LEMMA ChildNodes ==
    ASSUME TypeOK, TreeOK, NEW b \in Folders, NEW i \in DOMAIN disk[b].ptrs
    PROVE  /\ disk[b].ptrs[i] \in Allocated /\ disk[b].ptrs[i] # FILE_ROOT
           /\ disk[disk[b].ptrs[i]].kind \in NodeKinds
           /\ disk[disk[b].ptrs[i]].parent = b
           /\ b < disk[b].ptrs[i]
           /\ b \in Allocated /\ disk[b].kind = "folder" /\ disk[b].ptrs \in Seq(Blocks)
BY AllocatedType DEF TreeOK, PointersOK, FolderOK, Folders

\* Two places of one folder with nodes of one name.
Twins(b, i, j) == /\ i \in DOMAIN disk[b].ptrs /\ j \in DOMAIN disk[b].ptrs /\ i # j
                  /\ disk[disk[b].ptrs[i]].name = disk[disk[b].ptrs[j]].name

LEMMA NamesCreate ==
    ASSUME TypeOK, TreeOK, NamesUnique, NEW c \in Clients, NEW k \in NodeKinds, CreateNode(c, k),
           intact, intact', NEW f, f = cwd[c], NEW i, NEW j
    PROVE  ~Twins(f, i, j)'
<1> DEFINE b == alloc.start
           p == cwd[c]
           L == Len(disk[p].ptrs)
<1> SUFFICES ASSUME i \in DOMAIN disk'[p].ptrs, j \in DOMAIN disk'[p].ptrs, i # j,
                    disk'[disk'[p].ptrs[i]].name = disk'[disk'[p].ptrs[j]].name
             PROVE  FALSE
  BY CreateEffect DEF Twins
<1>1. /\ L \in Nat /\ i \in 1 .. L + 1 /\ j \in 1 .. L + 1
      /\ DOMAIN disk[p].ptrs = 1 .. L
      /\ \A m \in 1 .. L : disk'[p].ptrs[m] = disk[p].ptrs[m]
      /\ disk'[p].ptrs[L + 1] = b
      /\ p \in Folders
  BY CreateEffect DEF Folders
<1>2. ASSUME NEW m \in 1 .. L
      PROVE  /\ disk'[disk'[p].ptrs[m]].name = disk[disk[p].ptrs[m]].name
             /\ disk[disk[p].ptrs[m]].name # disk'[b].name
  <2>1. disk[p].ptrs[m] \in Allocated /\ disk[disk[p].ptrs[m]].kind \in NodeKinds
    BY <1>1, ChildNodes
  <2>2. disk'[disk[p].ptrs[m]].name = disk[disk[p].ptrs[m]].name
    BY <2>1, CreateEffect
  <2>3. CreateReply(p, disk'[b].name) = "ok"
    BY CreateEffect
  <2>4. m \notin Matches(p, disk[disk[p].ptrs[m]].kind, disk'[b].name)
    BY <2>1, <2>3 DEF CreateReply
  <2>5. disk[disk[p].ptrs[m]].name # disk'[b].name
    BY <1>1, <2>4 DEF Matches
  <2> QED BY <1>1, <2>2, <2>5
<1>3. CASE i \in 1 .. L /\ j \in 1 .. L
  <2>1. disk[disk[p].ptrs[i]].name # disk[disk[p].ptrs[j]].name
    BY <1>1, <1>3 DEF NamesUnique
  <2> QED BY <1>2, <1>3, <2>1
<1>4. CASE i = L + 1 /\ j \in 1 .. L
  BY <1>1, <1>2, <1>4
<1>5. CASE i \in 1 .. L /\ j = L + 1
  BY <1>1, <1>2, <1>5
<1>6. (i \in 1 .. L \/ i = L + 1) /\ (j \in 1 .. L \/ j = L + 1)
  <2> HIDE DEF L
  <2> QED BY <1>1
<1> QED BY <1>3, <1>4, <1>5, <1>6

LEMMA NamesRemove ==
    ASSUME TypeOK, TreeOK, NamesUnique, NEW c \in Clients, NEW k \in NodeKinds, RemoveNode(c, k),
           intact, NEW f, f = cwd[c], NEW i, NEW j
    PROVE  ~Twins(f, i, j)'
<1> DEFINE p == cwd[c]
           L == Len(disk[p].ptrs)
<1> SUFFICES ASSUME i \in DOMAIN disk'[p].ptrs, j \in DOMAIN disk'[p].ptrs, i # j,
                    disk'[disk'[p].ptrs[i]].name = disk'[disk'[p].ptrs[j]].name
             PROVE  FALSE
  BY RemoveEffect DEF Twins
<1>1. disk[p].ptrs \in Seq(Blocks) /\ p \in Folders
  BY RemoveEffect DEF Folders
<1>2. PICK x \in DOMAIN disk[p].ptrs : disk'[p].ptrs = RemoveAt(disk[p].ptrs, x)
  BY RemoveEffect
<1> DEFINE Was(m) == IF m < x THEN m ELSE m + 1
<1>3. /\ L \in Nat /\ x \in 1 .. L /\ i \in 1 .. L - 1 /\ j \in 1 .. L - 1
      /\ DOMAIN disk[p].ptrs = 1 .. L
  BY <1>1, <1>2, RemoveAtPlaces
<1>4. \A m \in 1 .. L - 1 : disk'[p].ptrs[m] = disk[p].ptrs[Was(m)]
  BY <1>1, <1>2, RemoveAtPlaces
<1>5. \A m \in 1 .. L : disk'[disk[p].ptrs[m]].name = disk[disk[p].ptrs[m]].name
  BY <1>1, <1>3, ChildNodes, RemoveEffect
<1>6. Was(i) \in 1 .. L /\ Was(j) \in 1 .. L /\ Was(i) # Was(j)
  BY <1>3
<1>7. disk[disk[p].ptrs[Was(i)]].name = disk[disk[p].ptrs[Was(j)]].name
  <2> HIDE DEF Was
  <2> QED BY <1>3, <1>4, <1>5, <1>6
<1> HIDE DEF Was
<1> QED BY <1>1, <1>3, <1>6, <1>7 DEF NamesUnique

LEMMA NamesStep ==
    ASSUME TypeOK, TreeSound, NamesUnique, [Next]_vars
    PROVE  NamesUnique'
<1>1. CASE UNCHANGED vars
  BY <1>1 DEF vars, NamesUnique, Folders, Allocated
<1>2. ASSUME NEW c \in Clients, Session(c) PROVE NamesUnique'
  <2> SUFFICES ASSUME intact', NEW b \in Folders', NEW i, NEW j, Twins(b, i, j)' PROVE FALSE
    BY DEF NamesUnique, Twins
  <2>1. CASE Format(c)
    BY <2>1, FormatEffect DEF Twins
  <2>2. CASE ~Format(c)
    <3>1. intact /\ TreeOK
      BY <1>2, <2>2, WritingSteps
    <3>2. CASE b \in Folders
      <4>1. CASE disk'[b].ptrs = disk[b].ptrs
        <5>1. ASSUME NEW m \in DOMAIN disk[b].ptrs
              PROVE  disk'[disk[b].ptrs[m]].name = disk[disk[b].ptrs[m]].name
          BY <1>2, <2>2, <3>1, <3>2, ChildNodes, NodesStay
        <5> QED BY <3>1, <3>2, <4>1, <5>1 DEF Twins, NamesUnique
      <4>2. CASE \E k \in NodeKinds : b = cwd[c] /\ (CreateNode(c, k) \/ RemoveNode(c, k))
        BY <3>1, <4>2, NamesCreate, NamesRemove
      <4> QED BY <1>2, <2>2, <3>2, <4>1, <4>2, FolderLists
    <3>3. CASE b \notin Folders
      <4>1. b \notin Allocated /\ b \in Allocated' /\ disk'[b].kind = "folder"
        BY <1>2, <2>2, <3>3, NodesStay DEF Folders
      <4>2. ~UNCHANGED <<disk, alloc>>
        BY <4>1 DEF Allocated
      <4>3. ASSUME NEW k \in NodeKinds, CreateNode(c, k) PROVE disk'[b].ptrs = << >>
        BY <3>1, <4>1, <4>3, CreateEffect
      <4>4. ASSUME NEW k \in NodeKinds, RemoveNode(c, k) PROVE FALSE
        BY <3>1, <4>1, <4>4, RemoveEffect
      <4>5. CASE Store(c)
        BY <3>1, <4>1, <4>5, StoreEffect
      <4> QED BY <1>2, <2>2, <4>2, <4>3, <4>4, <4>5, WritingSteps DEF Twins
    <3> QED BY <3>2, <3>3
  <2> QED BY <2>1, <2>2
<1> QED BY <1>1, <1>2 DEF Next

\* No folder ever lists two children of one name, whatever their kinds and however
\* the sessions interleave: every name finds at most one node.
THEOREM NamesAreUnique == Spec => []NamesUnique
<1>1. Init => NamesUnique
  <2> SUFFICES ASSUME Init, NEW b \in Folders PROVE disk[b].ptrs = << >>
    BY DEF NamesUnique
  <2>1. b = FILE_ROOT /\ b \in Blocks
    BY SizeAssumption DEF Init, DefaultRoot, Folders, Allocated, RESERVED_BLOCKS, Blocks, FILE_ROOT
  <2> QED BY <2>1 DEF Init, DefaultRootFolder, Blank
<1>2. TypeOK /\ TreeSound /\ NamesUnique /\ [Next]_vars => NamesUnique'
  BY NamesStep
<1> QED BY <1>1, <1>2, TypeCorrect, TreeIsSound, PTL DEF Spec

-----------------------------------------------------------------------------
(* Nobody's node is taken away *)

\* A live handle on a node is counted.
LEMMA HandleCounted ==
    ASSUME TypeOK, CountsExact, NEW b \in Blocks, NEW h \in HandlesOn(b)
    PROVE  count[b] > 0
<1>1. Cardinality(HandlesOn(b)) # 0
  BY HandlesFinite, FS_EmptySet
<1>2. Cardinality(HandlesOn(b)) \in Nat /\ count[b] = Cardinality(HandlesOn(b))
  BY HandlesFinite DEF CountsExact
<1> QED BY <1>1, <1>2

\* remove leaves in the folder every child that a handle is on.
LEMMA RemoveLeavesUsed ==
    ASSUME TypeOK, TreeOK, CountsExact, NEW c \in Clients, NEW k \in NodeKinds, RemoveNode(c, k),
           NEW f, f = cwd[c], NEW d \in Children(f), d \notin Children(f)'
    PROVE  HandlesOn(d) = {}
<1> DEFINE L == Len(disk[f].ptrs)
<1>1. disk[f].ptrs \in Seq(Blocks) /\ f \in Folders
  BY RemoveEffect DEF Folders
<1>2. PICK x \in DOMAIN disk[f].ptrs : /\ disk'[f].ptrs = RemoveAt(disk[f].ptrs, x)
                                       /\ ~(count[disk[f].ptrs[x]] > 0)
  BY RemoveEffect
<1>3. PICK i \in DOMAIN disk[f].ptrs : d = disk[f].ptrs[i]
  BY DEF Children
<1>4. /\ L \in Nat /\ DOMAIN disk[f].ptrs = 1 .. L
      /\ DOMAIN disk'[f].ptrs = 1 .. L - 1
      /\ \A m \in 1 .. L - 1 : disk'[f].ptrs[m] = disk[f].ptrs[IF m < x THEN m ELSE m + 1]
  BY <1>1, <1>2, RemoveAtPlaces
<1>5. i = x
  <2> SUFFICES ASSUME i # x PROVE FALSE
    OBVIOUS
  <2> DEFINE m == IF i < x THEN i ELSE i - 1
  <2>1. i \in 1 .. L /\ x \in 1 .. L
    BY <1>4
  <2>2. m \in 1 .. L - 1 /\ (IF m < x THEN m ELSE m + 1) = i
    <3> HIDE DEF L
    <3> QED BY <1>4, <2>1
  <2>3. disk'[f].ptrs[m] = d
    <3> HIDE DEF m
    <3> QED BY <1>3, <1>4, <2>2
  <2>4. d \in Children(f)'
    <3> HIDE DEF m
    <3> QED BY <1>4, <2>2, <2>3 DEF Children
  <2> QED BY <2>4
<1>6. d \in Blocks /\ ~(count[d] > 0)
  BY <1>1, <1>2, <1>3, <1>5
<1> QED BY <1>6, HandleCounted

\* No request but "format" takes a child out of a folder's list, unless no handle
\* is on it.
LEMMA ChildrenStay ==
    ASSUME TypeOK, TreeSound, CountsExact, NEW c \in Clients, Session(c), ~Format(c), intact',
           NEW b \in Folders, NEW d \in Children(b), d \notin Children(b)'
    PROVE  HandlesOn(d) = {} /\ UNCHANGED <<pc, cwd, tmp>>
<1>1. intact /\ TreeOK
  BY WritingSteps
<1>2. disk'[b].ptrs # disk[b].ptrs
  BY DEF Children
<1>3. PICK k \in NodeKinds : b = cwd[c] /\ (CreateNode(c, k) \/ RemoveNode(c, k))
  BY <1>2, FolderLists
<1>4. ~CreateNode(c, k)
  <2> SUFFICES ASSUME CreateNode(c, k) PROVE FALSE
    OBVIOUS
  <2> DEFINE L == Len(disk[b].ptrs)
  <2>1. /\ L \in Nat /\ DOMAIN disk[b].ptrs = 1 .. L /\ DOMAIN disk'[b].ptrs = 1 .. L + 1
        /\ \A i \in 1 .. L : disk'[b].ptrs[i] = disk[b].ptrs[i]
    BY <1>1, <1>3, CreateEffect
  <2>2. PICK i \in DOMAIN disk[b].ptrs : d = disk[b].ptrs[i]
    BY DEF Children
  <2>3. i \in DOMAIN disk'[b].ptrs /\ d = disk'[b].ptrs[i]
    BY <2>1, <2>2
  <2> QED BY <2>3 DEF Children
<1>5. HandlesOn(d) = {}
  BY <1>1, <1>3, <1>4, RemoveLeavesUsed
<1>6. UNCHANGED <<pc, cwd, tmp>>
  BY <1>1, <1>3, <1>4, RemoveEffect
<1> QED BY <1>5, <1>6

LEMMA RemovalStep ==
    ASSUME TypeOK, TreeSound, CountsExact, [Next]_vars, intact, intact',
           NEW b \in Folders, NEW d \in Children(b), b \in Folders', d \notin Children(b)'
    PROVE  HandlesOn(d) = {} /\ HandlesOn(d)' = {}
<1>1. ~UNCHANGED vars
  BY DEF vars, Children
<1>2. PICK c \in Clients : Session(c)
  BY <1>1 DEF Next
<1>3. HandlesOn(d) = {} /\ UNCHANGED <<pc, cwd, tmp>>
  <2>1. CASE Format(c)
    <3>1. d # FILE_ROOT
      BY ChildNodes DEF TreeSound, Children
    <3>2. \A h \in HandleIds : Live(h) => Addr(h) = FILE_ROOT
      BY <2>1 DEF Format
    <3> QED BY <2>1, <3>1, <3>2, FormatEffect DEF HandlesOn
  <2>2. CASE ~Format(c)
    BY <1>2, <2>2, ChildrenStay
  <2> QED BY <2>1, <2>2
<1> QED BY <1>3 DEF HandlesOn, Live, Addr

\* A node that a step takes out of a folder has no handle on it, neither before nor
\* after the step, whatever the threads are in the middle of: the busy check of
\* remove is enough, because the counts are exact while it looks.
THEOREM NoRemovalOfUsed == Spec => NoRemovalInUse
<1>1. TypeOK /\ TreeSound /\ CountsExact /\ [Next]_vars =>
         [\A b \in Folders : \A d \in Children(b) :
            intact /\ intact' /\ b \in Folders' /\ d \notin Children(b)' =>
               HandlesOn(d) = {} /\ HandlesOn(d)' = {}]_vars
  BY RemovalStep
<1> QED BY <1>1, TypeCorrect, TreeIsSound, CountsAreExact, PTL DEF Spec, NoRemovalInUse

-----------------------------------------------------------------------------
(* The two steps of remove are as good as one *)

\* No node lists the root folder, on a disk that has lost its shape neither.
Listable == Blocks \ {FILE_ROOT}
RootUnlisted == \A b \in Blocks : disk[b].ptrs \in Seq(Listable)

LEMMA NewBlockListable ==
    ASSUME TypeOK, NEW i \in Nat
    PROVE  NewBlock(alloc, i) \in Listable
BY NewBlockType DEF TypeOK, Listable, FILE_ROOT, RESERVED_BLOCKS

LEMMA NothingListed == << >> \in Seq(Listable)
OBVIOUS

LEMMA RootUnlistedStep == TypeOK /\ RootUnlisted /\ [Next]_vars => RootUnlisted'
<1> SUFFICES ASSUME TypeOK, RootUnlisted, [Next]_vars PROVE RootUnlisted'
  OBVIOUS
<1>0. CASE disk' = disk
  BY <1>0 DEF RootUnlisted
<1>1. ASSUME NEW c \in Clients, NEW k \in NodeKinds, CreateNode(c, k) PROVE RootUnlisted'
  <2>1. PICK n \in Names, b \in Listable :
           disk' = [disk EXCEPT ![b] = NewNode(k, n, cwd[c]),
                                ![cwd[c]] = [disk[cwd[c]] EXCEPT !.ptrs = Append(@, b)]]
    BY <1>1, NewBlockListable DEF CreateNode
  <2>2. Append(disk[cwd[c]].ptrs, b) \in Seq(Listable)
    BY <2>1 DEF RootUnlisted, TypeOK
  <2>3. disk[cwd[c]] \in Block /\ cwd[c] \in Blocks
    BY DEF TypeOK
  <2>4. [disk[cwd[c]] EXCEPT !.ptrs = Append(@, b)].ptrs = Append(disk[cwd[c]].ptrs, b)
    BY <2>3 DEF Block
  <2>5. NewNode(k, n, cwd[c]).ptrs = << >>
    BY DEF NewNode
  <2> QED BY <2>1, <2>2, <2>3, <2>4, <2>5, NothingListed DEF RootUnlisted, TypeOK
<1>2. ASSUME NEW c \in Clients, NEW k \in NodeKinds, RemoveNode(c, k) PROVE RootUnlisted'
  <2>1. PICK i \in DOMAIN disk[cwd[c]].ptrs : disk' = [disk EXCEPT ![cwd[c]].ptrs = RemoveAt(@, i)]
    BY <1>2 DEF RemoveNode, FirstMatch, Matches
  <2>2. cwd[c] \in Blocks /\ disk[cwd[c]].ptrs \in Seq(Listable)
    BY DEF RootUnlisted, TypeOK
  <2>3. RemoveAt(disk[cwd[c]].ptrs, i) \in Seq(Listable)
    BY <2>2, RemoveAtType
  <2>4. disk[cwd[c]] \in Block
    BY DEF TypeOK
  <2> QED BY <2>1, <2>2, <2>3, <2>4 DEF RootUnlisted, TypeOK, Block
<1>3. ASSUME NEW c \in Clients, Store(c) PROVE RootUnlisted'
  <2>0. PICK new \in ToStore(c) :
           /\ Len(new) \in 1 .. FileCapacity
           /\ \E last : disk' = [b \in Blocks |->
                 IF b = tmp[c] THEN [disk[tmp[c]] EXCEPT !.ptrs = Extents(tmp[c], Len(new))]
                 ELSE IF b \in DOMAIN last THEN DataBlock(new[last[b]])
                 ELSE disk[b]]
    BY <1>3 DEF Store
  <2> DEFINE n == Len(new)
  <2>1. n \in Nat
    BY <2>0
  <2>2a. PICK last : disk' = [b \in Blocks |-> IF b = tmp[c] THEN [disk[tmp[c]] EXCEPT !.ptrs = Extents(tmp[c], n)]
                                     ELSE IF b \in DOMAIN last THEN DataBlock(new[last[b]])
                                     ELSE disk[b]]
    BY <2>0
  <2> HIDE DEF n
  <2>2. tmp[c] \in Blocks /\ disk[tmp[c]] \in Block /\ disk[tmp[c]].ptrs \in Seq(Listable)
    BY DEF RootUnlisted, TypeOK
  <2>3. Extents(tmp[c], n) \in Seq(Listable)
    <3>1. ASSUME NEW i \in 1 .. n
          PROVE  (IF i <= Len(disk[tmp[c]].ptrs) THEN disk[tmp[c]].ptrs[i]
                  ELSE NewBlock(alloc, i - Len(disk[tmp[c]].ptrs) - 1)) \in Listable
      <4>1. CASE i <= Len(disk[tmp[c]].ptrs)
        BY <2>2, <4>1, ElementOfSeq
      <4>2. CASE ~(i <= Len(disk[tmp[c]].ptrs))
        <5>1. Len(disk[tmp[c]].ptrs) \in Nat
          BY <2>2
        <5>2. i - Len(disk[tmp[c]].ptrs) - 1 \in Nat
          BY <4>2, <5>1
        <5> QED BY <4>2, <5>2, NewBlockListable
      <4> QED BY <4>1, <4>2
    <3>2. Extents(tmp[c], n) \in [1 .. n -> Listable]
      BY <3>1 DEF Extents
    <3> QED BY <2>1, <3>2
  <2>4. [disk[tmp[c]] EXCEPT !.ptrs = Extents(tmp[c], n)].ptrs = Extents(tmp[c], n)
    BY <2>2 DEF Block
  <2>5. \A x : DataBlock(x).ptrs = << >>
    BY DEF DataBlock, Blank
  <2> QED BY <2>2a, <2>3, <2>4, <2>5, NothingListed DEF RootUnlisted
<1>4. ASSUME NEW c \in Clients, Format(c) PROVE RootUnlisted'
  <2>1. DefaultRootFolder.ptrs = << >>
    BY DEF DefaultRootFolder, Blank
  <2> QED BY <1>4, <2>1, NothingListed DEF Format, RootUnlisted, TypeOK
<1>5. ASSUME NEW c \in Clients, Session(c), disk' # disk PROVE RootUnlisted'
  BY <1>1, <1>2, <1>3, <1>4, <1>5
     DEF Session, Connect, Login, Disconnect, ResetByPeer, CdDot, CdUp, CdDown, CdOpen, CdRelease,
         CdAdopt, CdDrop, Open, Load, Overrun, Close, Garbled
<1> QED BY <1>0, <1>5 DEF Next, vars

\* Without data_mutex_ nobody gets a first handle on a node that somebody lists.
LEMMA NoFirstHandle ==
    ASSUME TypeOK, CountsExact, NEW d \in Clients, Unlocked(d), NEW b \in Listable, count[b] = 0
    PROVE  count'[b] = 0
<1>1. count \in [Blocks -> Nat] /\ cwd[d] \in Blocks /\ tmp[d] \in Blocks /\ b \in Blocks
  BY DEF TypeOK, Listable
<1>2. CASE Connect(d)
  BY <1>1, <1>2 DEF Connect, Construct, Listable
<1>3. CASE Login(d) \/ ResetByPeer(d)
  BY <1>3 DEF Login, ResetByPeer
<1>4. CASE Disconnect(d) \/ CdRelease(d) \/ CdDrop(d) \/ Close(d)
  BY <1>1, <1>4 DEF Disconnect, CdRelease, CdDrop, Close, Destruct
<1>5. CASE CdDot(d)
  <2>1. <<d, "cwd">> \in HandlesOn(cwd[d]) /\ count' = Construct(count, cwd[d])
    BY <1>5 DEF CdDot, CdOpen, Goto, HandlesOn, HandleIds, Live, Addr
  <2>2. count[cwd[d]] > 0
    BY <1>1, <2>1, HandleCounted
  <2> QED BY <1>1, <2>1, <2>2 DEF Construct
<1>6. CASE CdAdopt(d)
  <2>1. <<d, "tmp">> \in HandlesOn(tmp[d]) /\ count' = Construct(count, tmp[d])
    BY <1>6 DEF CdAdopt, Goto, HandlesOn, HandleIds, Live, Addr
  <2>2. count[tmp[d]] > 0
    BY <1>1, <2>1, HandleCounted
  <2> QED BY <1>1, <2>1, <2>2 DEF Construct
<1> QED BY <1>2, <1>3, <1>4, <1>5, <1>6 DEF Unlocked

\* What remove has read and asked is still so when it writes.
StillRemovable(c, i) ==
    \E k \in NodeKinds, n \in Names :
        /\ (IF k = "folder" THEN "rmdir" ELSE "rm") \in Commands
        /\ i \in FirstMatch(cwd[c], k, n)
        /\ RemoveReply(cwd[c], k, n) = "ok"

WindowOK == \A w \in window :
    /\ w.by \in Clients /\ pc[w.by] = "idle"
    /\ w.node = disk[cwd[w.by]]
    /\ FolderReadable(cwd[w.by])
    /\ StillRemovable(w.by, w.index)

LEMMA StillThere ==
    ASSUME UNCHANGED <<disk, count, cwd>>, NEW c, NEW i, StillRemovable(c, i)
    PROVE  StillRemovable(c, i)'
<1>1. PICK k \in NodeKinds, n \in Names :
         /\ (IF k = "folder" THEN "rmdir" ELSE "rm") \in Commands
         /\ i \in FirstMatch(cwd[c], k, n)
         /\ RemoveReply(cwd[c], k, n) = "ok"
  BY DEF StillRemovable
<1>2. /\ Matches(cwd[c], k, n)' = Matches(cwd[c], k, n)
      /\ FirstMatch(cwd[c], k, n)' = FirstMatch(cwd[c], k, n)
  BY DEF Matches, FirstMatch
<1>3. RemoveReply(cwd[c], k, n)' = RemoveReply(cwd[c], k, n)
  BY <1>2 DEF RemoveReply
<1> QED BY <1>1, <1>2, <1>3 DEF StillRemovable

LEMMA MeanwhileKeeps ==
    ASSUME TypeOK, CountsExact, RootUnlisted, WindowOK, Meanwhile
    PROVE  WindowOK' /\ Next
<1>1. PICK d \in Clients : Unlocked(d) /\ \A w \in window : w.by # d
  BY DEF Meanwhile
<1>2. Session(d)
  BY <1>1 DEF Unlocked, Session
<1>3. disk' = disk /\ window' = window
  BY <1>1 DEF Meanwhile, Unlocked, Connect, Login, Disconnect, ResetByPeer, CdDot, CdOpen, CdRelease,
              CdAdopt, CdDrop, Close
<1>4. \A c \in Clients \ {d} : pc'[c] = pc[c] /\ cwd'[c] = cwd[c]
  BY <1>1 DEF Unlocked, Connect, Login, Disconnect, ResetByPeer, CdDot, CdOpen, CdRelease,
              CdAdopt, CdDrop, Close, Goto, TypeOK
<1>5. ASSUME NEW w \in window PROVE StillRemovable(w.by, w.index)'
  <2>1. PICK k \in NodeKinds, n \in Names :
           /\ (IF k = "folder" THEN "rmdir" ELSE "rm") \in Commands
           /\ w.index \in FirstMatch(cwd[w.by], k, n)
           /\ RemoveReply(cwd[w.by], k, n) = "ok"
    BY DEF WindowOK, StillRemovable
  <2>2. w.by \in Clients \ {d} /\ cwd'[w.by] = cwd[w.by] /\ cwd[w.by] \in Blocks
    BY <1>1, <1>4 DEF WindowOK, TypeOK
  <2>3. /\ Matches(cwd[w.by], k, n)' = Matches(cwd[w.by], k, n)
        /\ FirstMatch(cwd[w.by], k, n)' = FirstMatch(cwd[w.by], k, n)
    BY <1>3, <2>2 DEF FirstMatch, Matches
  <2>4. ASSUME NEW i \in FirstMatch(cwd[w.by], k, n)
        PROVE  ~(count'[disk[cwd[w.by]].ptrs[i]] > 0)
    <3>1. i \in DOMAIN disk[cwd[w.by]].ptrs /\ disk[cwd[w.by]].ptrs \in Seq(Listable)
      BY <2>2 DEF FirstMatch, Matches, RootUnlisted
    <3>2. disk[cwd[w.by]].ptrs[i] \in Listable
      BY <3>1
    <3>3. count[disk[cwd[w.by]].ptrs[i]] = 0
      <4>1. ~(count[disk[cwd[w.by]].ptrs[i]] > 0)
        BY <2>1 DEF RemoveReply
      <4>2. count[disk[cwd[w.by]].ptrs[i]] \in Nat
        BY <3>2 DEF TypeOK, Listable
      <4> QED BY <4>1, <4>2
    <3>4. count'[disk[cwd[w.by]].ptrs[i]] = 0
      BY <1>1, <3>2, <3>3, NoFirstHandle
    <3> QED BY <3>4
  <2>5. Matches(cwd[w.by], k, n) # {}
    BY <2>1 DEF RemoveReply
  <2>6. RemoveReply(cwd[w.by], k, n)' = "ok"
    BY <1>3, <2>2, <2>3, <2>4, <2>5 DEF RemoveReply
  <2> QED BY <2>1, <2>2, <2>3, <2>6 DEF StillRemovable
<1>6. ASSUME NEW w \in window
      PROVE  w.by \in Clients /\ pc'[w.by] = "idle" /\ w.node = disk'[cwd'[w.by]] /\ FolderReadable(cwd[w.by])'
  BY <1>1, <1>3, <1>4 DEF WindowOK, FolderReadable
<1> QED BY <1>2, <1>3, <1>5, <1>6 DEF WindowOK, Next

LEMMA WriteIsRemove ==
    ASSUME TypeOK, WindowOK, RemoveWrite
    PROVE  Next
<1>1. PICK w \in window :
         disk' = [disk EXCEPT ![cwd[w.by]] = [w.node EXCEPT !.ptrs = RemoveAt(@, w.index)]]
  BY DEF RemoveWrite
<1> DEFINE c == w.by
<1>2. PICK k \in NodeKinds, n \in Names :
         /\ (IF k = "folder" THEN "rmdir" ELSE "rm") \in Commands
         /\ w.index \in FirstMatch(cwd[c], k, n)
         /\ RemoveReply(cwd[c], k, n) = "ok"
  BY DEF WindowOK, StillRemovable
<1>3. c \in Clients /\ pc[c] = "idle" /\ w.node = disk[cwd[c]] /\ FolderReadable(cwd[c])
  BY DEF WindowOK
<1>4. Goto(c, "idle", "idle")
  BY <1>3 DEF RemoveWrite, Goto, TypeOK
<1>5. disk' = [disk EXCEPT ![cwd[c]].ptrs = RemoveAt(@, w.index)]
  BY <1>1, <1>3
<1>6. RemoveNode(c, k)
  BY <1>2, <1>3, <1>4, <1>5 DEF RemoveNode, RemoveWrite
<1> QED BY <1>3, <1>6 DEF Next, Session

\* Although count_mutex_ is free between remove's question and its write, every run with
\* the two steps is a run in which they are one: nobody gets a handle on the child, and
\* nobody changes the folder, in between.
THEOREM RemoveIsAtomic == WSpec => AtomicSpec
<1> DEFINE Inv == TypeOK /\ CountsExact /\ RootUnlisted /\ WindowOK
<1>1. WInit => Init /\ Inv
  <2>1. Init => RootUnlisted
    <3>1. DefaultRootFolder.ptrs = << >> /\ Blank.ptrs = << >>
      BY DEF DefaultRootFolder, Blank
    <3>2. ASSUME Init, NEW b \in Blocks PROVE disk[b].ptrs = << >>
      BY <3>1, <3>2 DEF Init
    <3> QED BY <3>2, NothingListed DEF RootUnlisted
  <2> QED BY <2>1, TypeInit, CountsInit DEF WInit, WindowOK
<1>2. Inv /\ [WNext]_wvars => [Next]_vars /\ Inv'
  <2> SUFFICES ASSUME Inv, [WNext]_wvars PROVE [Next]_vars /\ Inv'
    OBVIOUS
  <2>1. [Next]_vars => TypeOK' /\ CountsExact' /\ RootUnlisted'
    BY TypeStep, CountsStep, RootUnlistedStep
  <2>2. ASSUME NEW c \in Clients, NEW k \in NodeKinds, RemoveCheck(c, k)
        PROVE  UNCHANGED vars /\ WindowOK'
    <3>1. UNCHANGED vars /\ pc[c] = "idle" /\ FolderReadable(cwd[c])
      BY <2>2 DEF RemoveCheck
    <3>2. UNCHANGED <<disk, count, pc, cwd>>
      BY <3>1 DEF vars
    <3>3. PICK n \in Names : \E i \in FirstMatch(cwd[c], k, n) :
             RemoveReply(cwd[c], k, n) = "ok" /\ window' = {[by |-> c, node |-> disk[cwd[c]], index |-> i]}
      BY <2>2 DEF RemoveCheck
    <3>3a. PICK i \in FirstMatch(cwd[c], k, n) :
             RemoveReply(cwd[c], k, n) = "ok" /\ window' = {[by |-> c, node |-> disk[cwd[c]], index |-> i]}
      BY <3>3
    <3>4. StillRemovable(c, i)
      BY <2>2, <3>3a DEF RemoveCheck, StillRemovable
    <3>5. StillRemovable(c, i)' /\ FolderReadable(cwd[c])'
      BY <3>1, <3>2, <3>4, StillThere DEF FolderReadable
    <3> QED BY <3>1, <3>2, <3>3a, <3>5 DEF WindowOK
  <2>3. CASE RemoveWrite
    <3>1. window' = {}
      BY <2>3 DEF RemoveWrite
    <3> QED BY <2>1, <2>3, <3>1, WriteIsRemove DEF WindowOK
  <2>4. CASE window = {} /\ Next /\ UNCHANGED window
    BY <2>1, <2>4 DEF WindowOK
  <2>5. CASE Meanwhile
    BY <2>1, <2>5, MeanwhileKeeps
  <2>6. CASE UNCHANGED wvars
    <3>1. UNCHANGED vars /\ UNCHANGED <<disk, count, pc, cwd, window>>
      BY <2>6 DEF wvars, vars
    <3>2. WindowOK'
      BY <3>1, StillThere DEF WindowOK, FolderReadable
    <3> QED BY <2>1, <3>1, <3>2
  <2> QED BY <2>1, <2>2, <2>3, <2>4, <2>5, <2>6 DEF WNext
<1> QED BY <1>1, <1>2, PTL DEF WSpec, AtomicSpec, Spec

-----------------------------------------------------------------------------
(* An open file stays listed *)

LEMMA ListedStep ==
    ASSUME TypeOK, TreeSound, CountsExact, OpenFileListed, [Next]_vars
    PROVE  OpenFileListed'
<1>1. CASE UNCHANGED vars
  BY <1>1 DEF vars, OpenFileListed, Children
<1>2. ASSUME NEW c \in Clients, Session(c) PROVE OpenFileListed'
  <2> SUFFICES ASSUME intact', NEW d \in Clients, pc'[d] \in FileSteps
               PROVE  tmp'[d] \in Children(cwd[d])'
    BY DEF OpenFileListed
  <2> pc \in [Clients -> Steps] /\ cwd \in [Clients -> Blocks] /\ tmp \in [Clients -> Blocks]
    BY DEF TypeOK
  <2>1. ~Format(c)
    BY DEF Format, Goto
  <2>2. intact /\ TreeOK
    BY <1>2, <2>1, WritingSteps
  \* The thread goes on with the file it had open.
  <2>3. CASE pc[d] \in FileSteps /\ tmp'[d] = tmp[d] /\ cwd'[d] = cwd[d]
    <3>1. tmp[d] \in Children(cwd[d])
      BY <2>2, <2>3 DEF OpenFileListed
    <3>2. cwd[d] \in Folders
      BY <2>2, <2>3 DEF TreeOK, HandleOK, Live, FileSteps
    <3>3. <<d, "tmp">> \in HandlesOn(tmp[d])
      BY <2>3 DEF HandlesOn, HandleIds, Live, Addr, FileSteps
    <3>4. PICK b : b = cwd[d]
      OBVIOUS
    <3>5. tmp[d] \in Children(b)'
      BY <1>2, <2>1, <3>1, <3>2, <3>3, <3>4, ChildrenStay
    <3> QED BY <2>3, <3>4, <3>5 DEF Children
  \* The thread opens the file.
  <2>4. ASSUME NEW m, Open(c, m), d = c PROVE tmp'[d] \in Children(cwd[d])'
    <3>1. PICK i \in DOMAIN disk[cwd[c]].ptrs : tmp' = [tmp EXCEPT ![c] = disk[cwd[c]].ptrs[i]]
      BY <2>4 DEF Open, FirstMatch, Matches
    <3>2. UNCHANGED <<disk, cwd>>
      BY <2>4 DEF Open
    <3> QED BY <2>4, <3>1, <3>2 DEF Children
  <2>5. \/ pc[d] \in FileSteps /\ tmp'[d] = tmp[d] /\ cwd'[d] = cwd[d]
        \/ \E m : d = c /\ Open(c, m)
    <3> USE DEF Goto, FileSteps
    <3>1. CASE Moves(c)
      BY <3>1 DEF Moves, Connect, Login, Disconnect, ResetByPeer, CdRelease, CdAdopt, CdDrop,
                  Load, Overrun, Close
    <3>2. CASE CdDot(c) \/ CdUp(c) \/ CdDown(c)
      BY <3>2 DEF CdDot, CdUp, CdDown, CdOpen
    <3>3. CASE \E k \in NodeKinds : CreateNode(c, k) \/ RemoveNode(c, k)
      BY <3>3 DEF CreateNode, RemoveNode
    <3>4. CASE \E m \in FileCommands : Open(c, m)
      BY <3>4 DEF Open
    <3>5. CASE Store(c)
      BY <3>5 DEF Store, BeforeStore
    <3>6. CASE Garbled(c)
      BY <3>6 DEF Garbled
    <3> QED BY <1>2, <2>1, <3>1, <3>2, <3>3, <3>4, <3>5, <3>6 DEF Session, Moves
  <2> QED BY <2>3, <2>4, <2>5
<1> QED BY <1>1, <1>2 DEF Next

\* From open to the end of the command the file stays listed in the session's
\* current folder, whatever the other sessions do in between: what write_all
\* writes is never lost with an unlinked node.
THEOREM OpenFilesAreListed == Spec => []OpenFileListed
<1>1. Init => OpenFileListed
  BY DEF Init, OpenFileListed, FileSteps
<1>2. TypeOK /\ TreeSound /\ CountsExact /\ OpenFileListed /\ [Next]_vars => OpenFileListed'
  BY ListedStep
<1> QED BY <1>1, <1>2, TypeCorrect, TreeIsSound, CountsAreExact, PTL DEF Spec

-----------------------------------------------------------------------------
(* Nobody's content is touched *)

\* The blocks of a file that a step does not write to stay as they are.
LEMMA ContentKept ==
    ASSUME TypeOK, TreeOK, NEW f \in Files, disk'[f].ptrs = disk[f].ptrs,
           \A i \in DOMAIN disk[f].ptrs : disk'[disk[f].ptrs[i]] = disk[disk[f].ptrs[i]]
    PROVE  ContentOf(f)' = ContentOf(f)
BY DEF ContentOf

\* A file's extents are allocated data blocks.
LEMMA ExtentBlocks ==
    ASSUME TypeOK, TreeOK, NEW f \in Files, NEW i \in DOMAIN disk[f].ptrs
    PROVE  disk[f].ptrs[i] \in Allocated /\ disk[disk[f].ptrs[i]].kind = "data"
BY DEF TreeOK, PointersOK, FileOK, Files

LEMMA CrossTalkStep ==
    ASSUME TypeOK, TreeSound, [Next]_vars, intact, intact', NEW f \in Files,
           f \in Files', ContentOf(f)' # ContentOf(f)
    PROVE  \E c \in Clients : pc[c] \in {"opened", "loaded"} /\ pc'[c] = "done" /\ tmp[c] = f
<1>0. ~UNCHANGED <<disk, alloc>> /\ TreeOK /\ f \in Allocated /\ disk[f].kind = "file"
  BY DEF ContentOf, TreeSound, Files
<1>1. PICK c \in Clients : Session(c)
  BY <1>0 DEF Next, vars
<1>2. ~Format(c)
  BY FormatEffect
<1>3. ASSUME NEW k \in NodeKinds, CreateNode(c, k) \/ RemoveNode(c, k) PROVE FALSE
  <2>1. /\ disk[cwd[c]].kind = "folder"
        /\ \A a \in Allocated : a # cwd[c] => disk'[a] = disk[a]
    BY <1>0, <1>3, CreateEffect, RemoveEffect
  <2>2. disk'[f] = disk[f]
    BY <1>0, <2>1
  <2>3. ASSUME NEW i \in DOMAIN disk[f].ptrs
        PROVE  disk'[disk[f].ptrs[i]] = disk[disk[f].ptrs[i]]
    BY <1>0, <2>1, ExtentBlocks
  <2> QED BY <1>0, <2>2, <2>3, ContentKept
<1>4. CASE Store(c)
  <2>1. CASE tmp[c] = f
    <3>1. pc[c] \in {"opened", "loaded"} /\ pc' = [pc EXCEPT ![c] = "done"]
      BY <1>0, <1>4, StoreEffect
    <3> QED BY <2>1, <3>1 DEF TypeOK
  <2>2. CASE tmp[c] # f
    <3> DEFINE g == tmp[c]
    <3>1. /\ g \in Files
          /\ \A a \in Allocated : /\ a # g => disk'[a].ptrs = disk[a].ptrs
                                  /\ a # g /\ a \notin Children(g) => disk'[a] = disk[a]
      BY <1>0, <1>4, StoreEffect
    <3>2. ASSUME NEW i \in DOMAIN disk[f].ptrs
          PROVE  disk'[disk[f].ptrs[i]] = disk[disk[f].ptrs[i]]
      <4>1. disk[f].ptrs[i] \in Allocated /\ disk[f].ptrs[i] # g
        BY <1>0, <3>1, ExtentBlocks DEF Files
      <4>2. disk[f].ptrs[i] \notin Children(g)
        BY <1>0, <2>2, <3>1 DEF TreeOK, SingleRefs, Children, Files
      <4> QED BY <3>1, <4>1, <4>2
    <3> QED BY <1>0, <2>2, <3>1, <3>2, ContentKept
  <2> QED BY <2>1, <2>2
<1> QED BY <1>0, <1>1, <1>2, <1>3, <1>4, WritingSteps

\* The content of a file changes only in a write_all of a session that has it
\* open: no request on another node writes to its blocks.
THEOREM NoFileCrossTalk == Spec => NoCrossTalk
<1>1. TypeOK /\ TreeSound /\ [Next]_vars =>
         [\A f \in Files :
            intact /\ intact' /\ f \in Files' /\ ContentOf(f)' # ContentOf(f) =>
              \E c \in Clients : pc[c] \in {"opened", "loaded"} /\ pc'[c] = "done"
                                 /\ tmp[c] = f]_vars
  BY CrossTalkStep
<1> QED BY <1>1, TypeCorrect, TreeIsSound, PTL DEF Spec, NoCrossTalk
=============================================================================
