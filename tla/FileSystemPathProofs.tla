------------------------- MODULE FileSystemPathProofs --------------------------
(***************************************************************************)
(* The path a session shows is the way to its current folder, for every    *)
(* value of the constants.  The way up to a block is a function defined by *)
(* recursion on the block's address; what is needed of it is proved by     *)
(* looking at the least address at which it would be wrong.                *)
(***************************************************************************)
EXTENDS FileSystemNamesProofs, FileSystemView, WellFoundedInduction

-----------------------------------------------------------------------------
(* The way up *)

\* A set of natural numbers that is not empty has a least element.
LEMMA Least ==
    ASSUME NEW T, T \subseteq Nat, T # {}
    PROVE  \E x \in T : \A y \in T : x <= y
<1> DEFINE R == OpToRel(<, Nat)
<1>1. IsWellFoundedOn(R, Nat)
  BY NatLessThanWellFounded
<1>2. \A x, y \in Nat : y < x => <<y, x>> \in R
  BY DEF OpToRel
<1> HIDE DEF R
<1>3. PICK x \in T : \A y \in T : ~(<<y, x>> \in R)
  BY <1>1, WFMin
<1>4. ASSUME NEW y \in T PROVE x <= y
  <2>1. x \in Nat /\ y \in Nat
    OBVIOUS
  <2>2. ~(y < x)
    BY <1>2, <1>3, <2>1
  <2> QED BY <2>1, <2>2
<1> QED BY <1>4

\* One step of the recursion: the way to b when up is the way to the blocks above.
Way(d, up, b) == IF b = FILE_ROOT \/ d[b].parent >= b THEN << >>
                 ELSE Append(up[d[b].parent], d[b].name)

\* The recursion goes from a block to a smaller address, so that some function
\* solves it: up to each address one does, or there were a least where none does.
LEMMA WayExists ==
    ASSUME NEW d \in [Blocks -> Block]
    PROVE  \E up : up = [b \in Blocks |-> Way(d, up, b)]
<1> DEFINE Solves(n, up) == /\ up = [b \in Blocks |-> up[b]]
                            /\ \A b \in Blocks : b < n => up[b] = Way(d, up, b)
           T == {n \in Nat : ~ \E up : Solves(n, up)}
<1>1. T = {}
  <2> SUFFICES ASSUME T # {} PROVE FALSE
    OBVIOUS
  <2>1. PICK n \in T : \A y \in T : n <= y
    BY Least
  <2>2. n \in Nat /\ ~ \E up : Solves(n, up)
    OBVIOUS
  <2>3. n # 0
    <3> DEFINE none == [b \in Blocks |-> << >>]
    <3>1. Solves(0, none)
      BY DEF Blocks
    <3> QED BY <2>2, <3>1
  <2> DEFINE m == n - 1
  <2>4. m \in Nat /\ m < n
    BY <2>2, <2>3
  <2>5. PICK up : Solves(m, up)
    <3>1. m \notin T
      BY <2>1, <2>2, <2>4
    <3> QED BY <2>4, <3>1
  <2> DEFINE next == [b \in Blocks |-> IF b = m THEN Way(d, up, b) ELSE up[b]]
  <2>6. next = [b \in Blocks |-> next[b]]
    OBVIOUS
  <2>7. ASSUME NEW b \in Blocks, b < n PROVE next[b] = Way(d, next, b)
    <3>1. b \in Nat /\ b <= m /\ d[b].parent \in Blocks /\ d[b].parent \in Nat
      BY <2>2, <2>7, SizeAssumption DEF Blocks, Block
    <3>2. Way(d, next, b) = Way(d, up, b)
      <4>1. CASE b = FILE_ROOT \/ d[b].parent >= b
        BY <4>1 DEF Way
      <4>2. CASE b # FILE_ROOT /\ ~(d[b].parent >= b)
        <5>1. next[d[b].parent] = up[d[b].parent]
          BY <2>4, <3>1, <4>2
        <5> HIDE DEF next
        <5> QED BY <4>2, <5>1 DEF Way
      <4> QED BY <4>1, <4>2
    <3>3. next[b] = Way(d, up, b)
      <4>1. CASE b = m
        BY <4>1
      <4>2. CASE b # m
        BY <2>4, <2>5, <3>1, <4>2
      <4> QED BY <4>1, <4>2
    <3> QED BY <3>2, <3>3
  <2>8. Solves(n, next)
    <3> HIDE DEF next
    <3> QED BY <2>6, <2>7
  <2> QED BY <2>2, <2>8
<1>2. PICK up : Solves(MaxBlocks, up)
  BY <1>1, SizeAssumption
<1>3. up = [b \in Blocks |-> Way(d, up, b)]
  <2>1. \A b \in Blocks : up[b] = Way(d, up, b)
    BY <1>2, SizeAssumption DEF Blocks
  <2> QED BY <1>2, <2>1
<1> QED BY <1>3

\* The way to a block is the way to its parent and the block's name.
LEMMA WayUp ==
    ASSUME NEW d \in [Blocks -> Block], NEW b \in Blocks
    PROVE  PathIn(d)[b] = IF b = FILE_ROOT \/ d[b].parent >= b THEN << >>
                          ELSE Append(PathIn(d)[d[b].parent], d[b].name)
<1>1. PathIn(d) = CHOOSE up : up = [x \in Blocks |-> Way(d, up, x)]
  BY DEF PathIn, Way
<1>2. PathIn(d) = [x \in Blocks |-> Way(d, PathIn(d), x)]
  BY <1>1, WayExists
<1>3. PathIn(d)[b] = Way(d, PathIn(d), b)
  BY <1>2
<1> QED BY <1>3 DEF Way

LEMMA WayOfRoot ==
    ASSUME NEW d \in [Blocks -> Block]
    PROVE  PathIn(d)[FILE_ROOT] = << >>
BY WayUp, BlankType

LEMMA WayOfFolder ==
    ASSUME NEW d \in [Blocks -> Block], NEW b \in Blocks, b # FILE_ROOT, d[b].parent < b
    PROVE  PathIn(d)[b] = Append(PathIn(d)[d[b].parent], d[b].name)
<1>1. b \in Int /\ d[b].parent \in Int
  BY SizeAssumption DEF Blocks, Block
<1>2. ~(d[b].parent >= b)
  BY <1>1
<1> QED BY <1>2, WayUp

\* A way is a sequence of names.
LEMMA WayType ==
    ASSUME NEW d \in [Blocks -> Block], NEW a \in Blocks
    PROVE  PathIn(d)[a] \in Seq(Names \cup {RootName})
<1> DEFINE S == Names \cup {RootName}
           T == {b \in Blocks : PathIn(d)[b] \notin Seq(S)}
<1> SUFFICES ASSUME T # {} PROVE FALSE
  OBVIOUS
<1>1. Blocks \subseteq Nat
  BY SizeAssumption DEF Blocks
<1>2. PICK b \in T : \A y \in T : b <= y
  <2>1. T \subseteq Nat
    BY <1>1
  <2> HIDE DEF T
  <2> QED BY <2>1, Least
<1>3. b \in Blocks /\ b \in Nat /\ d[b].parent \in Blocks /\ d[b].parent \in Nat /\ d[b].name \in S
  BY <1>1 DEF Block
<1>4. PathIn(d)[b] \notin Seq(S)
  OBVIOUS
<1>5. \A y \in Blocks : y < b => PathIn(d)[y] \in Seq(S)
  BY <1>1, <1>2, <1>3
<1> HIDE DEF S, T
<1>6. CASE b = FILE_ROOT \/ d[b].parent >= b
  <2>1. PathIn(d)[b] = << >>
    BY <1>3, <1>6, WayUp
  <2> QED BY <1>4, <2>1
<1>7. CASE b # FILE_ROOT /\ d[b].parent < b
  <2> DEFINE up == PathIn(d)[d[b].parent]
  <2>1. up \in Seq(S)
    BY <1>3, <1>5, <1>7
  <2>2. PathIn(d)[b] = Append(up, d[b].name)
    BY <1>3, <1>7, WayOfFolder
  <2> HIDE DEF up
  <2>3. Append(up, d[b].name) \in Seq(S)
    BY <1>3, <2>1
  <2> QED BY <1>4, <2>2, <2>3
<1>8. d[b].parent >= b \/ d[b].parent < b
  BY <1>3
<1> QED BY <1>6, <1>7, <1>8

\* Two disks that agree on the folders of one of them, which all lie above their
\* parents, agree on the ways to these folders.
LEMMA WaysAgree ==
    ASSUME NEW d \in [Blocks -> Block], NEW e \in [Blocks -> Block], NEW F, F \subseteq Blocks,
           \A b \in F : b # FILE_ROOT => /\ d[b].parent \in F /\ d[b].parent < b
                                         /\ e[b].parent = d[b].parent /\ e[b].name = d[b].name,
           NEW a \in F
    PROVE  PathIn(e)[a] = PathIn(d)[a]
<1> DEFINE T == {b \in F : PathIn(e)[b] # PathIn(d)[b]}
<1> SUFFICES ASSUME T # {} PROVE FALSE
  OBVIOUS
<1>1. T \subseteq Nat /\ F \subseteq Nat
  <2>1. Blocks \subseteq Nat
    BY SizeAssumption DEF Blocks
  <2> QED BY <2>1
<1>2. PICK b \in T : \A y \in T : b <= y
  <2> HIDE DEF T
  <2> QED BY <1>1, Least
<1>3. b \in F /\ b \in Blocks /\ b \in Nat
  BY <1>1
<1>4. CASE b = FILE_ROOT
  BY <1>4, WayOfRoot
<1>5. CASE b # FILE_ROOT
  <2>1. /\ d[b].parent \in F /\ d[b].parent < b /\ d[b].parent \in Nat
        /\ e[b].parent = d[b].parent /\ e[b].name = d[b].name
    BY <1>1, <1>3, <1>5
  <2>2. PathIn(e)[d[b].parent] = PathIn(d)[d[b].parent]
    <3>1. d[b].parent \notin T
      BY <1>2, <1>3, <2>1
    <3> QED BY <2>1, <3>1
  <2>3. /\ PathIn(e)[b] = Append(PathIn(e)[d[b].parent], d[b].name)
        /\ PathIn(d)[b] = Append(PathIn(d)[d[b].parent], d[b].name)
    BY <1>3, <1>5, <2>1, WayOfFolder
  <2> QED BY <2>2, <2>3
<1> QED BY <1>4, <1>5

-----------------------------------------------------------------------------
(* The path is the way to the folder it stands for *)

\* No request but "format" changes the way to a folder.
LEMMA WaysStay ==
    ASSUME TypeOK, TypeOK', TreeSound, PathSound, NEW c \in Clients, Session(c), ~Format(c), intact',
           NEW a \in Folders
    PROVE  PathIn(disk')[a] = PathIn(disk)[a]
<1>1. intact /\ TreeOK /\ UpwardOK
  BY WritingSteps DEF PathSound, PathOK
<1>2. disk \in [Blocks -> Block] /\ disk' \in [Blocks -> Block] /\ Folders \subseteq Blocks
  BY AllocatedType DEF TypeOK, Folders
<1>3. ASSUME NEW b \in Folders, b # FILE_ROOT
      PROVE  /\ disk[b].parent \in Folders /\ disk[b].parent < b
             /\ disk'[b].parent = disk[b].parent /\ disk'[b].name = disk[b].name
  <2>1. b \in Allocated /\ disk[b].kind \in NodeKinds
    BY DEF Folders, NodeKinds
  <2>2. disk[b].parent \in Folders
    BY <1>1, <1>3, <2>1 DEF TreeOK, UpOK
  <2>3. disk'[b].parent = disk[b].parent /\ disk'[b].name = disk[b].name
    BY <2>1, NodesStay
  <2> QED BY <1>1, <1>3, <2>2, <2>3 DEF UpwardOK
<1> QED BY <1>2, <1>3, WaysAgree

LEMMA UpwardStep ==
    ASSUME TypeOK, TreeSound, PathSound, NEW c \in Clients, Session(c), intact'
    PROVE  UpwardOK'
<1> SUFFICES ASSUME NEW b \in Folders', b # FILE_ROOT PROVE disk'[b].parent < b
  BY DEF UpwardOK
<1>1. ~Format(c)
  BY FormatEffect
<1>2. intact /\ TreeOK /\ UpwardOK
  BY <1>1, WritingSteps DEF PathSound, PathOK
<1>3. CASE b \in Folders
  <2>1. disk[b].parent < b
    BY <1>2, <1>3 DEF UpwardOK
  <2>2. disk'[b].parent = disk[b].parent
    BY <1>1, <1>3, NodesStay DEF Folders, NodeKinds
  <2> QED BY <2>1, <2>2
<1>4. CASE b \notin Folders
  <2>1. b \in Allocated' \ Allocated /\ disk'[b].kind = "folder"
    BY <1>1, <1>4, NodesStay DEF Folders
  <2>2. ~UNCHANGED <<disk, alloc>>
    BY <2>1 DEF Allocated
  <2>3. ASSUME NEW k \in NodeKinds, CreateNode(c, k) PROVE disk'[b].parent < b
    BY <1>2, <2>1, <2>3, CreateEffect
  <2>4. ASSUME NEW k \in NodeKinds, RemoveNode(c, k) PROVE FALSE
    BY <1>2, <2>1, <2>4, RemoveEffect
  <2>5. ~Store(c)
    BY <1>2, <2>1, StoreEffect
  <2> QED BY <1>1, <2>2, <2>3, <2>4, <2>5, WritingSteps
<1> QED BY <1>3, <1>4

\* open_folder's new path is the way to the folder it found.
LEMMA CdWay ==
    ASSUME TypeOK, TreeOK, PathOK, NEW c \in Clients, CdDot(c) \/ CdUp(c) \/ CdDown(c)
    PROVE  path'[c] = PathTo[tmp'[c]]
<1> DEFINE b == cwd[c]
<1>1. pc[c] = "idle" /\ disk \in [Blocks -> Block] /\ path \in [Clients -> Seq(Names)]
      /\ tmp \in [Clients -> Blocks]
  BY DEF CdDot, CdUp, CdDown, CdOpen, Goto, TypeOK
<1>2. b \in Folders /\ b \in Blocks /\ disk[b] \in Block
  BY <1>1, IdleFolder, AllocatedType DEF Folders
<1>3. path[c] = PathTo[b]
  BY <1>1 DEF PathOK, Shown
<1>4. CASE CdDot(c)
  BY <1>1, <1>3, <1>4 DEF CdDot, CdOpen
<1>5. CASE CdUp(c)
  <2>1. /\ path'[c] = IF path[c] = << >> THEN path[c] ELSE Front(path[c])
        /\ tmp'[c] = IF b = FILE_ROOT THEN b ELSE disk[b].parent
    BY <1>1, <1>5 DEF CdUp, CdOpen
  <2>2. CASE b = FILE_ROOT
    <3>1. PathTo[b] = << >>
      BY <1>1, <2>2, WayOfRoot DEF PathTo
    <3> QED BY <1>3, <2>1, <2>2, <3>1
  <2>3. CASE b # FILE_ROOT
    <3>1. disk[b].parent < b /\ disk[b].parent \in Blocks /\ b \in Int /\ disk[b].parent \in Int
      BY <1>2, <2>3, SizeAssumption DEF PathOK, UpwardOK, Block, Blocks
    <3> DEFINE up == PathTo[disk[b].parent]
    <3>2. path[c] = Append(up, disk[b].name)
      BY <1>1, <1>2, <1>3, <2>3, <3>1, WayOfFolder DEF PathTo
    <3>3. up \in Seq(Names \cup {RootName})
      BY <1>1, <3>1, WayType DEF PathTo
    <3> HIDE DEF up
    <3>4. path[c] # << >> /\ Front(path[c]) = up
      BY <3>2, <3>3 DEF Front
    <3> QED BY <2>1, <2>3, <3>4 DEF up
  <2> QED BY <2>2, <2>3
<1>6. CASE CdDown(c)
  <2>1. PICK n \in Names : \E i \in FirstMatch(b, "folder", n) :
           CdOpen(c, disk[b].ptrs[i], Append(path[c], n))
    BY <1>6 DEF CdDown
  <2>2. PICK i \in FirstMatch(b, "folder", n) : CdOpen(c, disk[b].ptrs[i], Append(path[c], n))
    BY <2>1
  <2> DEFINE x == disk[b].ptrs[i]
  <2>3. i \in DOMAIN disk[b].ptrs /\ disk[x].name = n
    BY DEF FirstMatch, Matches
  <2>4. x \in Blocks /\ x # FILE_ROOT /\ disk[x].parent = b /\ b < x /\ b \in Int /\ x \in Int
    <3>1. /\ x \in Allocated /\ x # FILE_ROOT /\ disk[x].parent = b /\ b < x
          /\ b \in Allocated
      BY <1>2, <2>3, ChildNodes
    <3> HIDE DEF x, b
    <3>2. x \in Blocks /\ b \in Blocks
      BY <3>1, AllocatedType
    <3>3. x \in Int /\ b \in Int
      BY <3>2, SizeAssumption DEF Blocks
    <3> QED BY <3>1, <3>2, <3>3
  <2>5. PathTo[x] = Append(PathTo[b], n)
    <3> HIDE DEF x
    <3> QED BY <1>1, <2>3, <2>4, WayOfFolder DEF PathTo
  <2>6. path'[c] = Append(path[c], n) /\ tmp'[c] = x
    BY <1>1, <2>2 DEF CdOpen
  <2> QED BY <1>3, <2>5, <2>6
<1> QED BY <1>4, <1>5, <1>6

\* Every other step leaves the folder that a thread's path stands for, or takes
\* path and folder back to the root.
LEMMA ShownStep ==
    ASSUME TypeOK, TreeOK, NEW c \in Clients, Session(c), ~Format(c), NEW e \in Clients,
           pc'[e] # "off"
    PROVE  \/ pc[e] # "off" /\ path'[e] = path[e] /\ Shown(e)' = Shown(e)
           \/ path'[e] = << >> /\ Shown(e)' = FILE_ROOT
           \/ e = c /\ (CdDot(c) \/ CdUp(c) \/ CdDown(c)) /\ Shown(e)' = tmp'[e]
<1> USE DEF Goto, Shown
<1> /\ pc \in [Clients -> Steps] /\ cwd \in [Clients -> Blocks] /\ tmp \in [Clients -> Blocks]
    /\ path \in [Clients -> Seq(Names)]
  BY DEF TypeOK
<1>1. CASE CdDot(c) \/ CdUp(c) \/ CdDown(c)
  BY <1>1 DEF CdDot, CdUp, CdDown, CdOpen
<1>2. CASE Connect(c)
  BY <1>2 DEF Connect
<1>3. CASE Login(c) \/ Disconnect(c) \/ ResetByPeer(c)
  BY <1>3 DEF Login, Disconnect, ResetByPeer
<1>4. CASE CdRelease(c) \/ CdAdopt(c) \/ CdDrop(c)
  BY <1>4 DEF CdRelease, CdAdopt, CdDrop
<1>5. CASE Load(c) \/ Overrun(c) \/ Close(c)
  BY <1>5 DEF Load, Overrun, Close
<1>6. CASE \E k \in NodeKinds : CreateNode(c, k) \/ RemoveNode(c, k)
  BY <1>6 DEF CreateNode, RemoveNode
<1>7. CASE \E m \in FileCommands : Open(c, m)
  BY <1>7 DEF Open
<1>8. CASE Store(c) \/ Garbled(c)
  BY <1>8 DEF Store, BeforeStore, Garbled
<1> QED BY <1>1, <1>2, <1>3, <1>4, <1>5, <1>6, <1>7, <1>8 DEF Session

LEMMA PathStep ==
    ASSUME TypeOK, TypeOK', TreeSound, TreeSound', PathSound, [Next]_vars
    PROVE  PathSound'
<1>1. CASE UNCHANGED vars
  BY <1>1 DEF vars, PathSound, PathOK, UpwardOK, Folders, Allocated, PathTo, PathIn, Shown
<1>2. ASSUME NEW c \in Clients, Session(c) PROVE PathSound'
  <2> SUFFICES ASSUME intact' PROVE PathOK'
    BY DEF PathSound
  <2>1. UpwardOK'
    BY <1>2, UpwardStep
  <2>2. disk \in [Blocks -> Block] /\ disk' \in [Blocks -> Block]
    BY DEF TypeOK
  <2>3. ASSUME NEW e \in Clients, pc'[e] # "off" PROVE path'[e] = PathIn(disk')[Shown(e)']
    <3>1. CASE Format(c)
      <4>1. path'[e] = << >> /\ UNCHANGED <<pc, cwd, tmp>>
        BY <3>1, FormatEffect DEF Format
      <4>2. \A h \in HandleIds : Live(h) => Addr(h) = FILE_ROOT
        BY <3>1 DEF Format
      <4>3. Shown(e)' = FILE_ROOT
        <5>1. <<e, "cwd">> \in HandleIds /\ <<e, "tmp">> \in HandleIds
          BY DEF HandleIds
        <5>2. pc[e] \in {"cdOpened", "cdReleased"} => tmp[e] = FILE_ROOT
          BY <4>2, <5>1 DEF Live, Addr
        <5>3. pc[e] \notin {"off", "cdReleased"} => cwd[e] = FILE_ROOT
          BY <4>2, <5>1 DEF Live, Addr
        <5> QED BY <2>3, <4>1, <5>2, <5>3 DEF Shown
      <4> QED BY <2>2, <4>1, <4>3, WayOfRoot
    <3>2. CASE ~Format(c)
      <4>1. intact /\ TreeOK /\ PathOK
        BY <1>2, <3>2, WritingSteps DEF PathSound
      <4>2. CASE pc[e] # "off" /\ path'[e] = path[e] /\ Shown(e)' = Shown(e)
        <5>1. path[e] = PathIn(disk)[Shown(e)]
          BY <4>1, <4>2 DEF PathOK, PathTo
        <5>2. Shown(e) \in Folders
          <6>1. HandleOK(e)
            BY <4>1 DEF TreeOK
          <6> QED BY <4>2, <6>1 DEF HandleOK, Live, Shown, CdSteps
        <5>3. PathIn(disk')[Shown(e)] = PathIn(disk)[Shown(e)]
          BY <1>2, <3>2, <5>2, WaysStay
        <5> QED BY <4>2, <5>1, <5>3
      <4>3. CASE path'[e] = << >> /\ Shown(e)' = FILE_ROOT
        BY <2>2, <4>3, WayOfRoot
      <4>4. CASE e = c /\ (CdDot(c) \/ CdUp(c) \/ CdDown(c)) /\ Shown(e)' = tmp'[e]
        <5>1. path'[c] = PathIn(disk)[tmp'[c]]
          BY <4>1, <4>4, CdWay DEF PathTo
        <5>2. disk' = disk
          BY <4>4 DEF CdDot, CdUp, CdDown, CdOpen
        <5> QED BY <4>4, <5>1, <5>2
      <4> QED BY <1>2, <2>3, <3>2, <4>1, <4>2, <4>3, <4>4, ShownStep
    <3> QED BY <3>1, <3>2
  <2> QED BY <2>1, <2>3 DEF PathOK, PathTo
<1> QED BY <1>1, <1>2 DEF Next

\* The path a session shows is the way to its current folder whenever it waits for
\* a command, whatever the other sessions created, removed or formatted.
THEOREM PathIsRight == Spec => []PathIsCwd
<1>1. Init => PathSound
  <2> SUFFICES ASSUME Init PROVE UpwardOK
    BY DEF PathSound, PathOK, Init
  <2>1. Folders \subseteq {FILE_ROOT}
    BY DEF Init, DefaultRoot, Folders, Allocated, RESERVED_BLOCKS
  <2> QED BY <2>1 DEF UpwardOK
<1>2. /\ TypeOK /\ TypeOK' /\ TreeSound /\ TreeSound' /\ PathSound /\ [Next]_vars
      => PathSound'
  BY PathStep
<1>3. Spec => []PathSound
  BY <1>1, <1>2, TypeCorrect, TreeIsSound, PTL DEF Spec
<1>4. PathSound => PathIsCwd
  BY DEF PathSound, PathOK, PathIsCwd, Shown
<1> QED BY <1>3, <1>4, PTL
-----------------------------------------------------------------------------
(* The paths that users see *)

\* Node a does not list block b; and one step of the recursion of PathsIn
Unlisted(d, a, b) == \A i \in DOMAIN d[a].ptrs : d[a].ptrs[i] # b
Paths(d, way, b) ==
    IF b = FILE_ROOT THEN {<< >>}
    ELSE IF d[b].kind \notin NodeKinds \/ d[b].parent >= b \/ Unlisted(d, d[b].parent, b) THEN {}
    ELSE {Append(p, d[b].name) : p \in way[d[b].parent]}

\* Some function solves the recursion, for the same reason as the way up.
LEMMA PathsExist ==
    ASSUME NEW d \in [Blocks -> Block]
    PROVE  \E way : way = [b \in Blocks |-> Paths(d, way, b)]
<1> DEFINE Solves(n, way) == /\ way = [b \in Blocks |-> way[b]]
                             /\ \A b \in Blocks : b < n => way[b] = Paths(d, way, b)
           T == {n \in Nat : ~ \E way : Solves(n, way)}
<1>1. T = {}
  <2> SUFFICES ASSUME T # {} PROVE FALSE
    OBVIOUS
  <2>1. PICK n \in T : \A y \in T : n <= y
    BY Least
  <2>2. n \in Nat /\ ~ \E way : Solves(n, way)
    OBVIOUS
  <2>3. n # 0
    <3> DEFINE none == [b \in Blocks |-> {}]
    <3>1. Solves(0, none)
      BY DEF Blocks
    <3> QED BY <2>2, <3>1
  <2> DEFINE m == n - 1
  <2>4. m \in Nat /\ m < n
    BY <2>2, <2>3
  <2>5. PICK way : Solves(m, way)
    <3>1. m \notin T
      BY <2>1, <2>2, <2>4
    <3> QED BY <2>4, <3>1
  <2> DEFINE next == [b \in Blocks |-> IF b = m THEN Paths(d, way, b) ELSE way[b]]
  <2>6. next = [b \in Blocks |-> next[b]]
    OBVIOUS
  <2>7. ASSUME NEW b \in Blocks, b < n PROVE next[b] = Paths(d, next, b)
    <3>1. b \in Nat /\ b <= m /\ d[b].parent \in Blocks /\ d[b].parent \in Nat
      BY <2>2, <2>7, SizeAssumption DEF Blocks, Block
    <3>2. Paths(d, next, b) = Paths(d, way, b)
      <4>1. CASE b = FILE_ROOT \/ d[b].parent >= b
        BY <4>1 DEF Paths
      <4>2. CASE b # FILE_ROOT /\ ~(d[b].parent >= b)
        <5>1. next[d[b].parent] = way[d[b].parent]
          BY <2>4, <3>1, <4>2
        <5> HIDE DEF next
        <5> QED BY <4>2, <5>1 DEF Paths
      <4> QED BY <4>1, <4>2
    <3>3. next[b] = Paths(d, way, b)
      <4>1. CASE b = m
        BY <4>1
      <4>2. CASE b # m
        BY <2>4, <2>5, <3>1, <4>2
      <4> QED BY <4>1, <4>2
    <3> QED BY <3>2, <3>3
  <2>8. Solves(n, next)
    <3> HIDE DEF next
    <3> QED BY <2>6, <2>7
  <2> QED BY <2>2, <2>8
<1>2. PICK way : Solves(MaxBlocks, way)
  BY <1>1, SizeAssumption
<1>3. way = [b \in Blocks |-> Paths(d, way, b)]
  <2>1. \A b \in Blocks : way[b] = Paths(d, way, b)
    BY <1>2, SizeAssumption DEF Blocks
  <2> QED BY <1>2, <2>1
<1> QED BY <1>3

\* The paths to a node are those to the folder that lists it, and the node's name.
LEMMA PathsUp ==
    ASSUME NEW d \in [Blocks -> Block]
    PROVE  /\ PathsIn(d) = [b \in Blocks |-> PathsIn(d)[b]]
           /\ \A b \in Blocks : PathsIn(d)[b] = Paths(d, PathsIn(d), b)
<1>1. PathsIn(d) = CHOOSE way : way = [x \in Blocks |-> Paths(d, way, x)]
  BY DEF PathsIn, Paths, Unlisted
<1>2. PathsIn(d) = [x \in Blocks |-> Paths(d, PathsIn(d), x)]
  BY <1>1, PathsExist
<1> QED BY <1>2

\* What no path leads to stays so: nothing but the nodes of a set that has the root
\* and is closed has a path.
LEMMA PathsStayWithin ==
    ASSUME NEW d \in [Blocks -> Block], NEW G, G \subseteq Blocks, FILE_ROOT \in G,
           \A a \in G : \A i \in DOMAIN d[a].ptrs :
              d[a].ptrs[i] \in G \/ d[d[a].ptrs[i]].kind \notin NodeKinds,
           NEW b \in Blocks, b \notin G
    PROVE  PathsIn(d)[b] = {}
<1> DEFINE T == {x \in Blocks \ G : PathsIn(d)[x] # {}}
<1> SUFFICES ASSUME T # {} PROVE FALSE
  OBVIOUS
<1>1. Blocks \subseteq Nat
  BY SizeAssumption DEF Blocks
<1>2. PICK x \in T : \A y \in T : x <= y
  <2>1. T \subseteq Nat
    BY <1>1
  <2> HIDE DEF T
  <2> QED BY <2>1, Least
<1> DEFINE a == d[x].parent
<1>3. x \in Blocks /\ x \notin G /\ x # FILE_ROOT /\ x \in Nat /\ a \in Blocks /\ a \in Nat
  BY <1>1 DEF Block
<1>4. PathsIn(d)[x] = Paths(d, PathsIn(d), x) /\ PathsIn(d)[x] # {}
  BY <1>3, PathsUp
<1>5. d[x].kind \in NodeKinds /\ a < x /\ ~Unlisted(d, a, x)
      /\ PathsIn(d)[x] = {Append(p, d[x].name) : p \in PathsIn(d)[a]}
  BY <1>3, <1>4 DEF Paths
<1>6. a \notin G
  BY <1>3, <1>5 DEF Unlisted
<1>7. PathsIn(d)[a] = {}
  BY <1>2, <1>3, <1>5, <1>6
<1> QED BY <1>4, <1>5, <1>7

\* Two disks that agree on the nodes of such a set, but for what files point to,
\* have the same paths.
LEMMA PathsAgree ==
    ASSUME NEW d \in [Blocks -> Block], NEW e \in [Blocks -> Block],
           NEW G, G \subseteq Blocks, FILE_ROOT \in G,
           \A a \in G : /\ e[a].kind = d[a].kind
                        /\ d[a].kind \in NodeKinds => e[a].parent = d[a].parent /\ e[a].name = d[a].name
                        /\ d[a].kind = "folder" => e[a].ptrs = d[a].ptrs
                        /\ d[a].kind \in NodeKinds /\ a # FILE_ROOT =>
                              d[a].parent \in G /\ d[d[a].parent].kind = "folder",
           \A a \in G : \A i \in DOMAIN d[a].ptrs :
              d[a].ptrs[i] \in G \/ d[d[a].ptrs[i]].kind \notin NodeKinds,
           \A a \in G : \A i \in DOMAIN e[a].ptrs :
              e[a].ptrs[i] \in G \/ e[e[a].ptrs[i]].kind \notin NodeKinds
    PROVE  PathsIn(e) = PathsIn(d)
<1> DEFINE T == {x \in Blocks : PathsIn(e)[x] # PathsIn(d)[x]}
<1>1. Blocks \subseteq Nat
  BY SizeAssumption DEF Blocks
<1>2. T = {}
  <2> SUFFICES ASSUME T # {} PROVE FALSE
    OBVIOUS
  <2>1. PICK x \in T : \A y \in T : x <= y
    <3>1. T \subseteq Nat
      BY <1>1
    <3> HIDE DEF T
    <3> QED BY <3>1, Least
  <2>2. x \in Blocks /\ x \in Nat /\ PathsIn(e)[x] # PathsIn(d)[x]
    BY <1>1
  <2>3. x \in G
    <3>1. x \notin G => PathsIn(d)[x] = {}
      BY <2>2, PathsStayWithin
    <3>2. x \notin G => PathsIn(e)[x] = {}
      BY <2>2, PathsStayWithin
    <3> QED BY <2>2, <3>1, <3>2
  <2>4. /\ PathsIn(d)[x] = Paths(d, PathsIn(d), x)
        /\ PathsIn(e)[x] = Paths(e, PathsIn(e), x)
    BY <2>2, PathsUp
  <2>5. x # FILE_ROOT /\ d[x].kind \in NodeKinds /\ e[x].kind = d[x].kind
    BY <2>2, <2>3, <2>4 DEF Paths
  <2> DEFINE a == d[x].parent
  <2>6. a \in G /\ a \in Blocks /\ a \in Nat /\ e[x].parent = a /\ e[x].name = d[x].name
        /\ e[a].ptrs = d[a].ptrs
    BY <1>1, <2>3, <2>5
  <2> HIDE DEF a
  <2>7. Unlisted(e, a, x) <=> Unlisted(d, a, x)
    BY <2>6 DEF Unlisted
  <2>8. a < x
    <3>1. CASE a >= x
      BY <2>2, <2>4, <2>5, <2>6, <3>1 DEF Paths, a
    <3> QED BY <2>2, <2>6, <3>1
  <2>9. PathsIn(e)[a] = PathsIn(d)[a]
    BY <2>1, <2>2, <2>6, <2>8
  <2>10. Paths(e, PathsIn(e), x) = Paths(d, PathsIn(d), x)
    BY <2>5, <2>6, <2>7, <2>9 DEF Paths, a
  <2> QED BY <2>2, <2>4, <2>10
<1>3. \A x \in Blocks : PathsIn(e)[x] = PathsIn(d)[x]
  BY <1>2
<1> QED BY <1>3, PathsUp
=============================================================================
