--------------------------- MODULE FileSystemProofs ---------------------------
(***************************************************************************)
(* What is proved of FileSystem for every value of its constants.          *)
(***************************************************************************)
EXTENDS FileSystem, FiniteSetTheorems, TLAPS

-----------------------------------------------------------------------------
(* Lemmas about the operators *)

\* new_block always returns a block of the disk above the reserved ones.
LEMMA NewBlockType ==
    ASSUME AllocOK, NEW i \in Nat
    PROVE  /\ NewBlock(alloc, i) \in Blocks
           /\ NewBlock(alloc, i) >= RESERVED_BLOCKS
           /\ NewBlock(alloc, i) >= alloc.start
BY SizeAssumption DEF AllocOK, NewBlock, Blocks, RESERVED_BLOCKS

\* The extent after some calls is again one that ends with the disk.
LEMMA RestType ==
    ASSUME AllocOK, NEW k \in Nat, alloc' = Rest(alloc, k)
    PROVE  AllocOK'
BY SizeAssumption DEF AllocOK, NewBlock, Rest, Blocks, RESERVED_BLOCKS

\* A blank block, a node and a data block are blocks.
LEMMA BlankType == Blank \in Block /\ FILE_ROOT \in Blocks
<1>1. FILE_ROOT \in Blocks
  BY SizeAssumption DEF Blocks, FILE_ROOT, RESERVED_BLOCKS
<1>2. << >> \in Seq(Blocks)
  OBVIOUS
<1> QED BY <1>1, <1>2 DEF Block, Blank, Kinds

LEMMA NewNodeType ==
    ASSUME NEW k \in Kinds, NEW n \in Names, NEW p \in Blocks
    PROVE  NewNode(k, n, p) \in Block
BY BlankType DEF NewNode, Block, Blank

LEMMA DataBlockType ==
    ASSUME NEW d \in Data \cup {NoData}
    PROVE  DataBlock(d) \in Block
BY BlankType DEF DataBlock, Block, Kinds

LEMMA RootType == DefaultRootFolder \in Block
BY BlankType DEF DefaultRootFolder, Block, Kinds

\* What the commands hand to write_all is a sequence of payloads.
LEMMA RemoveAtType ==
    ASSUME NEW S, NEW s \in Seq(S), NEW i \in DOMAIN s
    PROVE  RemoveAt(s, i) \in Seq(S)
BY DEF RemoveAt

LEMMA ToStoreType ==
    ASSUME TypeOK, NEW c \in Clients, NEW new \in ToStore(c), cmd[c] \in {"w", "i", "d"}
    PROVE  new \in Seq(Data \cup {NoData})
<1> content[c] \in Seq(Data \cup {NoData})
  BY DEF TypeOK
<1>1. CASE cmd[c] = "w"
  <2>1. PICK n \in 1 .. MaxWrite : new \in [1 .. n -> Data]
    BY <1>1 DEF ToStore
  <2> QED BY <2>1
<1>2. CASE cmd[c] = "i"
  <2>1. PICK pos \in 0 .. Len(content[c]), d \in Data : new = InsertAt(content[c], pos + 1, d)
    BY <1>2 DEF ToStore
  <2> QED BY <2>1 DEF InsertAt
<1>3. CASE cmd[c] = "d"
  <2>1. PICK pos \in 0 .. Len(content[c]), len \in 0 .. Len(content[c]) :
           new = Erased(content[c], pos, len)
    BY <1>3 DEF ToStore
  <2> QED BY <2>1 DEF Erased
<1> QED BY <1>1, <1>2, <1>3

-----------------------------------------------------------------------------
(* Type correctness *)

LEMMA TypeInit == Init => TypeOK
BY SizeAssumption, RootType, BlankType
   DEF Init, TypeOK, AllocOK, DefaultRoot, Blocks, FILE_ROOT, RESERVED_BLOCKS, Steps, FileSteps, CommandOK

LEMMA CreateType ==
    ASSUME TypeOK, NEW c \in Clients, NEW k \in NodeKinds, CreateNode(c, k)
    PROVE  TypeOK'
<1> USE DEF CreateNode, Goto
<1>1. PICK n \in Names :
         disk' = [disk EXCEPT ![NewBlock(alloc, 0)] = NewNode(k, n, cwd[c]),
                              ![cwd[c]] = [disk[cwd[c]] EXCEPT !.ptrs = Append(@, NewBlock(alloc, 0))]]
  OBVIOUS
<1>2. NewBlock(alloc, 0) \in Blocks
  BY NewBlockType DEF TypeOK
<1>3. NewNode(k, n, cwd[c]) \in Block
  BY NewNodeType DEF TypeOK, NodeKinds, Kinds
<1>4. [disk[cwd[c]] EXCEPT !.ptrs = Append(@, NewBlock(alloc, 0))] \in Block
  <2>1. disk[cwd[c]] \in Block
    BY DEF TypeOK
  <2>2. Append(disk[cwd[c]].ptrs, NewBlock(alloc, 0)) \in Seq(Blocks)
    BY <1>2, <2>1 DEF Block
  <2> QED BY <2>1, <2>2 DEF Block
<1>5. disk' \in [Blocks -> Block]
  BY <1>1, <1>2, <1>3, <1>4 DEF TypeOK
<1>6. AllocOK'
  BY RestType DEF TypeOK
<1>7. pc' = pc /\ intact' \in BOOLEAN
  BY DEF TypeOK
<1> QED BY <1>5, <1>6, <1>7 DEF TypeOK, CommandOK

LEMMA RemoveType ==
    ASSUME TypeOK, NEW c \in Clients, NEW k \in NodeKinds, RemoveNode(c, k)
    PROVE  TypeOK'
<1> USE DEF RemoveNode, Goto
<1>1. PICK i \in DOMAIN disk[cwd[c]].ptrs :
         disk' = [disk EXCEPT ![cwd[c]].ptrs = RemoveAt(@, i)]
  BY DEF FirstMatch, Matches
<1>2. disk[cwd[c]] \in Block /\ disk[cwd[c]].ptrs \in Seq(Blocks)
  BY DEF TypeOK, Block
<1>3. RemoveAt(disk[cwd[c]].ptrs, i) \in Seq(Blocks)
  BY <1>2, RemoveAtType
<1>4. disk' \in [Blocks -> Block]
  BY <1>1, <1>2, <1>3 DEF TypeOK, Block
<1>5. pc' = pc
  BY DEF TypeOK
<1> QED BY <1>4, <1>5 DEF TypeOK, AllocOK, CommandOK

LEMMA StoreType ==
    ASSUME TypeOK, NEW c \in Clients, Store(c)
    PROVE  TypeOK'
<1> DEFINE f == tmp[c]
           had == Len(disk[f].ptrs)
<1> f \in Blocks /\ disk[f] \in Block /\ disk[f].ptrs \in Seq(Blocks) /\ had \in Nat
  BY DEF TypeOK, Block
<1>1. PICK new \in ToStore(c) :
         /\ Len(new) \in 1 .. FileCapacity
         /\ \E last \in [{Extents(f, Len(new))[i] : i \in 1 .. Len(new)} -> 1 .. Len(new)] :
               disk' = [b \in Blocks |->
                          IF b = f THEN [disk[f] EXCEPT !.ptrs = Extents(f, Len(new))]
                          ELSE IF b \in DOMAIN last THEN DataBlock(new[last[b]])
                          ELSE disk[b]]
         /\ alloc' = Rest(alloc, IF Len(new) > had THEN Len(new) - had ELSE 0)
         /\ intact' = (intact /\ ~Exhausts(alloc, IF Len(new) > had THEN Len(new) - had ELSE 0))
  BY DEF Store
<1> DEFINE n == Len(new)
           extra == IF n > had THEN n - had ELSE 0
<1>2. PICK last \in [{Extents(f, n)[i] : i \in 1 .. n} -> 1 .. n] :
         disk' = [b \in Blocks |->
                    IF b = f THEN [disk[f] EXCEPT !.ptrs = Extents(f, n)]
                    ELSE IF b \in DOMAIN last THEN DataBlock(new[last[b]])
                    ELSE disk[b]]
  BY <1>1
<1>3. cmd[c] \in {"w", "i", "d"}
  <2>1. pc[c] = BeforeStore(c) /\ CommandOK(c)
    BY DEF Store, Goto, TypeOK
  <2> QED BY <2>1 DEF BeforeStore, CommandOK, FileSteps
<1>4. new \in Seq(Data \cup {NoData})
  BY <1>3, ToStoreType
<1>5. Extents(f, n) \in Seq(Blocks)
  <2>1. n \in Nat
    BY <1>4
  <2>2. ASSUME NEW i \in 1 .. n PROVE Extents(f, n)[i] \in Blocks
    <3>1. CASE i <= had
      BY <2>1, <3>1 DEF Extents
    <3>2. CASE ~(i <= had)
      <4>1. i - had - 1 \in Nat
        BY <2>1, <3>2
      <4>2. NewBlock(alloc, i - had - 1) \in Blocks
        BY <4>1, NewBlockType DEF TypeOK
      <4> QED BY <4>2, <3>2 DEF Extents
    <3> QED BY <3>1, <3>2
  <2> QED BY <2>1, <2>2 DEF Extents
<1>6. disk' \in [Blocks -> Block]
  <2>1. [disk[f] EXCEPT !.ptrs = Extents(f, n)] \in Block
    BY <1>5 DEF Block
  <2>2. ASSUME NEW b \in DOMAIN last PROVE DataBlock(new[last[b]]) \in Block
    BY <1>4, DataBlockType
  <2> QED BY <1>2, <2>1, <2>2 DEF TypeOK
<1>7. extra \in Nat
  BY <1>4
<1>8. AllocOK'
  BY <1>1, <1>7, RestType DEF TypeOK
<1>9. intact' \in BOOLEAN
  BY <1>1
<1>10. pc' \in [Clients -> Steps] /\ cmd' = cmd
  BY DEF Store, Goto, TypeOK, Steps, FileSteps
<1>11. ASSUME NEW d \in Clients PROVE CommandOK(d)'
  BY <1>3, <1>10 DEF Store, Goto, TypeOK, CommandOK, FileSteps, FileCommands
<1>12. UNCHANGED <<count, server, cwd, path, tmp, content>>
  BY DEF Store
<1> QED BY <1>6, <1>8, <1>9, <1>10, <1>11, <1>12 DEF TypeOK

\* The steps of a connection.
LEMMA ConnectionType ==
    ASSUME TypeOK, NEW c \in Clients,
           Connect(c) \/ Login(c) \/ Disconnect(c) \/ ResetByPeer(c)
    PROVE  TypeOK'
<1> USE DEF TypeOK, AllocOK, CommandOK, Goto, Steps, FileSteps, CdSteps
<1>1. CASE Connect(c)
  BY <1>1, BlankType DEF Connect, Construct
<1>2. CASE Login(c)
  BY <1>2 DEF Login
<1>3. CASE Disconnect(c)
  BY <1>3, BlankType DEF Disconnect, Destruct
<1>4. CASE ResetByPeer(c)
  BY <1>4 DEF ResetByPeer, Ends
<1> QED BY <1>1, <1>2, <1>3, <1>4

\* The steps of "cd".
LEMMA CdOpenType ==
    ASSUME TypeOK, NEW c \in Clients, NEW b \in Blocks, NEW p \in Seq(Names), CdOpen(c, b, p)
    PROVE  TypeOK'
BY DEF CdOpen, Construct, TypeOK, AllocOK, CommandOK, Goto, Steps, FileSteps, CdSteps

LEMMA CdType ==
    ASSUME TypeOK, NEW c \in Clients,
           CdDot(c) \/ CdUp(c) \/ CdDown(c) \/ CdRelease(c) \/ CdAdopt(c) \/ CdDrop(c)
    PROVE  TypeOK'
<1> cwd[c] \in Blocks /\ disk[cwd[c]] \in Block /\ path[c] \in Seq(Names)
  BY DEF TypeOK
<1>1. CASE CdDot(c)
  BY <1>1, CdOpenType DEF CdDot
<1>2. CASE CdUp(c)
  <2>1. disk[cwd[c]].parent \in Blocks
    BY DEF Block
  <2>2. path[c] # << >> => Front(path[c]) \in Seq(Names)
    BY DEF Front
  <2> QED BY <1>2, <2>1, <2>2, CdOpenType DEF CdUp
<1>3. CASE CdDown(c)
  <2>1. PICK n \in Names, i \in DOMAIN disk[cwd[c]].ptrs :
           CdOpen(c, disk[cwd[c]].ptrs[i], Append(path[c], n))
    BY <1>3 DEF CdDown, FirstMatch, Matches
  <2>2. disk[cwd[c]].ptrs[i] \in Blocks /\ Append(path[c], n) \in Seq(Names)
    BY DEF Block
  <2> QED BY <2>1, <2>2, CdOpenType
<1> USE DEF TypeOK, AllocOK, CommandOK, Goto, Steps, FileSteps, CdSteps
<1>4. CASE CdRelease(c)
  BY <1>4 DEF CdRelease, Destruct
<1>5. CASE CdAdopt(c)
  BY <1>5 DEF CdAdopt, Construct
<1>6. CASE CdDrop(c)
  BY <1>6, BlankType DEF CdDrop, Destruct
<1> QED BY <1>1, <1>2, <1>3, <1>4, <1>5, <1>6

\* The other steps of the file commands.
LEMMA FileStepType ==
    ASSUME TypeOK, NEW c \in Clients,
           (\E m \in FileCommands : Open(c, m)) \/ Load(c) \/ Overrun(c) \/ Close(c)
    PROVE  TypeOK'
<1>1. ASSUME NEW m \in FileCommands, Open(c, m) PROVE TypeOK'
  <2>1. PICK i \in DOMAIN disk[cwd[c]].ptrs :
           /\ count' = Construct(count, disk[cwd[c]].ptrs[i])
           /\ tmp' = [tmp EXCEPT ![c] = disk[cwd[c]].ptrs[i]]
    BY <1>1 DEF Open, FirstMatch, Matches
  <2>2. disk[cwd[c]].ptrs[i] \in Blocks
    BY DEF TypeOK, Block
  <2>3. count' \in [Blocks -> Nat] /\ tmp' \in [Clients -> Blocks]
    BY <2>1, <2>2 DEF TypeOK, Construct
  <2>4. pc' \in [Clients -> Steps] /\ cmd' \in [Clients -> FileCommands \cup {"none"}]
    BY <1>1 DEF Open, Goto, TypeOK, Steps, FileSteps
  <2>5. ASSUME NEW d \in Clients PROVE CommandOK(d)'
    BY <1>1 DEF Open, Goto, TypeOK, CommandOK, FileSteps
  <2> QED BY <1>1, <2>3, <2>4, <2>5 DEF Open, TypeOK, AllocOK
<1>2. CASE Load(c)
  <2>1. ContentOf(tmp[c]) \in Seq(Data \cup {NoData})
    <3>1. tmp[c] \in Blocks /\ disk[tmp[c]].ptrs \in Seq(Blocks)
      BY DEF TypeOK, Block
    <3>2. \A i \in DOMAIN disk[tmp[c]].ptrs : disk[disk[tmp[c]].ptrs[i]].data \in Data \cup {NoData}
      BY <3>1 DEF TypeOK, Block
    <3> QED BY <3>1, <3>2 DEF ContentOf
  <2>2. content' \in [Clients -> Seq(Data \cup {NoData})]
    BY <1>2, <2>1 DEF Load, TypeOK
  <2>3. cmd[c] \in {"cat", "i", "d"}
    BY <1>2 DEF Load, Goto, TypeOK, CommandOK, FileSteps, FileCommands
  <2>4. pc' \in [Clients -> Steps] /\ cmd' = cmd
    BY <1>2, <2>3 DEF Load, Goto, TypeOK, Steps, FileSteps
  <2>5. ASSUME NEW d \in Clients PROVE CommandOK(d)'
    BY <1>2, <2>3 DEF Load, Goto, TypeOK, CommandOK, FileSteps, FileCommands
  <2> QED BY <1>2, <2>2, <2>4, <2>5 DEF Load, TypeOK, AllocOK
<1>3. CASE Overrun(c)
  BY <1>3 DEF Overrun, TypeOK, AllocOK, CommandOK, Ends
<1>4. CASE Close(c)
  BY <1>4, BlankType DEF Close, Destruct, TypeOK, AllocOK, CommandOK, Goto, Steps, FileSteps
<1> QED BY <1>1, <1>2, <1>3, <1>4

LEMMA FormatType ==
    ASSUME TypeOK, NEW c \in Clients, Format(c) \/ Garbled(c)
    PROVE  TypeOK'
<1>1. CASE Format(c)
  <2>1. AllocOK'
    BY <1>1, SizeAssumption DEF Format, AllocOK, DefaultRoot, Blocks, RESERVED_BLOCKS
  <2>2. disk' \in [Blocks -> Block] /\ pc' = pc /\ intact' \in BOOLEAN
    BY <1>1, RootType DEF Format, TypeOK, Goto
  <2> QED BY <1>1, <2>1, <2>2 DEF Format, TypeOK, CommandOK
<1>2. CASE Garbled(c)
  BY <1>2 DEF Garbled, TypeOK, AllocOK, CommandOK, Ends
<1> QED BY <1>1, <1>2

LEMMA TypeStep == TypeOK /\ [Next]_vars => TypeOK'
<1> SUFFICES ASSUME TypeOK, [Next]_vars PROVE TypeOK'
  OBVIOUS
<1>1. CASE UNCHANGED vars
  BY <1>1 DEF vars, TypeOK, AllocOK, CommandOK
<1>2. ASSUME NEW c \in Clients, Session(c) PROVE TypeOK'
  BY <1>2, ConnectionType, CdType, CreateType, RemoveType, FileStepType, StoreType, FormatType
     DEF Session
<1> QED BY <1>1, <1>2 DEF Next

\* In every state each variable has its type, and the allocator's extent is a
\* non-empty one above the reserved blocks that ends with the disk.
THEOREM TypeCorrect == Spec => []TypeOK
BY TypeInit, TypeStep, PTL DEF Spec

-----------------------------------------------------------------------------
(* The counts are exact *)

\* The handles on a block are finitely many.
LEMMA HandlesFinite ==
    ASSUME NEW b
    PROVE  IsFiniteSet(HandlesOn(b)) /\ Cardinality(HandlesOn(b)) \in Nat
<1>1. IsFiniteSet({"cwd", "tmp"})
  <2>1. IsFiniteSet({"cwd"})
    BY FS_Singleton
  <2>2. IsFiniteSet({"cwd"} \cup {"tmp"})
    BY <2>1, FS_AddElement
  <2>3. {"cwd"} \cup {"tmp"} = {"cwd", "tmp"}
    OBVIOUS
  <2> QED BY <2>2, <2>3
<1>2. IsFiniteSet(HandleIds)
  BY <1>1, ClientsAssumption, FS_Product DEF HandleIds
<1>3. HandlesOn(b) \in SUBSET HandleIds
  BY DEF HandlesOn
<1>4. IsFiniteSet(HandlesOn(b))
  BY <1>2, <1>3, FS_Subset
<1> QED BY <1>4, FS_CardinalityType

\* A handle stays as it is: it lives on where it was, or it is still dead.
Same(h) == /\ Live(h)' <=> Live(h)
           /\ Live(h) => Addr(h)' = Addr(h)

\* A step that constructs one handle, on block b, and counts it.
LEMMA OneMore ==
    ASSUME TypeOK, CountsExact, NEW b \in Blocks, NEW h \in HandleIds,
           ~Live(h), Live(h)', Addr(h)' = b,
           \A g \in HandleIds \ {h} : Same(g),
           count' = Construct(count, b)
    PROVE  CountsExact'
<1> SUFFICES ASSUME NEW a \in Blocks PROVE count'[a] = Cardinality(HandlesOn(a)')
  BY DEF CountsExact
<1>1. count \in [Blocks -> Nat] /\ count[a] = Cardinality(HandlesOn(a))
  BY DEF TypeOK, CountsExact
<1>2. CASE a = b
  <2>1. HandlesOn(a)' = HandlesOn(a) \cup {h}
    BY <1>2 DEF HandlesOn, Same
  <2>2. h \notin HandlesOn(a)
    BY DEF HandlesOn
  <2>3. Cardinality(HandlesOn(a) \cup {h}) = Cardinality(HandlesOn(a)) + 1
    BY <2>2, HandlesFinite, FS_AddElement
  <2> QED BY <1>1, <1>2, <2>1, <2>3 DEF Construct
<1>3. CASE a # b
  <2>1. HandlesOn(a)' = HandlesOn(a)
    BY <1>3 DEF HandlesOn, Same
  <2> QED BY <1>1, <1>3, <2>1 DEF Construct
<1> QED BY <1>2, <1>3

\* A step that destroys one handle, on block b, and counts it no more.
LEMMA OneLess ==
    ASSUME TypeOK, CountsExact, NEW b \in Blocks, NEW h \in HandleIds,
           Live(h), ~Live(h)', Addr(h) = b,
           \A g \in HandleIds \ {h} : Same(g),
           count' = Destruct(count, b)
    PROVE  CountsExact'
<1> SUFFICES ASSUME NEW a \in Blocks PROVE count'[a] = Cardinality(HandlesOn(a)')
  BY DEF CountsExact
<1>1. count \in [Blocks -> Nat] /\ count[a] = Cardinality(HandlesOn(a))
  BY DEF TypeOK, CountsExact
<1>2. CASE a = b
  <2>1. HandlesOn(a)' = HandlesOn(a) \ {h}
    BY <1>2 DEF HandlesOn, Same
  <2>2. h \in HandlesOn(a)
    BY <1>2 DEF HandlesOn
  <2>3. Cardinality(HandlesOn(a) \ {h}) = Cardinality(HandlesOn(a)) - 1
    BY <2>2, HandlesFinite, FS_RemoveElement
  <2>4. Cardinality(HandlesOn(a)) # 0
    BY <2>2, HandlesFinite, FS_EmptySet
  <2> QED BY <1>1, <1>2, <2>1, <2>3, <2>4 DEF Destruct
<1>3. CASE a # b
  <2>1. HandlesOn(a)' = HandlesOn(a)
    BY <1>3 DEF HandlesOn, Same
  <2> QED BY <1>1, <1>3, <2>1 DEF Destruct
<1> QED BY <1>2, <1>3

\* A step that leaves every handle, and the counts.
LEMMA NoneChanged ==
    ASSUME CountsExact, \A g \in HandleIds : Same(g), count' = count
    PROVE  CountsExact'
<1> SUFFICES ASSUME NEW a \in Blocks PROVE count'[a] = Cardinality(HandlesOn(a)')
  BY DEF CountsExact
<1>1. HandlesOn(a)' = HandlesOn(a)
  BY DEF HandlesOn, Same
<1> QED BY <1>1 DEF CountsExact

LEMMA CountsInit == Init => CountsExact
<1> SUFFICES ASSUME Init, NEW a \in Blocks PROVE count[a] = Cardinality(HandlesOn(a))
  BY DEF CountsExact
<1>1. HandlesOn(a) = {}
  BY DEF Init, HandlesOn, HandleIds, Live
<1> QED BY <1>1, FS_EmptySet DEF Init

\* How the steps of a thread touch its two handles.
LEMMA CountsStep == TypeOK /\ CountsExact /\ [Next]_vars => CountsExact'
<1> SUFFICES ASSUME TypeOK, CountsExact, [Next]_vars PROVE CountsExact'
  OBVIOUS
<1>1. CASE UNCHANGED vars
  BY <1>1, NoneChanged DEF vars, Same, Live, Addr
<1>2. ASSUME NEW c \in Clients, Session(c) PROVE CountsExact'
  <2> DEFINE folder == <<c, "cwd">>
             local == <<c, "tmp">>
  <2> folder \in HandleIds /\ local \in HandleIds
    BY DEF HandleIds
  <2> cwd[c] \in Blocks /\ tmp[c] \in Blocks /\ pc \in [Clients -> Steps]
    BY DEF TypeOK
  <2> USE DEF Goto, HandleIds, Same, Live, Addr
  <2>1. CASE Connect(c)
    <3>1. \A g \in HandleIds \ {folder} : Same(g)
      BY <2>1 DEF Connect, TypeOK
    <3>2. ~Live(folder) /\ Live(folder)' /\ Addr(folder)' = FILE_ROOT
      BY <2>1 DEF Connect, TypeOK
    <3> QED BY <2>1, <3>1, <3>2, OneMore, BlankType DEF Connect
  <2>2. CASE Disconnect(c)
    <3>1. \A g \in HandleIds \ {folder} : Same(g)
      BY <2>2 DEF Disconnect, TypeOK
    <3>2. Live(folder) /\ ~Live(folder)' /\ Addr(folder) = cwd[c]
      BY <2>2 DEF Disconnect, TypeOK
    <3> QED BY <2>2, <3>1, <3>2, OneLess DEF Disconnect
  <2>3. ASSUME NEW b \in Blocks, NEW p, CdOpen(c, b, p) PROVE CountsExact'
    <3>1. \A g \in HandleIds \ {local} : Same(g)
      BY <2>3 DEF CdOpen, TypeOK
    <3>2. ~Live(local) /\ Live(local)' /\ Addr(local)' = b
      BY <2>3 DEF CdOpen, TypeOK
    <3> QED BY <2>3, <3>1, <3>2, OneMore DEF CdOpen
  <2>4. CASE CdDot(c) \/ CdUp(c) \/ CdDown(c)
    <3>1. disk[cwd[c]].parent \in Blocks /\ disk[cwd[c]].ptrs \in Seq(Blocks)
      BY DEF TypeOK, Block
    <3>2. \A i \in DOMAIN disk[cwd[c]].ptrs : disk[cwd[c]].ptrs[i] \in Blocks
      BY <3>1
    <3>3. CASE CdDot(c)
      BY <2>3, <3>3 DEF CdDot
    <3>4. CASE CdUp(c)
      BY <2>3, <3>1, <3>4 DEF CdUp
    <3>5. CASE CdDown(c)
      <4>1. PICK i \in DOMAIN disk[cwd[c]].ptrs, p \in {Append(path[c], n) : n \in Names} :
               CdOpen(c, disk[cwd[c]].ptrs[i], p)
        BY <3>5 DEF CdDown, FirstMatch, Matches
      <4> QED BY <2>3, <3>2, <4>1
    <3> QED BY <2>4, <3>3, <3>4, <3>5
  <2>5. CASE CdRelease(c)
    <3>1. \A g \in HandleIds \ {folder} : Same(g)
      BY <2>5 DEF CdRelease, TypeOK
    <3>2. Live(folder) /\ ~Live(folder)' /\ Addr(folder) = cwd[c]
      BY <2>5 DEF CdRelease, TypeOK
    <3> QED BY <2>5, <3>1, <3>2, OneLess DEF CdRelease
  <2>6. CASE CdAdopt(c)
    <3>1. \A g \in HandleIds \ {folder} : Same(g)
      BY <2>6 DEF CdAdopt, TypeOK
    <3>2. ~Live(folder) /\ Live(folder)' /\ Addr(folder)' = tmp[c]
      BY <2>6 DEF CdAdopt, TypeOK
    <3> QED BY <2>6, <3>1, <3>2, OneMore DEF CdAdopt
  <2>7. CASE CdDrop(c)
    <3>1. \A g \in HandleIds \ {local} : Same(g)
      BY <2>7 DEF CdDrop, TypeOK
    <3>2. Live(local) /\ ~Live(local)' /\ Addr(local) = tmp[c]
      BY <2>7 DEF CdDrop, TypeOK
    <3> QED BY <2>7, <3>1, <3>2, OneLess DEF CdDrop
  <2>8. ASSUME NEW m \in FileCommands, Open(c, m) PROVE CountsExact'
    <3>1. PICK i \in DOMAIN disk[cwd[c]].ptrs :
             /\ count' = Construct(count, disk[cwd[c]].ptrs[i])
             /\ tmp' = [tmp EXCEPT ![c] = disk[cwd[c]].ptrs[i]]
      BY <2>8 DEF Open, FirstMatch, Matches
    <3>2. disk[cwd[c]].ptrs[i] \in Blocks
      BY DEF TypeOK, Block
    <3>3. \A g \in HandleIds \ {local} : Same(g)
      BY <2>8, <3>1 DEF Open, TypeOK
    <3>4. ~Live(local) /\ Live(local)' /\ Addr(local)' = disk[cwd[c]].ptrs[i]
      BY <2>8, <3>1 DEF Open, TypeOK
    <3> QED BY <3>1, <3>2, <3>3, <3>4, OneMore
  <2>9. CASE Close(c)
    <3>1. \A g \in HandleIds \ {local} : Same(g)
      BY <2>9 DEF Close, TypeOK
    <3>2. Live(local) /\ ~Live(local)' /\ Addr(local) = tmp[c]
      BY <2>9 DEF Close, TypeOK
    <3> QED BY <2>9, <3>1, <3>2, OneLess DEF Close
  <2>10. CASE Login(c)
    <3>1. \A g \in HandleIds : Same(g)
      BY <2>10 DEF Login, TypeOK
    <3> QED BY <2>10, <3>1, NoneChanged DEF Login
  <2>11. ASSUME NEW k \in NodeKinds, CreateNode(c, k) \/ RemoveNode(c, k) PROVE CountsExact'
    <3>1. pc' = pc /\ UNCHANGED <<count, cwd, tmp>>
      BY <2>11 DEF CreateNode, RemoveNode, TypeOK
    <3> QED BY <3>1, NoneChanged
  <2>12. CASE Load(c)
    <3>1. \A g \in HandleIds : Same(g)
      BY <2>12 DEF Load, TypeOK
    <3> QED BY <2>12, <3>1, NoneChanged DEF Load
  <2>13. CASE Store(c)
    <3>1. \A g \in HandleIds : Same(g)
      BY <2>13 DEF Store, BeforeStore, TypeOK
    <3> QED BY <2>13, <3>1, NoneChanged DEF Store
  <2>14. CASE ResetByPeer(c) \/ Overrun(c) \/ Format(c) \/ Garbled(c)
    <3>1. CASE Format(c)
      <4>1. pc' = pc /\ UNCHANGED <<count, cwd, tmp>>
        BY <3>1 DEF Format, TypeOK
      <4> QED BY <4>1, NoneChanged
    <3>2. CASE ResetByPeer(c) \/ Overrun(c) \/ Garbled(c)
      <4>1. UNCHANGED <<pc, count, cwd, tmp>>
        BY <3>2 DEF ResetByPeer, Overrun, Garbled
      <4> QED BY <4>1, NoneChanged
    <3> QED BY <2>14, <3>1, <3>2
  <2> QED BY <1>2, <2>1, <2>2, <2>4, <2>5, <2>6, <2>7, <2>8, <2>9, <2>10, <2>11, <2>12,
             <2>13, <2>14 DEF Session
<1> QED BY <1>1, <1>2 DEF Next

\* The count that remove's busy check asks is, in every state, the number of
\* handles alive on the node, whatever the threads are in the middle of.
THEOREM CountsAreExact == Spec => []CountsExact
<1>1. Init => CountsExact
  BY CountsInit
<1>2. TypeOK /\ TypeOK' /\ CountsExact /\ [Next]_vars => CountsExact'
  BY CountsStep
<1> QED BY <1>1, <1>2, TypeCorrect, PTL DEF Spec
=============================================================================
