--------------------------- MODULE CrashFileSystem ---------------------------
(***************************************************************************)
(* FileSystem on a disk that outlives it (src/step3/fs.cpp): a method      *)
(* writes its sectors one after the other, the process may end between any *)
(* two of them, and the constructor of the next one takes the disk as it   *)
(* finds it.                                                               *)
(*                                                                         *)
(* disk and alloc are what they are in FileSystem: the blocks as they will *)
(* be when the method that runs has written all.  platter and extent are   *)
(* the sectors as they are.  The thread that writes holds data_mutex_, so  *)
(* no method of another thread comes in between; what other threads do to  *)
(* the counts meanwhile touches no sector, and is taken after it.          *)
(*                                                                         *)
(* One sector is written whole or not at all (a write that the connection  *)
(* cuts off is SectorStore's matter), and at most one is on its way when   *)
(* the process ends, since each waits for its answer: whether it happens   *)
(* is the moment of the end.  The model follows the disk while it is       *)
(* intact, and ends where a write leaves its node.                         *)
(***************************************************************************)
EXTENDS FileSystemView

ALLOC_ROOT == 1

\* What the allocator's root is taken for on a disk that was never formatted.
NoExtent == [start |-> 0, len |-> 0]

VARIABLES
    platter,   \* the sectors, but for ALLOC_ROOT
    extent,    \* extent(0) in the sector ALLOC_ROOT
    todo,      \* the writes the method that runs has still to make
    before     \* history, not in the code: platter when it began

cvars == <<vars, platter, extent, todo, before>>

-----------------------------------------------------------------------------
(* The sectors each method writes, in this order *)

Root(e) == [addr |-> ALLOC_ROOT, value |-> e]
Sector(b) == [addr |-> b, value |-> disk'[b]]

\* A slip of new_block: the root is synced when the call that took the block is done.
CreateWritesLateSync(c) == <<Sector(NewBlock(alloc, 0)), Sector(cwd[c]), Root(alloc')>>

CreateWrites(c) == <<Root(alloc'), Sector(NewBlock(alloc, 0)), Sector(cwd[c])>>

RemoveWrites(c) == <<Sector(cwd[c])>>

\* A slip of write_all: the node is written before its data.
StoreWritesNodeFirst(c) ==
    LET ptrs == disk'[tmp[c]].ptrs
        had == Len(disk[tmp[c]].ptrs)
    IN  [i \in 1 .. Len(ptrs) - had |-> Root(Rest(alloc, i))]
        \o <<Sector(tmp[c])>>
        \o [i \in DOMAIN ptrs |-> Sector(ptrs[i])]

StoreWrites(c) ==
    LET ptrs == disk'[tmp[c]].ptrs
        had == Len(disk[tmp[c]].ptrs)
    IN  [i \in 1 .. Len(ptrs) - had |-> Root(Rest(alloc, i))]
        \o [i \in DOMAIN ptrs |-> Sector(ptrs[i])]
        \o <<Sector(tmp[c])>>

FormatWrites == <<Sector(FILE_ROOT), Root(DefaultRoot)>>

-----------------------------------------------------------------------------
\* The memory of a process that has no session
Uncounted == [b \in Blocks |-> 0]
Offline == [c \in Clients |-> "off"]
Idle == [c \in Clients |-> "none"]
AtRoot == [c \in Clients |-> FILE_ROOT]
AtTop == [c \in Clients |-> << >>]

\* A new drive, full of zeros, and no process that uses it.
CInit ==
    /\ platter = [b \in Blocks |-> Blank]
    /\ extent = NoExtent
    /\ disk = platter /\ alloc = extent
    /\ count = Uncounted /\ pc = Offline /\ cmd = Idle /\ cwd = AtRoot /\ path = AtTop
    /\ tmp = AtRoot /\ content = AtTop
    /\ server = "terminated"
    /\ todo = << >> /\ before = platter
    /\ intact = TRUE

\* A step of a session that writes nothing
Quiet(c) ==
    /\ \/ Connect(c) \/ Login(c) \/ Disconnect(c)
       \/ CdDot(c) \/ CdUp(c) \/ CdDown(c) \/ CdRelease(c) \/ CdAdopt(c) \/ CdDrop(c)
       \/ (\E m \in FileCommands : Open(c, m)) \/ Load(c) \/ Close(c)
    /\ UNCHANGED todo

\* The method runs up to its first write.
Method(c) ==
    /\ \/ (\E k \in NodeKinds : CreateNode(c, k)) /\ todo' = CreateWrites(c)
       \/ (\E k \in NodeKinds : RemoveNode(c, k)) /\ todo' = RemoveWrites(c)
       \/ Store(c) /\ todo' = StoreWrites(c)
       \/ Format(c) /\ todo' = FormatWrites
    /\ intact'

Request(c) ==
    /\ todo = << >>
    /\ Quiet(c) \/ Method(c)
    /\ UNCHANGED <<platter, extent, before>>

WriteSector ==
    /\ todo # << >>
    /\ LET w == Head(todo)
       IN  IF w.addr = ALLOC_ROOT
           THEN extent' = w.value /\ UNCHANGED platter
           ELSE platter' = [platter EXCEPT ![w.addr] = w.value] /\ UNCHANGED extent
    /\ todo' = Tail(todo)
    /\ before' = IF todo' = << >> THEN platter' ELSE before
    /\ UNCHANGED vars

\* The process ends, for whatever reason; the sectors stay as they are.
Crash ==
    /\ server = "up"
    /\ server' = "terminated"
    /\ disk' = platter /\ alloc' = extent
    /\ count' = Uncounted /\ pc' = Offline /\ cmd' = Idle /\ cwd' = AtRoot /\ path' = AtTop
    /\ tmp' = AtRoot /\ content' = AtTop
    /\ todo' = << >> /\ before' = platter
    /\ UNCHANGED <<platter, extent, intact>>

\* A slip of the constructor: it takes one of the two roots for both.
BootOneRoot ==
    /\ server = "terminated"
    /\ server' = "up"
    /\ IF disk[FILE_ROOT].kind # "folder"
       THEN /\ disk' = [disk EXCEPT ![FILE_ROOT] = DefaultRootFolder]
            /\ alloc' = DefaultRoot
            /\ todo' = FormatWrites
       ELSE UNCHANGED <<disk, alloc, todo>>
    /\ UNCHANGED <<count, pc, cmd, cwd, path, tmp, content, intact, platter, extent, before>>

\* A slip of the constructor: it formats whatever it finds.
BootAnew ==
    /\ server = "terminated"
    /\ server' = "up"
    /\ disk' = [disk EXCEPT ![FILE_ROOT] = DefaultRootFolder]
    /\ alloc' = DefaultRoot
    /\ todo' = FormatWrites
    /\ UNCHANGED <<count, pc, cmd, cwd, path, tmp, content, intact, platter, extent, before>>

\* The constructor reads both roots, and formats if the magic number is missing in
\* one of them.
Boot ==
    /\ server = "terminated"
    /\ server' = "up"
    /\ IF disk[FILE_ROOT].kind # "folder" \/ alloc = NoExtent
       THEN /\ disk' = [disk EXCEPT ![FILE_ROOT] = DefaultRootFolder]
            /\ alloc' = DefaultRoot
            /\ todo' = FormatWrites
       ELSE UNCHANGED <<disk, alloc, todo>>
    /\ UNCHANGED <<count, pc, cmd, cwd, path, tmp, content, intact, platter, extent, before>>

CNext == (\E c \in Clients : Request(c)) \/ WriteSector \/ Crash \/ Boot

CSpec == CInit /\ [][CNext]_cvars

-----------------------------------------------------------------------------
(* What the next process may find *)

\* The nodes of d that its root leads to
Linked(d) ==
    LET reach[k \in 0 .. MaxBlocks] ==
            IF k = 0 THEN {FILE_ROOT}
            ELSE LET above == reach[k - 1]
                 IN  above \cup UNION {{d[a].ptrs[i] : i \in DOMAIN d[a].ptrs} :
                                          a \in {b \in above : d[b].kind = "folder"}}
    IN  reach[MaxBlocks]

\* Everything the root leads to is what it is taken for, is listed once, and lies
\* below the blocks that the allocator is going to hand out.
Sound(d, e) ==
    LET nodes == Linked(d)
        refs == UNION {{a} \X DOMAIN d[a].ptrs : a \in nodes}
        To(r) == d[r[1]].ptrs[r[2]]
    IN  /\ d[FILE_ROOT].kind = "folder"
        /\ \A r \in refs : To(r) \in RESERVED_BLOCKS .. e.start - 1
        /\ \A r, q \in refs : To(r) = To(q) => r = q
        /\ \A a \in nodes : d[a].kind \in NodeKinds
        /\ \A r \in refs :
              IF d[r[1]].kind = "folder"
              THEN d[To(r)].kind \in NodeKinds /\ d[To(r)].parent = r[1]
              ELSE d[To(r)].kind = "data"

\* x has the length of a or of b, and in every place what one of them has there.
Mixed(x, a, b) ==
    /\ Len(x) \in {Len(a), Len(b)}
    /\ \A i \in DOMAIN x : \E s \in {a, b} : i \in DOMAIN s /\ x[i] = s[i]

-----------------------------------------------------------------------------
\* The types; and while no method runs, the sectors hold what the methods stored,
\* so that the next method reads what the one before has written.
CrashTypeOK ==
    /\ platter \in [Blocks -> Block] /\ before \in [Blocks -> Block]
    /\ extent \in [start : Blocks, len : Nat]
    /\ server \in {"up", "terminated"}
    /\ server = "up" => TypeOK
    /\ todo = << >> => platter = disk /\ extent = alloc
    /\ intact

\* Whenever the process ends, and however often, what it leaves is a disk that the
\* next one formats, or one on which everything that is linked is sound and safe
\* from the allocator: a sector that was to be written is not relied on before.
SoundAfterCrash ==
    \/ platter[FILE_ROOT].kind # "folder" \/ extent = NoExtent
    \/ Sound(platter, extent)

\* What users would see of the sectors as they are is the tree before the method or
\* the one after it; only in a file that it writes may blocks of both be mixed.
AllOrNothing ==
    LET old == TreeOf(before)
        new == TreeOf(disk)
        now == TreeOf(platter)
    IN  \E t \in {old, new} :
            /\ DOMAIN now = DOMAIN t
            /\ \A p \in DOMAIN now :
                  \/ now[p] = t[p]
                  \/ /\ p \in DOMAIN old \cap DOMAIN new
                     /\ now[p].kind = "file"
                     /\ Mixed(now[p].content, old[p].content, new[p].content)

\* "relaunch the disk and the file system to test if the data is persistent": what
\* a method has stored when it returned is there after the end of the process, and
\* after the start of the next, whatever was cut short in between.
Persistent ==
    [][server' # server /\ todo = << >> /\ disk[FILE_ROOT].kind = "folder" =>
          TreeOf(disk)' = TreeOf(disk)]_cvars

-----------------------------------------------------------------------------
(* The inductive invariant behind SoundAfterCrash, AllOrNothing and Persistent *)

\* The blocks of G form trees on d, and no pointer leads out of them. What is not in
\* G may hold anything: a block whose number the extent has passed, but whose write
\* was lost, holds what an earlier file system left there.
Trees(d, G) ==
    /\ FILE_ROOT \in G
    /\ d[FILE_ROOT].kind = "folder" /\ d[FILE_ROOT].parent = FILE_ROOT
    /\ \A a, b \in G : \A i \in DOMAIN d[a].ptrs, j \in DOMAIN d[b].ptrs :
          d[a].ptrs[i] = d[b].ptrs[j] => a = b /\ i = j
    /\ \A a \in G : \A i \in DOMAIN d[a].ptrs :
          /\ d[a].ptrs[i] \in G \ {FILE_ROOT}
          /\ \/ /\ d[a].kind = "folder"
                /\ d[d[a].ptrs[i]].kind \in NodeKinds
                /\ d[d[a].ptrs[i]].parent = a
                /\ a < d[a].ptrs[i]
             \/ d[a].kind = "file" /\ d[d[a].ptrs[i]].kind = "data"
    /\ \A a \in G \ {FILE_ROOT} : d[a].kind \in NodeKinds =>
          d[a].parent \in G /\ d[d[a].parent].kind = "folder"

\* The allocator e hands out none of them.
Below(G, e) == \A b \in G \ {FILE_ROOT} : RESERVED_BLOCKS <= b /\ b < e.start

HandleIn(c, G) ==
    /\ Live(<<c, "cwd">>) => cwd[c] \in G /\ disk[cwd[c]].kind = "folder"
    /\ pc[c] \in CdSteps => tmp[c] \in G /\ disk[tmp[c]].kind = "folder"
    /\ pc[c] \in FileSteps => tmp[c] \in G /\ disk[tmp[c]].kind = "file"

\* The process that runs has handles on such trees.
RunOK == server = "up" => \E G \in SUBSET Blocks :
    Trees(disk, G) /\ Below(G, alloc) /\ \A c \in Clients : HandleIn(c, G)

\* An extent as a method leaves it
ExtentOK(e) == /\ e \in [start : Blocks, len : Nat]
               /\ e.start >= RESERVED_BLOCKS /\ e.len >= 1 /\ e.start + e.len = MaxBlocks

\* The sectors as they are: a disk that nobody has finished to format, or trees
RestOK == IF extent = NoExtent
          THEN platter[FILE_ROOT].kind = "folder" => platter[FILE_ROOT] = DefaultRootFolder
          ELSE ExtentOK(extent) /\ \E G \in SUBSET Blocks : Trees(platter, G) /\ Below(G, extent)

OffOK == server = "terminated" =>
    /\ todo = << >>
    /\ count = Uncounted /\ pc = Offline /\ cmd = Idle /\ cwd = AtRoot /\ path = AtTop
    /\ tmp = AtRoot /\ content = AtTop

\* What is to be written makes the sectors what the method has made the blocks.
IsRoot(i) == todo[i].addr = ALLOC_ROOT
TodoOK ==
    /\ todo \in Seq([addr : Blocks, value : Block \cup [start : Blocks, len : Nat]])
    /\ \A i \in DOMAIN todo : IF IsRoot(i) THEN ExtentOK(todo[i].value)
                                           ELSE todo[i].value = disk[todo[i].addr]
    /\ \A b \in Blocks : platter[b] = disk[b] \/ \E i \in DOMAIN todo : todo[i].addr = b /\ ~IsRoot(i)
    /\ extent = alloc \/ \E i \in DOMAIN todo : IsRoot(i)
    /\ \A i \in DOMAIN todo : IsRoot(i) /\ (\A j \in DOMAIN todo : IsRoot(j) => j <= i) =>
          todo[i].value = alloc
    /\ todo = << >> => before = platter

\* A format, which first makes the root an empty folder
Formatting ==
    /\ disk[FILE_ROOT] = DefaultRootFolder /\ alloc = DefaultRoot
    /\ \/ /\ todo = <<[addr |-> FILE_ROOT, value |-> DefaultRootFolder], Root(DefaultRoot)>>
          /\ platter = before
       \/ todo = <<Root(DefaultRoot)>> /\ platter = disk

\* Another method, which began with trees G: until the last of its writes nothing
\* of them changes but the data of the file it writes, and no new block is in them.
Writing(G) ==
    /\ Trees(before, G) /\ Below(G, extent) /\ ExtentOK(extent)
    /\ \A b \in G : \/ platter[b] = before[b]
                    \/ before[b].kind = "data" /\ platter[b] = disk[b]
    /\ \A b \in G : /\ disk[b].kind = before[b].kind
                    /\ disk[b].kind = "data" => disk[b].ptrs = << >>
                    /\ disk[b].kind = "file" => \A i \in DOMAIN disk[b].ptrs : disk[disk[b].ptrs[i]].kind = "data"
    /\ \A i \in 1 .. Len(todo) - 1 :
          IF IsRoot(i) THEN /\ extent.start <= todo[i].value.start
                            /\ \A j \in 1 .. i : IsRoot(j) => todo[j].value.start <= todo[i].value.start
                       ELSE todo[i].addr \notin G \/ before[todo[i].addr].kind = "data"
    /\ \/ \A b \in G : before[b].kind = "data" => disk[b] = before[b]
       \/ \E f \in G :
             /\ before[f].kind = "file"
             /\ disk[f] = [before[f] EXCEPT !.ptrs = disk[f].ptrs]
             /\ \A i \in DOMAIN disk[f].ptrs \cap DOMAIN before[f].ptrs : disk[f].ptrs[i] = before[f].ptrs[i]
             /\ \A b \in G \ {f} : \/ disk[b] = before[b]
                                   \/ \E i \in DOMAIN disk[f].ptrs \cap DOMAIN before[f].ptrs : before[f].ptrs[i] = b

PendingOK == todo # << >> => Formatting \/ \E G \in SUBSET Blocks : Writing(G)

CrashInv == CrashTypeOK /\ OffOK /\ RestOK /\ RunOK /\ TodoOK /\ PendingOK
=============================================================================
