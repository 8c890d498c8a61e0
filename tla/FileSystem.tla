------------------------------ MODULE FileSystem ------------------------------
(***************************************************************************)
(* The file system of src/src/fs.h as the server threads of                *)
(* src/src/fs_server.h drive it: one tree of folder and file nodes on a    *)
(* disk, one block allocator, one table that counts the handles on every   *)
(* node, and one thread per connected client.                              *)
(*                                                                         *)
(* Grain of atomicity.  Every method of a handle runs under data_mutex_,   *)
(* so it is one step; what a thread does between two methods, and what the *)
(* handle constructors and destructors do under count_mutex_ alone, are    *)
(* steps of their own, and the threads interleave between them.            *)
(*                                                                         *)
(* Data.  A file's content is a sequence of block payloads: one element    *)
(* stands for 0x100 bytes.  A request that fails changes nothing but the   *)
(* reply, so it is a stuttering step; the *Reply operators say when it     *)
(* fails, and in which order the conditions are looked at.                 *)
(***************************************************************************)
EXTENDS Integers, FiniteSets, SequencesExt

CONSTANTS
    Clients,         \* connections; each has a thread in serve_client
    Names,           \* the names that is_name_valid and the length check accept
    RootName,        \* the empty name of the root folder
    Data,            \* block payloads
    NoData,          \* what a block that is not a file's data holds as payload
    MaxBlocks,       \* max_blocks_
    FolderCapacity,  \* entries_capacity of a folder node (16)
    FileCapacity,    \* entries_capacity of a file node (8)
    Commands,        \* the commands the clients send
    MaxWrite,        \* bound: the longest content a "w" carries, in blocks
    MaxPath          \* bound: the deepest path a client descends to

AllCommands == {"cd", "ls", "mk", "mkdir", "rm", "rmdir", "cat", "w", "i", "d", "format"}

FILE_ROOT == 0
RESERVED_BLOCKS == 3       \* file root, allocator root, user root
Blocks == 0 .. MaxBlocks - 1

\* The reserved blocks and one block more are there; file_system never checks it.
ASSUME SizeAssumption == MaxBlocks \in Nat /\ MaxBlocks > RESERVED_BLOCKS
ASSUME CapacityAssumption == FolderCapacity \in Nat /\ FileCapacity \in Nat
ASSUME BoundAssumption == MaxWrite \in Nat /\ MaxPath \in Nat
ASSUME ClientsAssumption == IsFiniteSet(Clients)
ASSUME CommandsAssumption == Commands \subseteq AllCommands
ASSUME NameAssumption == RootName \notin Names
ASSUME DataAssumption == NoData \notin Data

VARIABLES
    disk,     \* what every block holds; block 1 (ALLOC_ROOT) is alloc
    alloc,    \* extent(0) of the allocator's root node
    count,    \* handle_instance_count_, 0 where the map has no entry
    server,   \* "up", or why the process does not serve any more
    pc,       \* where each connection's thread is
    cmd,      \* the file command a thread is serving
    cwd,      \* address in current_folder
    path,     \* the local variable path, as a sequence of names
    tmp,      \* address in the local handle: folder of "cd", file of the others
    content,  \* the local string the content of a file is read into
    intact    \* history, not in the code: the allocator has never handed out
              \* its last block, and no format took a node from under a handle

vars == <<disk, alloc, count, server, pc, cmd, cwd, path, tmp, content, intact>>

-----------------------------------------------------------------------------
(* Blocks *)

Kinds == {"blank", "folder", "file", "data"}
NodeKinds == {"folder", "file"}

\* A block as the code interprets it. ptrs are the file_pointers of a folder and
\* the disk_addrs of a file's extents (each of length 1).
Block == [kind : Kinds, name : Names \cup {RootName}, parent : Blocks,
          ptrs : Seq(Blocks), data : Data \cup {NoData}]

Blank == [kind |-> "blank", name |-> RootName, parent |-> FILE_ROOT,
          ptrs |-> << >>, data |-> NoData]

DataBlock(d) == [Blank EXCEPT !.kind = "data", !.data = d]

\* A slip of create: parent_addr is left as default_folder has it.
NewNodeUnparented(k, n, p) ==
    [kind |-> k, name |-> n, parent |-> FILE_ROOT, ptrs |-> << >>, data |-> NoData]

\* default_folder and default_file, with the name and the parent create gives them.
NewNode(k, n, p) ==
    [kind |-> k, name |-> n, parent |-> p, ptrs |-> << >>, data |-> NoData]

DefaultRootFolder == [Blank EXCEPT !.kind = "folder"]

\* A scan of folder b looks at b and at every child as nodes; read_all looks at f
\* as a file and at its extents as data.
FolderReadable(b) == /\ disk[b].kind = "folder"
                     /\ \A i \in DOMAIN disk[b].ptrs : disk[disk[b].ptrs[i]].kind \in NodeKinds

FileReadable(f) == /\ disk[f].kind = "file"
                   /\ \A i \in DOMAIN disk[f].ptrs : disk[disk[f].ptrs[i]].kind = "data"

ContentOf(f) == [i \in DOMAIN disk[f].ptrs |-> disk[disk[f].ptrs[i]].data]

\* The child the scan of a folder stops at: the first of kind k with name n.
Matches(b, k, n) == {i \in DOMAIN disk[b].ptrs :
                        /\ disk[disk[b].ptrs[i]].kind = k
                        /\ disk[disk[b].ptrs[i]].name = n}

\* A slip of open, open_folder and remove: folder_bit is not compared.
FirstMatchAnyKind(b, k, n) ==
    {i \in DOMAIN disk[b].ptrs :
        /\ disk[disk[b].ptrs[i]].name = n
        /\ \A j \in DOMAIN disk[b].ptrs : disk[disk[b].ptrs[j]].name = n => i <= j}

FirstMatch(b, k, n) == {i \in Matches(b, k, n) : \A j \in Matches(b, k, n) : i <= j}

-----------------------------------------------------------------------------
(* The allocator: one root node with one extent *)

DefaultRoot == [start |-> RESERVED_BLOCKS, len |-> MaxBlocks - RESERVED_BLOCKS]

\* A slip of new_block_i: the last block is not told from the others.
NewBlockUnguarded(e, i) == e.start + i

\* What the (i+1)-th of several calls of new_block returns. The extent moves up by
\* one block a call until one block is left; that one is never removed from the
\* extent (node_remove_entry is empty), so every later call returns it again.
NewBlock(e, i) == IF i < e.len THEN e.start + i ELSE e.start + e.len - 1

\* Slips of sync: the changed node is not written; only the first call's is.
RestUnsynced(e, k) == e
RestSyncedOnce(e, k) == IF k = 0 \/ e.len = 1 THEN e
                        ELSE [start |-> e.start + 1, len |-> e.len - 1]

\* The extent after k calls.
Rest(e, k) == LET moved == NewBlock(e, k) - e.start
              IN  [start |-> e.start + moved, len |-> e.len - moved]

\* The k calls hand out the extent's last block.
Exhausts(e, k) == k > 0 /\ k >= e.len

-----------------------------------------------------------------------------
(* The handle counts *)

Construct(cnt, b) == [cnt EXCEPT ![b] = @ + 1]
\* A slip of handle_destruction: the entry is erased whatever it counts.
DestructAll(cnt, b) == [cnt EXCEPT ![b] = 0]

Destruct(cnt, b) == [cnt EXCEPT ![b] = IF @ = 0 THEN 0 ELSE @ - 1]

\* The handles alive in a thread: current_folder, and the local of a command.
HandleIds == Clients \X {"cwd", "tmp"}
Live(h) == IF h[2] = "cwd" THEN pc[h[1]] \notin {"off", "cdReleased"}
                           ELSE pc[h[1]] \notin {"off", "login", "idle"}
Addr(h) == IF h[2] = "cwd" THEN cwd[h[1]] ELSE tmp[h[1]]
HandlesOn(b) == {h \in HandleIds : Live(h) /\ Addr(h) = b}

-----------------------------------------------------------------------------
(* The outcome of a request, in the order the code looks at the conditions *)

\* A slip of create: only files are compared with the new name.
CreateReplyFiles(b, n) ==
    IF Len(disk[b].ptrs) = FolderCapacity THEN "capacityExceeded"
    ELSE IF Matches(b, "file", n) # {} THEN "alreadyExist"
    ELSE "ok"

CreateReply(b, n) ==
    IF Len(disk[b].ptrs) = FolderCapacity THEN "capacityExceeded"
    ELSE IF \E k \in NodeKinds : Matches(b, k, n) # {} THEN "alreadyExist"
    ELSE "ok"

\* A slip of remove: nobody asks the counts.
RemoveReplyUnasked(b, k, n) == IF Matches(b, k, n) = {} THEN "notExist" ELSE "ok"

RemoveReply(b, k, n) ==
    IF Matches(b, k, n) = {} THEN "notExist"
    ELSE IF \E i \in FirstMatch(b, k, n) : count[disk[b].ptrs[i]] > 0 THEN "busy"
    ELSE "ok"

-----------------------------------------------------------------------------
(* The states of a thread *)

CdSteps == {"cdOpened", "cdReleased", "cdAdopted"}
FileSteps == {"opened", "loaded", "done"}
Steps == {"off", "login", "idle"} \cup CdSteps \cup FileSteps
FileCommands == {"cat", "w", "i", "d"}
Ends == {"terminated", "garbled", "overrun"}

\* The constructor found no file system on the disk and formatted it.
Init ==
    /\ disk = [b \in Blocks |-> IF b = FILE_ROOT THEN DefaultRootFolder ELSE Blank]
    /\ alloc = DefaultRoot
    /\ count = [b \in Blocks |-> 0]
    /\ server = "up"
    /\ pc = [c \in Clients |-> "off"]
    /\ cmd = [c \in Clients |-> "none"]
    /\ cwd = [c \in Clients |-> FILE_ROOT]
    /\ path = [c \in Clients |-> << >>]
    /\ tmp = [c \in Clients |-> FILE_ROOT]
    /\ content = [c \in Clients |-> << >>]
    /\ intact = TRUE

\* A thread at step s goes on to step t.
Goto(c, s, t) == /\ server = "up"
                 /\ pc[c] = s
                 /\ pc' = [pc EXCEPT ![c] = t]

-----------------------------------------------------------------------------
(* Connections *)

\* accept starts the thread, which begins with a handle on the root folder.
Connect(c) ==
    /\ Goto(c, "off", "login")
    /\ count' = Construct(count, FILE_ROOT)
    /\ cwd' = [cwd EXCEPT ![c] = FILE_ROOT]
    /\ path' = [path EXCEPT ![c] = << >>]
    /\ UNCHANGED <<disk, alloc, server, cmd, tmp, content, intact>>

\* recv_str(username) returns.
Login(c) ==
    /\ Goto(c, "login", "idle")
    /\ UNCHANGED <<disk, alloc, count, server, cmd, cwd, path, tmp, content, intact>>

\* The client leaves: recv throws CLOSED_BY_REMOTE, the thread returns and
\* current_folder is destroyed. A send that throws it unwinds a command's handle
\* first, which is CdDrop or Close followed by this.
Disconnect(c) ==
    /\ \E s \in {"login", "idle"} : Goto(c, s, "off")
    /\ count' = Destruct(count, cwd[c])
    /\ cwd' = [cwd EXCEPT ![c] = FILE_ROOT]
    /\ path' = [path EXCEPT ![c] = << >>]
    /\ UNCHANGED <<disk, alloc, server, cmd, tmp, content, intact>>

\* Any other error of the socket, where the thread receives or sends the reply, is
\* thrown on, out of the thread function: the whole process terminates.
ResetByPeer(c) ==
    /\ server = "up"
    /\ pc[c] \in {"login", "idle", "cdAdopted", "done"}
    /\ server' = "terminated"
    /\ UNCHANGED <<disk, alloc, count, pc, cmd, cwd, path, tmp, content, intact>>

-----------------------------------------------------------------------------
(* "cd": open_folder, then current_folder = folder, then folder is destroyed *)

\* open_folder constructs the handle that it returns while it holds data_mutex_.
\* path is the thread's own: when exactly it changes is nobody else's concern.
CdOpen(c, b, p) ==
    /\ "cd" \in Commands
    /\ Goto(c, "idle", "cdOpened")
    /\ count' = Construct(count, b)
    /\ tmp' = [tmp EXCEPT ![c] = b]
    /\ path' = [path EXCEPT ![c] = p]
    /\ UNCHANGED <<disk, alloc, server, cmd, cwd, content, intact>>

CdDot(c) == CdOpen(c, cwd[c], path[c])

\* A slip of serve_client: "cd .." leaves path as it is.
CdUpSamePath(c) ==
    /\ disk[cwd[c]].kind = "folder"
    /\ CdOpen(c, IF cwd[c] = FILE_ROOT THEN cwd[c] ELSE disk[cwd[c]].parent, path[c])

CdUp(c) ==
    /\ disk[cwd[c]].kind = "folder"
    /\ CdOpen(c, IF cwd[c] = FILE_ROOT THEN cwd[c] ELSE disk[cwd[c]].parent,
                 IF path[c] = << >> THEN path[c] ELSE Front(path[c]))

CdDown(c) ==
    /\ FolderReadable(cwd[c])
    /\ Len(path[c]) < MaxPath
    /\ \E n \in Names : \E i \in FirstMatch(cwd[c], "folder", n) :
          CdOpen(c, disk[cwd[c]].ptrs[i], Append(path[c], n))

\* The copy assignment: release the old folder, then take the new one. No lock
\* is held between the two.
CdRelease(c) ==
    /\ Goto(c, "cdOpened", "cdReleased")
    /\ count' = Destruct(count, cwd[c])
    /\ UNCHANGED <<disk, alloc, server, cmd, cwd, path, tmp, content, intact>>

CdAdopt(c) ==
    /\ Goto(c, "cdReleased", "cdAdopted")
    /\ count' = Construct(count, tmp[c])
    /\ cwd' = [cwd EXCEPT ![c] = tmp[c]]
    /\ UNCHANGED <<disk, alloc, server, cmd, path, tmp, content, intact>>

CdDrop(c) ==
    /\ Goto(c, "cdAdopted", "idle")
    /\ count' = Destruct(count, tmp[c])
    /\ tmp' = [tmp EXCEPT ![c] = FILE_ROOT]
    /\ UNCHANGED <<disk, alloc, server, cmd, cwd, path, content, intact>>

-----------------------------------------------------------------------------
(* "mk", "mkdir", "rm", "rmdir": one method call, under data_mutex_ *)

\* The new node is written first and the folder last; where the two are the same
\* block, the folder is what stays.
CreateNode(c, k) ==
    /\ (IF k = "folder" THEN "mkdir" ELSE "mk") \in Commands
    /\ Goto(c, "idle", "idle")
    /\ FolderReadable(cwd[c])
    /\ \E n \in Names :
          LET b == NewBlock(alloc, 0)
          IN  /\ CreateReply(cwd[c], n) = "ok"
              /\ disk' = [disk EXCEPT ![b] = NewNode(k, n, cwd[c]),
                                      ![cwd[c]] = [disk[cwd[c]] EXCEPT !.ptrs = Append(@, b)]]
    /\ alloc' = Rest(alloc, 1)
    /\ intact' = (intact /\ ~Exhausts(alloc, 1))
    /\ UNCHANGED <<count, server, cmd, cwd, path, tmp, content>>

\* The removed node, and all below it, stay on the disk: nothing is recycled.
RemoveNode(c, k) ==
    /\ (IF k = "folder" THEN "rmdir" ELSE "rm") \in Commands
    /\ Goto(c, "idle", "idle")
    /\ FolderReadable(cwd[c])
    /\ \E n \in Names : \E i \in FirstMatch(cwd[c], k, n) :
          /\ RemoveReply(cwd[c], k, n) = "ok"
          /\ disk' = [disk EXCEPT ![cwd[c]].ptrs = RemoveAt(@, i)]
    /\ UNCHANGED <<alloc, count, server, cmd, cwd, path, tmp, content, intact>>

-----------------------------------------------------------------------------
(* "cat", "w", "i", "d": open, read_all and write_all are three method calls *)

Open(c, m) ==
    /\ m \in Commands
    /\ Goto(c, "idle", "opened")
    /\ FolderReadable(cwd[c])
    /\ \E n \in Names : \E i \in FirstMatch(cwd[c], "file", n) :
          LET f == disk[cwd[c]].ptrs[i]
          IN  /\ count' = Construct(count, f)
              /\ tmp' = [tmp EXCEPT ![c] = f]
    /\ cmd' = [cmd EXCEPT ![c] = m]
    /\ UNCHANGED <<disk, alloc, server, cwd, path, content, intact>>

\* read_all, of "cat", "i" and "d"
Load(c) ==
    /\ cmd[c] # "w"
    /\ Goto(c, "opened", IF cmd[c] = "cat" THEN "done" ELSE "loaded")
    /\ FileReadable(tmp[c])
    /\ content' = [content EXCEPT ![c] = ContentOf(tmp[c])]
    /\ UNCHANGED <<disk, alloc, count, server, cmd, cwd, path, tmp, intact>>

\* What write_all may be called with: what "w" carries; what was read with one
\* block put in; what was read with any part, or none, taken out.
Erased(s, pos, len) == SubSeq(s, 1, pos) \o SubSeq(s, pos + len + 1, Len(s))
ToStore(c) ==
    CASE cmd[c] = "w" -> UNION {[1 .. n -> Data] : n \in 1 .. MaxWrite}
      [] cmd[c] = "i" -> {InsertAt(content[c], pos + 1, d) : pos \in 0 .. Len(content[c]), d \in Data}
      [] cmd[c] = "d" -> {Erased(content[c], pos, len) : pos, len \in 0 .. Len(content[c])}

BeforeStore(c) == IF cmd[c] = "w" THEN "opened" ELSE "loaded"

\* The extents of f when it holds n blocks: those it has, then new ones. It never
\* gives one back; a shorter content leaves the rest of them to nobody.
Extents(f, n) == [i \in 1 .. n |->
    IF i <= Len(disk[f].ptrs) THEN disk[f].ptrs[i]
                              ELSE NewBlock(alloc, i - Len(disk[f].ptrs) - 1)]

\* write_all. The data blocks are written in order, then the node: where two are
\* the same block, the last write stays. With no block at all the loop runs up to
\* entries - 1 as an unsigned number, and with more than FileCapacity the extents
\* are written past the node: what the process does from there is undefined.
Store(c) ==
    LET f == tmp[c]
        had == Len(disk[f].ptrs)
    IN  /\ Goto(c, BeforeStore(c), "done")
        /\ disk[f].kind = "file"
        /\ \E new \in ToStore(c) :
              LET n == Len(new)
                  ptrs == Extents(f, n)
                  extra == IF n > had THEN n - had ELSE 0
              IN  /\ n \in 1 .. FileCapacity
                  /\ \E last \in [{ptrs[i] : i \in 1 .. n} -> 1 .. n] :
                        /\ \A i \in 1 .. n : i <= last[ptrs[i]]
                        /\ \A b \in DOMAIN last : ptrs[last[b]] = b
                        /\ disk' = [b \in Blocks |->
                              IF b = f THEN [disk[f] EXCEPT !.ptrs = ptrs]
                              ELSE IF b \in DOMAIN last THEN DataBlock(new[last[b]])
                              ELSE disk[b]]
                  /\ alloc' = Rest(alloc, extra)
                  /\ intact' = (intact /\ ~Exhausts(alloc, extra))
        /\ UNCHANGED <<count, server, cmd, cwd, path, tmp, content>>

Overrun(c) ==
    /\ server = "up"
    /\ pc[c] = BeforeStore(c)
    /\ disk[tmp[c]].kind = "file"
    /\ \E new \in ToStore(c) : Len(new) \notin 1 .. FileCapacity
    /\ server' = "overrun"
    /\ UNCHANGED <<disk, alloc, count, pc, cmd, cwd, path, tmp, content, intact>>

\* The file handle is destroyed.
Close(c) ==
    /\ Goto(c, "done", "idle")
    /\ count' = Destruct(count, tmp[c])
    /\ tmp' = [tmp EXCEPT ![c] = FILE_ROOT]
    /\ cmd' = [cmd EXCEPT ![c] = "none"]
    /\ content' = [content EXCEPT ![c] = << >>]
    /\ UNCHANGED <<disk, alloc, server, cwd, path, intact>>

-----------------------------------------------------------------------------
(* "format" *)

\* Only the two roots are written. Nobody's handle is looked at, neither the other
\* threads' nor this one's, and the counts stay.
Format(c) ==
    /\ "format" \in Commands
    /\ Goto(c, "idle", "idle")
    /\ disk' = [disk EXCEPT ![FILE_ROOT] = DefaultRootFolder]
    /\ alloc' = DefaultRoot
    /\ intact' = /\ \A h \in HandleIds : Live(h) => Addr(h) = FILE_ROOT
                 /\ \A d \in Clients : path[d] = << >> /\ pc[d] \notin FileSteps
    /\ UNCHANGED <<count, server, cmd, cwd, path, tmp, content>>

-----------------------------------------------------------------------------
(* A method that takes a block for what it is not *)

Misreads(c) ==
    \/ pc[c] = "idle" /\ ~FolderReadable(cwd[c])
    \/ pc[c] = "opened" /\ cmd[c] # "w" /\ ~FileReadable(tmp[c])
    \/ pc[c] = "opened" /\ cmd[c] = "w" /\ disk[tmp[c]].kind # "file"
    \/ pc[c] = "loaded" /\ disk[tmp[c]].kind # "file"

\* The bytes of one kind of block read as another: anything may follow.
Garbled(c) ==
    /\ server = "up"
    /\ Misreads(c)
    /\ server' = "garbled"
    /\ UNCHANGED <<disk, alloc, count, pc, cmd, cwd, path, tmp, content, intact>>

-----------------------------------------------------------------------------
Session(c) ==
    \/ Connect(c) \/ Login(c) \/ Disconnect(c) \/ ResetByPeer(c)
    \/ CdDot(c) \/ CdUp(c) \/ CdDown(c) \/ CdRelease(c) \/ CdAdopt(c) \/ CdDrop(c)
    \/ \E k \in NodeKinds : CreateNode(c, k) \/ RemoveNode(c, k)
    \/ \E m \in FileCommands : Open(c, m)
    \/ Load(c) \/ Store(c) \/ Overrun(c) \/ Close(c)
    \/ Format(c) \/ Garbled(c)

Next == \E c \in Clients : Session(c)

Spec == Init /\ [][Next]_vars
-----------------------------------------------------------------------------
(* Type correctness *)

AllocOK == /\ alloc \in [start : Blocks, len : Nat]
           /\ alloc.start >= RESERVED_BLOCKS
           /\ alloc.len >= 1
           /\ alloc.start + alloc.len = MaxBlocks

CommandOK(c) == /\ pc[c] \in FileSteps => cmd[c] \in FileCommands
                /\ pc[c] \notin FileSteps => cmd[c] = "none"
                /\ pc[c] = "loaded" => cmd[c] \in {"i", "d"}

\* Every variable has its type; the allocator's extent is never empty, ends with
\* the disk and lies above the reserved blocks; a thread has a file command
\* exactly while it holds the file, and only an edit has read the file to write it.
TypeOK ==
    /\ disk \in [Blocks -> Block]
    /\ AllocOK
    /\ count \in [Blocks -> Nat]
    /\ server \in {"up"} \cup Ends
    /\ pc \in [Clients -> Steps]
    /\ cmd \in [Clients -> FileCommands \cup {"none"}]
    /\ \A c \in Clients : CommandOK(c)
    /\ cwd \in [Clients -> Blocks]
    /\ path \in [Clients -> Seq(Names)]
    /\ tmp \in [Clients -> Blocks]
    /\ content \in [Clients -> Seq(Data \cup {NoData})]
    /\ intact \in BOOLEAN

-----------------------------------------------------------------------------
(* Safety *)

\* The blocks handed out since the last format, and the root folder.
Allocated == {FILE_ROOT} \cup (RESERVED_BLOCKS .. alloc.start - 1)

\* The pointers to block b in the nodes that are allocated, the unlinked ones too.
Pointers == UNION {{a} \X DOMAIN disk[a].ptrs : a \in Allocated}
RefsTo(b) == {r \in Pointers : disk[r[1]].ptrs[r[2]] = b}

Folders == {b \in Allocated : disk[b].kind = "folder"}
Files == {b \in Allocated : disk[b].kind = "file"}
Children(b) == {disk[b].ptrs[i] : i \in DOMAIN disk[b].ptrs}

\* The count of a node is the number of handles on it that are alive, in every
\* state, the one between the two halves of an assignment included: remove's busy
\* check asks the count, and what it must not do is pull a node from under a handle.
CountsExact == \A b \in Blocks : count[b] = Cardinality(HandlesOn(b))

\* Each allocated block belongs to one owner: no two folders, or two files, or two
\* places of one node, refer to the same block, and nothing refers to the root or
\* to a block that was not handed out.
BlocksOwnedOnce ==
    intact => \A b \in Blocks : /\ Cardinality(RefsTo(b)) <= 1
                                /\ b \notin Allocated \ {FILE_ROOT} => RefsTo(b) = {}

\* A child names the folder that lists it as its parent, and lies above it: the
\* folders form trees, and every way up by ".." ends at the root.
ParentsMatch ==
    intact => \A b \in Folders : \A d \in Children(b) : disk[d].parent = b /\ d > b

\* A folder lists no two children of one name, of whatever kinds.
NamesUnique ==
    intact => \A b \in Folders : \A i, j \in DOMAIN disk[b].ptrs :
        i # j => disk[disk[b].ptrs[i]].name # disk[disk[b].ptrs[j]].name

\* The file a command works on stays listed in the session's current folder from
\* open to the end of the command, whatever the other sessions do in between.
OpenFileListed ==
    intact => \A c \in Clients : pc[c] \in FileSteps => tmp[c] \in Children(cwd[c])

\* The names from the root of disk d down to b, going up by the parents.
PathIn(d) == LET up[b \in Blocks] ==
                   IF b = FILE_ROOT \/ d[b].parent >= b THEN << >>
                   ELSE Append(up[d[b].parent], d[b].name)
             IN  up

PathTo == PathIn(disk)

\* The path a session shows is the way to its current folder.
PathIsCwd ==
    intact => \A c \in Clients : pc[c] = "idle" => path[c] = PathTo[cwd[c]]

\* A file's content changes only in a write_all of a session that holds it open.
NoCrossTalk ==
    [][\A f \in Files :
          intact /\ intact' /\ f \in Files' /\ ContentOf(f)' # ContentOf(f) =>
              \E c \in Clients : pc[c] \in {"opened", "loaded"} /\ pc'[c] = "done"
                                 /\ tmp[c] = f]_vars

\* A node that a step takes out of a folder has no handle on it, before or after
\* the step, unless the whole disk is formatted.
NoRemovalInUse ==
    [][\A b \in Folders : \A d \in Children(b) :
          intact /\ intact' /\ b \in Folders' /\ d \notin Children(b)' =>
              HandlesOn(d) = {} /\ HandlesOn(d)' = {}]_vars

-----------------------------------------------------------------------------
(* The inductive invariant behind BlocksOwnedOnce and ParentsMatch *)

RootOK == disk[FILE_ROOT].kind = "folder" /\ disk[FILE_ROOT].parent = FILE_ROOT

PointersOK == \A a \in Allocated : \A i \in DOMAIN disk[a].ptrs :
                  disk[a].ptrs[i] \in Allocated \ {FILE_ROOT}

SingleRefs == \A a, b \in Allocated : \A i \in DOMAIN disk[a].ptrs, j \in DOMAIN disk[b].ptrs :
                  disk[a].ptrs[i] = disk[b].ptrs[j] => a = b /\ i = j

FolderOK(a) == disk[a].kind = "folder" => \A i \in DOMAIN disk[a].ptrs :
                  /\ disk[disk[a].ptrs[i]].kind \in NodeKinds
                  /\ disk[disk[a].ptrs[i]].parent = a
                  /\ a < disk[a].ptrs[i]

FileOK(a) == disk[a].kind = "file" => \A i \in DOMAIN disk[a].ptrs :
                  disk[disk[a].ptrs[i]].kind = "data"

LeafOK(a) == disk[a].kind \notin NodeKinds => disk[a].ptrs = << >>

UpOK(a) == disk[a].kind \in NodeKinds /\ a # FILE_ROOT => disk[a].parent \in Folders

HandleOK(c) ==
    /\ Live(<<c, "cwd">>) => cwd[c] \in Folders
    /\ pc[c] \in CdSteps => tmp[c] \in Folders
    /\ pc[c] \in FileSteps => tmp[c] \in Files

\* What every request relies on when it interprets the blocks that it reads.
TreeOK == /\ RootOK /\ PointersOK /\ SingleRefs
          /\ \A a \in Allocated : FolderOK(a) /\ FileOK(a) /\ LeafOK(a) /\ UpOK(a)
          /\ \A c \in Clients : HandleOK(c)

\* No request has found a block that is not what the request takes it for.
NeverGarbled == intact => server # "garbled"

\* The blocks form trees, everything a pointer or a handle leads to is an
\* allocated block of the kind it is taken for, and no two pointers meet; and so
\* no request has ever taken a block for what it is not.
TreeSound == (intact => TreeOK) /\ NeverGarbled

-----------------------------------------------------------------------------
(* The inductive invariant behind PathIsCwd *)

\* The folder that path stands for: open_folder's, before current_folder is it.
Shown(c) == IF pc[c] \in {"cdOpened", "cdReleased"} THEN tmp[c] ELSE cwd[c]

\* Every folder lies above the one it names as its parent, an unlinked one too: a
\* session may still be in it, and its path stays what it was.
UpwardOK == \A b \in Folders \ {FILE_ROOT} : disk[b].parent < b

PathOK == /\ UpwardOK
          /\ \A c \in Clients : pc[c] # "off" => path[c] = PathTo[Shown(c)]

PathSound == intact => PathOK

-----------------------------------------------------------------------------
(* Claims the code does not keep: each is the property of a run that fails *)

\* "The changes performed by the second client can be checked via the first
\* client": an "i" or "d" edits the content the file has when it writes it back,
\* so that no other session's change is lost.
EditsCurrentContent ==
    [][\A c \in Clients : pc[c] = "loaded" /\ pc'[c] = "done" /\ FileReadable(tmp[c]) =>
          content[c] = ContentOf(tmp[c])]_vars

\* "todo throw": when no block is left new_block does not answer with one. (Its
\* run sends no "format", which makes blocks be handed out again on purpose.)
NoSharing ==
    server = "up" => \A b \in Blocks : Cardinality(RefsTo(b)) <= 1

\* "file: 8 extent entries": write_all never leaves the node it fills.
WithinNode == server # "overrun"
=============================================================================
