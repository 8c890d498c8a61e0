# A TLA+ model of the CS2313 file system

The program is a course project in C++: a file system server that many shell
clients use at once, over a disk that is either in its memory (step 2) or behind
a TCP connection in another process (step 3). This directory holds its
specification, the TLC runs that check it, and the proofs about it.

    tlc -workers 2 -config MCRemoveWindowTree.cfg MCRemoveWindow
    tlapm FileSystemTreeProofs.tla

## 1. The system

| Part | Source | State it keeps | Operations |
|---|---|---|---|
| Folder and file handles | `src/src/fs.h` | `data_mutex_`; `handle_instance_count_` under `count_mutex_`; the nodes on the disk; an address per handle | `format`, `root_folder`, construct / destroy / assign a handle, `open`, `open_folder`, `create`, `remove`, `list`, `read_all`, `write_all` |
| Server | `src/src/fs_server.h` | a thread per session: `current_folder`, `path`, the local handle of a command | login, `cd ls mk mkdir rm rmdir cat w i d format` |
| Allocator | `src/src/fs_allocator.h` | one root node on the disk (an extent of free blocks), a cache of it during a call | `new_block`, `delete_block` (empty), `sync` |
| Block structures | `src/src/fs_block_structure.h` | layout of nodes, extents, the allocator's root | defaults and accessors |
| Block view | `src/src/disk_view.h` | none | read or write one block as a structure |
| Storage interface | `src/src/storage_interface.h` | none | `read`, `write`, `shutdown`, `get_description` |
| RAM disk | `src/src/ram_disk.h` | the sectors | the storage interface |
| Disk client | `src/src/disk_client.h` | `tid_counter_`, `waiting_list_`, the socket, the handler thread | the storage interface, over messages |
| Virtual drive | `src/src/virtual_drive.h` | a mapped file, one connection, the receiver thread | `READ`, `WRITE`, `GET_DESC`, `SHUTDOWN` |
| Sockets | `src/src/utils/socket.h` | a descriptor | send, receive, accept; orderly end and other errors |
| File system shell | `src/src/fs_shell.h` | `path_prompt_` | a command and its answer, for each of the server's |
| Raw disk shell (step 1) | `src/src/raw_shell.h` | the geometry, one sector buffer | `I`, `R`, `W`, `E` |
| User list, passwords | `src/src/fs_user_list.h`, `src/src/utils/password.h` | none | nothing calls them |

How they interact: a session's thread calls the methods of its handles. A method
holds `data_mutex_` from beginning to end and reads and writes blocks through the
view; the storage interface either copies memory or sends a request and waits
for the handler thread to wake it. The handle counts have a mutex of their own,
which constructors, destructors and the busy check take. The drive serves one
connection at a time, one request after the other.

What is hard, and what makes each part correct:

- *Sessions interleave* between the methods of one command, and inside the
  assignment `current_folder = folder`. The counts must be exact at every moment,
  or `remove` takes a node from under a handle; a file in use must stay listed;
  `path` and `current_folder` must not part.
- *Blocks are shared by mistake* if the allocator hands one out twice. Nodes and
  data live in one address space without any tag that is checked: every method
  relies on the blocks forming a tree in which all is of the kind it is taken for.
- *Limits*: the last block, the capacities of folder and file nodes, a file that
  is edited to nothing.
- *Messages*: a response must find its transaction on the list, and that
  transaction is a local variable of a call that must not have returned.
- *Ends of processes and connections*: a request that a dead process left on its
  connection is still served; a write may be cut off in the middle of its data;
  the next process waits until the drive has noticed; a thread whose shell has
  gone must end, or its handles keep nodes in use for ever.
- *Crashes*: a method writes several sectors. Whatever prefix of them is on the
  disk, the next process must find a tree it can work on.
- *Nothing frames a message*: shell and thread must agree on the fields of every
  command and of every answer, and the path in the prompt is a second copy of the
  thread's.
- *Numbers of the raw disk*: sizes that wrap around 64 bits, addresses the drive
  does not check, one buffer for all sectors, a file that is longer or shorter
  than the disk.

Two notes on the source as it is. `node.parent_addr` (`fs.h:235,265`) and
`FS_LOGIN_REPLY_FIRST_OK` (`fs_shell.h:23`) are declared nowhere, so this commit
does not compile; the first is modelled as a field of the node, which is the only
way the two uses make sense. And the server begins a session by receiving a user
name (`fs_server.h:35`), while the shell begins by receiving a reply
(`fs_shell.h:22`): as they are, the two wait for each other for ever (run
`session_hello`). The clients of `FileSystem`, and the `Greeters` of `Session`,
stand for clients that the repository does not have: they send the name the server
asks for, and go on as its shell does, so that there is a session at all. All that
is said of sessions is said of what follows such a greeting.

## 2. The modules

| Module | What it is |
|---|---|
| `FileSystem` | server, handles, counts, allocator and blocks: the core |
| `FileTree` | abstract: the one tree of names that all users see |
| `FileSystemView` | `FileSystem` as an implementation of `FileTree` |
| `MCFileSystem` | its symmetry and the constraint `WhileIntact`, with four configurations |
| `RemoveWindow`, `MCRemoveWindow` | `FileSystem` with `remove` in two steps, between which `count_mutex_` is free; two configurations |
| `FileSystemProofs` | type correctness, exact counts |
| `FileSystemTreeProofs` | the tree is sound, and what follows |
| `FileSystemNamesProofs` | names, nodes and files in use, the content of files; `RemoveWindow` implements `FileSystem` |
| `FileSystemPathProofs` | the path of a session is the way to its folder |
| `CrashFileSystem`, `MCCrashFileSystem` | the methods as sequences of sector writes; crashes and restarts |
| `Session`, `MCSession` | shell and server thread as the two sides of a protocol |
| `SectorStore` | abstract: what a storage interface promises |
| `DiskLink` | disk client, connection and virtual drive; implements `SectorStore` |
| `RawDisk` | step 1 byte by byte: geometry, addresses, mapped file, raw shell |
| `SessionProofs` | the two sides are in step, the prompt is the thread's path |
| `DiskLinkProofs` | types, the handler is in step, `DiskLink` implements `SectorStore` |
| `RawDiskProofs` | addresses of accepted geometries; sectors read back |
| `CrashFileSystemProofs` | soundness, atomicity and persistence over any number of crashes |

`CrashFileSystem` is built on the actions of `FileSystem` and on the tree of
`FileSystemView`. `Session` abstracts a method to one that returns or throws, and
the disk to one that answers or is lost; `RawDisk` abstracts the connection of
`DiskLink` to a request and its answer in one step. Operators whose comment begins
with "A slip" are not part of any specification: they are the mistakes that the
properties were tried against.

### FileSystem

State: `disk` (block to node or data), `alloc` (the allocator's extent), `count`
(the map of handle counts, 0 where it has no entry), per session `pc`, `cmd`,
`cwd` and `tmp` (the addresses in `current_folder` and in the command's local
handle), `path`, `content` (the string `i` and `d` edit), and `server`.

An action is a method call under `data_mutex_`, or a step a thread takes under
`count_mutex_` alone:

| Action | Code |
|---|---|
| `Connect`, `Login`, `Disconnect`, `ResetByPeer` | `serve_client` from accept to each of its ends |
| `CdDot`, `CdUp`, `CdDown` | `open_folder`, and the change of `path` |
| `CdRelease`, `CdAdopt`, `CdDrop` | the two halves of the copy assignment; the end of the local handle |
| `CreateNode`, `RemoveNode` | `create`, `remove` |
| `Open`, `Load`, `Store`, `Close` | `open`, `read_all`, `write_all`, the end of the file handle |
| `Overrun`, `Garbled` | a method that leaves the node, or takes a block for what it is not: what follows is undefined, so the model stops there |
| `Format` | `format` |

A request that fails changes nothing but its answer and is a stuttering step:
`CreateReply` and `RemoveReply` say when, in the order of the code's conditions.
`ls` changes nothing. The block payload of a file stands for 0x100 bytes, so an
insertion or a deletion is one of whole blocks. Names are the ones
`is_name_valid` accepts.

`intact` is a history variable. It is lost when the allocator hands out its last
block and when a `format` takes a node from under a session, and comes back with
a format that does neither; the safety properties of the tree speak of
intact disks, because on the others the code keeps none of them (see the findings).

`remove` is the one method that depends on `count_mutex_` after it has let go of
it: it asks the counts (`fs.h:290-292`) and writes the folder later.
`RemoveWindow` has it as `RemoveCheck` and `RemoveWrite`, with the copy of the node
and the index kept in `window`, and in between what the other threads do without
`data_mutex_` (`Unlocked`): connect, log in, end, destroy and assign handles.
`AtomicSpec` says that this is `FileSystem` all the same. All other properties of
`fs_tree` and `fs_files` are checked over the two steps as well.

### FileTree and FileSystemView

What users see is a tree from paths to folders and files with their content, the
path each session is at, and the file each of them holds with what it has read
from it. Its steps are `Make`, `Unlink`, `Move`, `Leave`, `Open`, `Read`, `Write`,
`Close`, and `Format`, which takes place only while all are at the root with
nothing open. `Unlink` is allowed when nobody is in the node that goes or works on
it; a session further down is cut off (`at` is empty) and changes nothing that
others see from then on.

`FileSystemView` computes the tree from the blocks (`PathsIn`, `TreeOf`): a
block has a path when the folder it names as its parent lists it. In the middle
of the assignment of `current_folder` a session is where its local handle is
(`Held`). While the disk is not intact the abstract state is a fixed one
(`Break`): nothing is promised until the next harmless format. `TreeSpec` says
that every step of `FileSystem` is one of these, so a block two nodes share, a
name taken out of the wrong slot or content that gets into another file would be
a step that no user asked for.

### CrashFileSystem

| State | Code |
|---|---|
| `platter`, `extent` | the sectors as they are: the blocks, and the allocator's root (block 1) |
| `disk`, `alloc` | the blocks as they will be when the method that runs has written all |
| `todo` | the writes that method has still to make, in the order of the code |
| `before` | history: `platter` when it began |

A method of `FileSystem` runs up to its first write (`Method`) and puts its
writes in `todo`: `CreateWrites` (allocator, new node, folder), `RemoveWrites`
(folder), `StoreWrites` (the allocator for each new block, the data, the node),
`FormatWrites` (both roots). `WriteSector` makes one; `Crash` ends the process
between any two (the memory is lost and the next process reads `platter`), and
`Boot` is the constructor, which formats when one of the two magic numbers is
missing. The first state is a new drive full of zeros. The model follows the
disk while it is intact and no write leaves its node, since beyond that
`FileSystem` claims nothing either.

### Session

Per client: the shell (`shell`, `asked`, `prompt`), the two directions of its
connection (`toServer`, `toShell`, `wire`), the thread (`thread`, `req`, `left`,
`path`); and `lock` (`data_mutex_`), `disk`, `process`.

| Action | Code |
|---|---|
| `Start`, `Ask`, `Hear`, `Depart`, `SeeEnd` | `fs_shell::run`: connect, send a command, receive its answer, leave or be killed in the middle of a message, meet the end |
| `Accept`, `Login`, `Receive`, `Reply` | `accept_connections`, and the steps of `serve_client` |
| `Enter`, `Returns`, `Unlocked` | a method under `data_mutex_`, and the ones that need none |
| `Eof`, `Reset`, `DiskThrows` | the errors that end a session, or the process |
| `AcceptFails`, `Joined` | an exception out of `accept_connections` and the destructor that joins the threads |
| `DiskLost`, `Killed` | the end of the disk's connection and of the process |

A message is a sequence of typed fields, as `ArgsSent` (shell) and `ArgsTaken`
(server) have them in the code; an `ls` answer says how many names follow. A
process that ends, on either side, may leave the beginning of one: of a command
(`Depart`), or of an answer, of every thread that has one to give (`Ends`, `Sent`).
`Joined` is the end of the server's destructor and of the process in one; that in
step 3 the destructor of the disk client comes in between, and may wait for the
drive, is `DiskLink`'s matter (`Leave`, `JoinReturns`).

### SectorStore and DiskLink

`SectorStore` says that a read or a write takes effect at one moment between its
call and its return, that a call that throws had no effect, that a write which
was cut off may spoil its sector, and that nothing of a dead process happens
once the next one has started.

`DiskLink` has the calling threads (`Number`, `List`, `Send`, `Wake` are the
four steps of `read`, `write` and `shutdown`), the handler thread (`Handle`,
`HandlerReturns`), the drive's receiver thread (`Take`, then `Describe`, `Read`,
`Write` and `Acknowledge`, or `ShutDown`; `Eof`, `SendFailed`, `DataCutOff`),
the two queues of the connection, the client's destructor (`Leave`, which joins
the handler), and the death and the start of both processes. The refinement
mapping (`Store`) takes the drive's file for the store and, for each thread, the
call it is in with the effect the drive has given it (`effect`, a history
variable); the unanswered writes of a dead process are the ones still on its
connection.

### RawDisk

State: the drive's geometry and its file as a sequence of bytes, the cylinder of
the head, the shell's copy of the geometry and its one buffer. `Launch` takes
any arguments that main and the constructor accept (`Accepts`), with `Width`
bits instead of 64, so that products wrap around within the instance, on
whatever file an earlier drive left; `R` and `W` have the shell's check
(`Valid`), its address (`Addr`), the drive's offset (`Offset`) and cylinder
(`CylinderNo`) and the buffer as the code fills it. `LaunchFails` is a constructor
that fails after it has written to the file. `told` is the reference:
what each sector was last written with, as an array of cylinders and sectors
would keep it.

## 3. What the runs check

| Run | Instance | Question | Result |
|---|---|---|---|
| `fs_tree` | 2 sessions, 2 names, 4 free blocks; `cd mk mkdir rm rmdir format`; `remove` in two steps | tree, names, parents, paths and counts under all interleavings; no removal under a handle; implements `FileTree`; `remove` might be one step | holds, 278,814 states |
| `fs_files` | 2 sessions, 2 names, 2 payloads, 5 free blocks; `mk rm cat w i d format`; `remove` in two steps | blocks of files never shared; a file in use stays listed; only its sessions change its content; implements `FileTree` | holds, 157,552 states |
| `fs_exhausted` | 1 session, 3 free blocks; all commands | types, beyond the last block and through formats at any time; `FileTree` up to there and after | holds, 699,221 states |
| `disk_link` | 2 threads, 1 sector, 2 values, 4 transactions a process | implements `SectorStore`; the handler always meets the right transaction; a call in progress is in one place; calls return, the next process is served, the destructor ends; no deadlock | holds, 154,671 states |
| `crash` | 2 sessions, 1 name, 2 payloads, 4 free blocks | after any crash the disk is sound or formatted anew; a method happened or did not; what was stored stays | holds, 261,063 states |
| `session` | 2 shells that type all commands between them | the two sides never part; the prompt shows the thread's path; every command is answered; sessions and the destructor end | holds, 78,208 states |
| `raw_disk` | 3-bit numbers, all geometries of up to 6 bytes, data of up to 3 letters | no size wraps, no address leaves the mapping, sectors read back, a relaunch, successful or not, loses at most a byte | holds, 158,279 states |
| `raw_relaunch` | the same, smaller | a relaunch loses nothing | fails |
| `fs_last_block` | 1 session, 3 free blocks | `new_block` never answers with a block in use | fails |
| `fs_lost_update` | 2 sessions, `mk w i` | an edit is of the content the file has when it is written | fails |
| `fs_long_file` | 1 session, a write of 3 blocks where a node has room for 2 | `write_all` stays in the node | fails |
| `session_hello` | the repository's shells | a shell that has connected comes to its prompt | fails |

The five failures are disagreements of the code with its own comments and guide,
with their lines in `PROJECT.json` under `findings`.

**Bounds.** Two sessions are every pair of actors in the code: the methods
exclude each other, and what a third session could do between two steps of one
is what the second can. Folders and files have room for two entries instead of
16 and 8, so that full nodes, shifting entries and overlong files occur. Four or
five free blocks give two levels of folders with something in them and the
run-out of blocks. `MaxPath` and `MaxWrite` bound the depth of `cd` and the
length of a write; in `fs_tree` and `fs_files` the first cuts nothing off, as an
intact disk has room for three nested folders at most, and in `fs_exhausted`,
where a folder may come to contain itself, it is what makes the paths finite.
`MaxTid` bounds the calls of one client process (three, after the
constructor's), enough for two calls at once and a later one that meets what
they left. One sector is enough in `disk_link`: the address is a field of the
request that the drive uses and nobody else looks at, so what could go wrong
between two sectors goes wrong between two calls on one. In `session` the
commands are divided between the two clients, since what one client does meets
the other only in `data_mutex_` and in the end of the process, and each has
commands of one method and of three; `MaxPath` = 1 has a step up, a step down
and a step that goes nowhere, `MaxEntries` = 2 a listing with none, one and
several names. In `raw_disk` the numbers have 3 bits and the file up to 6 bytes:
every triple of arguments is tried, among them all that wrap around to something
small, and there are disks of several cylinders, of several sectors and of
sectors of one to four bytes, data longer and shorter than a sector, and files
an earlier drive left longer or shorter than the next.

**Symmetry.** Names, payloads and sessions are symmetric sets in the `FileSystem`
and `crash` runs: no definition tells their members apart, and those runs check no
liveness. `disk_link` and `session` have liveness properties and use none.

**Constraint.** `WhileIntact` checks a state in which the disk is not intact, and
does not go on from it. What is skipped is checked for types and the way back to an
intact disk in `fs_exhausted`; that the counts are exact there too is proved.

**Deadlock.** The FileSystem runs switch the check off, since the process may
stop for good (`ResetByPeer`, `Overrun`, `Garbled`), and so does `session`, where
all shells may have left a process that has ended. The others keep it on.

**Fairness.** A thread that can go on does; nothing says that a call is made, a
user types, or a process starts or dies. In `DiskLink` that is weak fairness of
the client's constructor and handler, of each calling thread's steps, of accept
and of the drive's serving; in `Session`, of each shell's receiving, of each
thread, of a method that runs, and of the destructor. It stands for a scheduler
that starves nobody and a network that delivers. `data_mutex_` has strong
fairness (`Enter`): a thread that waits for it gets it although others take it
again and again, which is what mutexes of the platform do in practice and no
standard promises. `CallsReturn` ends with the connection: when it is lost the
handler returns and wakes nobody (`disk_client.h:160`), so a stronger claim
would be false. For the same reason `Answered`, `SessionEnds` and `CloseEnds`
except a thread that stays for ever in a call to a lost disk or behind one that
does, with `data_mutex_` held (`[]Stuck(c)`); what such a call does when it throws
(`DiskThrows`) they do not except. `JoinReturns` is the half of the disk client's
destructor in which the drive ends the connection: with a drive that stays, it
waits as long as the drive does.

## 4. What is proved

Each theorem is about every value of the module's constants, and rests on
nothing but the assumptions that module names:

- `FileSystem`: at least one block that is not reserved, any capacities, finitely
  many sessions, the root's name is not one a command can give, `NoData` is not a
  payload.
- `Session`: each client has commands of the shell's, `Nobody` is not a client.
- `DiskLink`: number 0 is a transaction (the constructor's), the marks of a
  sector are not values, `Nobody` does not call.
- `RawDisk`: numbers of at least one bit, a file that an unsigned number can
  measure, letters that are bytes other than 0.

| Module | Theorem | Says |
|---|---|---|
| `FileSystemProofs` | `TypeCorrect` | `Spec => []TypeOK` |
| | `CountsAreExact` | `Spec => []CountsExact` |
| `FileSystemTreeProofs` | `TreeIsSound` | `Spec => []TreeSound` |
| | `ParentsAreRight`, `BlocksAreOwnedOnce` | `Spec => []ParentsMatch`, `[]BlocksOwnedOnce` |
| `FileSystemNamesProofs` | `NamesAreUnique`, `OpenFilesAreListed` | `Spec => []NamesUnique`, `[]OpenFileListed` |
| | `NoRemovalOfUsed`, `NoFileCrossTalk` | `Spec => NoRemovalInUse`, `NoCrossTalk` (action properties) |
| | `RemoveIsAtomic` | `WSpec => AtomicSpec`: what is proved of `Spec` holds with `remove` in two steps |
| `FileSystemPathProofs` | `PathIsRight` | `Spec => []PathIsCwd` |
| `DiskLinkProofs` | `LinkTypeCorrect`, `LinkInvariant` | `Spec => []TypeOK`, `[]LinkInv` |
| | `CallsInOnePlace`, `HandlerIsInStep` | `Spec => []InOnePlace`, `[]HandlerInStep` |
| | `LinkImplementsStore` | `Spec => StoreSpec`: the refinement of `SectorStore` |
| `SessionProofs` | `SessionTypeCorrect`, `SessionInvariant` | `Spec => []TypeOK`, `[]SessionInv` |
| | `SessionInStep`, `PromptShowsPath` | `Spec => []InStep`, `[]PromptIsPath` |
| `RawDiskProofs` | `RawTypeCorrect`, `RawInvariant` | `Spec => []TypeOK`, `[]RawInv` |
| | `AddressesStayWithin`, `SectorsReadBack`, `HeadFollows` | `Spec => []WithinMapping`, `[]ReadsBack`, `[]HeadAtCylinder` |
| | `RelaunchKeepsAllButOne` | `Spec => KeepsAllButOne` (action property) |
| `CrashFileSystemProofs` | `CrashTypeCorrect`, `CrashInvariant` | `CSpec => []CrashTypeOK`, `[]CrashInv` |
| | `SoundAfterCrashes`, `WholeAfterCrashes` | `CSpec => []SoundAfterCrash`, `[]AllOrNothing` |
| | `StoredIsPersistent` | `CSpec => Persistent` (action property) |

The inductive invariants stand at the end of the modules they are about, next to
the properties they are for; each was checked by TLC on the run of its module
before it was proved.

### FileSystem

*Types.* `TypeOK` is inductive alone. The part that needs care is the allocator:
`NewBlock` must answer with a block of the disk and `Rest` must leave an extent
that is not empty and ends with the disk, for any number of calls
(`NewBlockType`, `RestType`).

*Counts.* `CountsExact` is inductive given `TypeOK`. `HandlesOn(b)` is a finite
set, and each step adds one handle to it, takes one away or leaves it
(`OneMore`, `OneLess`, `NoneChanged`); that `Destruct` does not go below zero
follows from the handle that is destroyed being counted.

*Tree.* None of the three properties is inductive. A removed folder stays on the
disk with its children, and a session may still be in it and create more there,
so the invariant `TreeOK` speaks of all allocated blocks and not of those the
root leads to; that no method misreads a block (`NeverGarbled`, the second half of
`TreeSound`) needs the kinds of all that a handle or a pointer
leads to; `SingleRefs` (no two pointers meet) needs that a new block is not
allocated yet, which is what `intact` and `AllocOK` give (`ExtentMoves`).
`TreeCreate`, `TreeRemove`, `TreeStore`, `TreeCdOpen`, `TreeOpen`, `TreeFormat`
have a lemma each, with one step for each conjunct that the action disturbs;
`NoMisread` shows that `Garbled` cannot happen. `BlocksOwnedOnce` follows from
`SingleRefs` by counting. What the three methods that write do to the blocks is
said once, by `CreateEffect`, `RemoveEffect` and `StoreEffect`, and cited by all
proofs that follow.

*Names and use.* Names are unique in every allocated folder, unlinked ones
included, since `CreateReply` looks for the name among folders and files before
`CreateNode` enters it. `NoRemovalInUse` is where the counts and the tree meet:
`RemoveReply` compares a count, `CountsExact` makes it the number of handles, and
`SingleRefs` makes the entry that goes the only one to that node, so that no other
node loses its place with it. `OpenFileListed` then follows, because the one step
that could take the file out of the folder is excluded by the handle the session
has; and `NoCrossTalk` because the blocks a `write_all` changes belong to one
file.

*The two steps of `remove`.* `RemoveIsAtomic` maps `RemoveCheck` to a step that
changes nothing and `RemoveWrite` to `RemoveNode`. Its invariant (`WindowOK`) says
that, as long as a window is open, the folder is still the copy, its thread is
still in it, and the child has no handle. The last is the point: of the steps in
between, only those that construct a handle on a node that has none could break it,
and without `data_mutex_` a handle is made only on the root folder, which is nobody's
child (`RootUnlisted`), or as the copy of one that is there (`NoFirstHandle`).

*Path.* `PathIsCwd` speaks of idle sessions; in the middle of a `cd` the path is
the one of the folder in the local handle (`Shown`), and a session may be in a
folder that was removed, whose path nobody else sees any more but which must stay
what it was. So `PathOK` is about every session in every state, and needs that
each allocated folder lies above the one it names as its parent, listed or not
(`UpwardOK`). `PathTo` is a function defined by recursion over the numbers of the
blocks. That two of them agree where the disks they belong to do (`WaysAgree`) is
an induction over data, carried out as a least counterexample: the blocks where
they differ, if there are any, have a least member (`Least`, from `WFMin`), and
its parent is a smaller one.

### DiskLink

`LinkInv` says whose every message is. On an open connection each request in
`toDrive`, the drive's current request and each response in `toClient` is the one
message of a thread that waits for it (`Awaits`): a request had no effect yet and
is as the call made it (`Asked`), a write that the drive has made and not yet
acknowledged had its effect (`Done`), and a response carries what its read saw
(`Answered`). No two messages have one number, and no call has one that the counter has
not passed (`CallsOK`). `LinkOK` and `AskingOK` say what is left on a connection
when one of its ends is gone, and that a new process's `GET_DESC` is alone on its
own. `HandlerInStep` is a consequence: the number of a response is on the list,
and its thread has not returned. The other direction, that a call which was sent
and not woken has a message somewhere, is `NoneLost`: it is preserved given
`LinkInv`, since every step that takes a message from one of its places puts it in
the next or wakes its caller. The two together give `InOnePlace`.

The refinement goes step by step. `Number`, `List`, `Send`, `Take`, `Handle` and
most of the others change nothing of the store; the drive's `Read` and `Write`
are the effect of one call, and `LinkInv` is what names that call; `Wake` is its
return, with the result that `effect` recorded; the destructor and the deaths of
processes are the ends of `SectorStore`, and a write that a dead process left is
one of its `LateWrites`.

### CrashFileSystem

`TreeOK`, which speaks of all the blocks that were handed out, does not survive a
crash: a block whose number the extent on the disk has passed, but whose own write
was lost, holds what an earlier file system left there. So `CrashInv` names a set
`G` of blocks, for the blocks as they will be (`RunOK`) and for the sectors as they
are (`RestOK`), which contains the root, is closed under pointers, forms trees
(`Trees`) and lies below the extent (`Below`). `TreesCreate`, `TreesRemove` and
`TreesStore` say what a method does to it; the steps that write nothing keep it
because they change only handles (`QuietHandles`). `SoundAfterCrash` follows, as
all that `Linked` reaches is in `G` (`TreesAreSound`).

`TodoOK` says that the pending writes make the sectors what the method has made
the blocks. The order is in `Writing`: of a create, remove or `write_all` each
pending write but the last is one of the allocator's root, which only moves its
start up; or of a block outside `G`; or of data in `G`. The last write, of the
folder or of the file's node, is the one that makes the change, and with it the
sectors are the new blocks (`WritingGoesOn`, `WritingRests`). A format is the one
method whose writes are not like that; between its two writes the sectors are
already what it leaves (`Formatting`).

For `AllOrNothing`, blocks that differ only in data have the same paths
(`PathsAgree`, an induction over the numbers of the blocks, again as a least
counterexample), so what users see while the writes are pending is the old tree, but for the blocks
of one file; in each place the file has the old block or the new one
(`WritingFile`, `WritingNode`). `Persistent` needs from `CrashInv` that at rest
the sectors are the blocks, and that a disk with the file root but without the
allocator's has the default root folder, so that the constructor's format changes
nothing.

### Session

`SessionInv` says, per client, which ends of its connection are there (`EndsOK`),
whose turn it is on an open one and what is on its way in both directions, given
the states of the shell and the thread (`TurnOK`), and what a shell that has gone
left behind: a message, perhaps cut off in its middle, and nothing before a
thread that still serves the command before it (`LeftOK`). Clients share only
`data_mutex_`, the disk and the end of the process, so a step of one leaves the
conjuncts of every other (`OthersStay`); the one step that moves all of them at
once is the end of the process (`EndsStep`), which may leave the beginning of an
answer to each shell (`LastWords`, `PartIs`); no shell takes that for a whole one
(`PartIsNoWhole`). `InStep` and `PromptIsPath` are
consequences (`InStepHolds`). What the provers need to know of messages is stated
as lemmas about the fields of requests and answers (`ArgsAgree`,
`RequestReceived`, `BeginningIs`, `AnswerIs`): shell and thread read `ArgsSent` and
`ArgsTaken` alike, and a request of which only a beginning was sent is one the
thread finds cut short or can serve.

### RawDisk

All the arithmetic is in `Accepts`. The constructor multiplies in `Width` bits,
divides again and compares, and lemma `AcceptedFits` shows that a geometry which
passes has a product that did not wrap around; from there `AddressIs` gives that
the address and the offset of a valid sector do not either, `Starts` that two
sectors lie at least one apart, and so a write to one leaves the others
(`CellIs`, `OverwrittenIs`). That `2 ^ w` is a positive number for every `w` is proved by counting
the subsets of `1 .. w`. `HeadAtCylinder` relates the drive's cylinder, computed
with a shift, to the one that was asked for: `PowerOf2` is the exponent, and
`Places` undoes the multiplication. `RawInv` adds to the properties that the
geometry of a drive that is up was accepted, and that the last access was to a
sector of it. `KeepsAllButOne` is the strongest form that holds: the launch of a
drive writes a zero at the end of its mapping (see the finding of
`raw_relaunch`).

*Only model-checked so far:* that `FileSystem` implements `FileTree` (`TreeSpec`).
*Out of the prover's reach:* the liveness of `DiskLink`
(`CallsReturn`, the next process is served, the destructor ends) and of
`Session` (`Answered`, `SessionEnds` and the end of the destructor).

## 5. What is not modelled, and why

- *Bytes inside a block*: the copying loops of `read_all` and `write_all`, the
  lengths of strings, the 32-bit cut of an address in `remove` (`fs.h:288`, on
  disks of more than 2^32 blocks). A block of `FileSystem` is a node or one
  payload.
- *Disks whose sectors are not of 0x100 bytes, or that have fewer than four
  blocks* (`disk_view.h:18`, `fs.h:38`): what follows is undefined, or excluded
  by `SizeAssumption`.
- *What follows a `d` of everything* (`fs.h:181`, where `entries - 1` wraps
  around) or a file longer than its node: `Overrun` is where the model stops.
- *A transaction number that wraps around* (`disk_client.h:114`) while the call
  that has it still waits: it takes 2^32 calls.
- *The magnetic head scheduler* and *the allocator's B+ tree*: commented out in
  the source.
- *Waiting times* of the drive: they change no outcome. *Timeouts*: there are
  none.
- *Terminal handling, the parsing of lines and arguments* (with what the shells
  do at the end of their input), *what is printed*, *passwords and the user
  list*: no state of the system.
- *`threads_`*, which only grows: `Session` has a slot for each client, used
  again by its next connection.
- *A sector that is cut off while it is written, below a file system*: in
  `SectorStore` and `DiskLink` the sector is spoiled; `CrashFileSystem` takes a
  sector as written whole or not at all, since nothing is claimed about a node
  of which half is old.
- *`FileSystem` and `DiskLink` in one state space*: the two meet in what
  `SectorStore` promises, and in the lost disk of `Session`.

## 6. Plan

The model is as far as it is meant to go; of the properties that a proof can reach
one is left. It is `TreeSpec`: that every step of `FileSystem` is one of `FileTree`
or changes nothing of it. `TreeOK`, `NamesUnique` and `PathOK` are its invariant,
and the section on paths of `FileSystemPathProofs` has the lemmas about `PathsIn`
that relate the tree of paths to the blocks; the steps of `CreateNode`,
`RemoveNode` and `Store` are the ones that need work, since they change the domain
or the content of the tree and must change nothing else of it.
