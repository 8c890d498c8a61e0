------------------------------ MODULE RemoveWindow ------------------------------
(***************************************************************************)
(* FileSystem with remove (src/src/fs.h, 273-304) in two steps.  remove    *)
(* lets go of count_mutex_ as soon as it has asked the counts, and writes  *)
(* the folder later.  It holds data_mutex_ all the while: in between, the  *)
(* other threads do what needs none, and that changes the counts.          *)
(***************************************************************************)
EXTENDS FileSystem

VARIABLE window  \* what a remove between its two steps holds, in a set: the
                 \* thread, its copy of the folder's node, and the index in it

wvars == <<vars, window>>

WInit == Init /\ window = {}

\* data_mutex_ is taken, the child is found, and its count is asked.
RemoveCheck(c, k) ==
    /\ (IF k = "folder" THEN "rmdir" ELSE "rm") \in Commands
    /\ server = "up" /\ pc[c] = "idle" /\ window = {}
    /\ FolderReadable(cwd[c])
    /\ \E n \in Names : \E i \in FirstMatch(cwd[c], k, n) :
          /\ RemoveReply(cwd[c], k, n) = "ok"
          /\ window' = {[by |-> c, node |-> disk[cwd[c]], index |-> i]}
    /\ UNCHANGED vars

\* The entry is taken out of the copy, which is written over the folder.
RemoveWrite ==
    /\ server = "up"
    /\ \E w \in window : disk' = [disk EXCEPT ![cwd[w.by]] = [w.node EXCEPT !.ptrs = RemoveAt(@, w.index)]]
    /\ window' = {}
    /\ UNCHANGED <<alloc, count, server, pc, cmd, cwd, path, tmp, content, intact>>

\* A slip of open: data_mutex_ is not taken.
UnlockedOpen(d) ==
    \/ Connect(d) \/ Login(d) \/ Disconnect(d) \/ ResetByPeer(d)
    \/ CdDot(d) \/ CdRelease(d) \/ CdAdopt(d) \/ CdDrop(d) \/ Close(d)
    \/ CdDown(d) \/ \E m \in FileCommands : Open(d, m)

\* What a thread does without data_mutex_: its handles come and go, and so does it.
Unlocked(d) ==
    \/ Connect(d) \/ Login(d) \/ Disconnect(d) \/ ResetByPeer(d)
    \/ CdDot(d) \/ CdRelease(d) \/ CdAdopt(d) \/ CdDrop(d) \/ Close(d)

Meanwhile == /\ window # {}
             /\ \E d \in Clients : Unlocked(d) /\ \A w \in window : w.by # d
             /\ UNCHANGED window

\* The steps of FileSystem are there too, while no remove is between its two; its
\* RemoveNode is the two of them with nothing in between.
WNext ==
    \/ \E c \in Clients, k \in NodeKinds : RemoveCheck(c, k)
    \/ RemoveWrite
    \/ window = {} /\ Next /\ UNCHANGED window
    \/ Meanwhile

WSpec == WInit /\ [][WNext]_wvars
-----------------------------------------------------------------------------
\* The two locks are enough: although count_mutex_ is free between the check and
\* the write, nobody gets a handle on the child meanwhile, and the two steps are
\* together the one step of FileSystem. The entry that goes is the one that was
\* found, in a folder nobody has changed, and the counts would say "ok" again.
AtomicSpec == Spec
=============================================================================
