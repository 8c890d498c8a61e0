------------------------------- MODULE FileTree -------------------------------
(***************************************************************************)
(* What the users of the file system see: one tree of names that all       *)
(* sessions work on, and where in it each of them is.                      *)
(*                                                                         *)
(* A session is cut off when somebody removes a folder above the one it is *)
(* in.  What it does then changes nothing that the others see, until it    *)
(* finds a way back up.  When the disk has lost its shape nothing is       *)
(* promised any more, up to the next format.                               *)
(***************************************************************************)
EXTENDS Integers, SequencesExt

CONSTANTS Clients, Names

VARIABLES
    tree,    \* from paths to nodes
    at,      \* the path to each session's folder, in a set; {} when it is cut off
    open,    \* the path to the file a session's command holds, or {}
    got,     \* the content it has read
    sound    \* the disk has its shape

tvars == <<tree, at, open, got, sound>>

Root == << >>
Folder == [kind |-> "folder", content |-> << >>]
File(s) == [kind |-> "file", content |-> s]
Empty == [p \in {Root} |-> Folder]
AtRoot == [c \in Clients |-> {Root}]
NoneOpen == [c \in Clients |-> {}]
NoneRead == [c \in Clients |-> << >>]

\* The paths that are left when the node at q is gone, with all below it
Without(q) == {p \in DOMAIN tree : ~IsPrefix(q, p)}
StillThere(ps, q) == {p \in ps : ~IsPrefix(q, p)}

-----------------------------------------------------------------------------
TInit == /\ tree = Empty
         /\ at = AtRoot
         /\ open = NoneOpen
         /\ got = NoneRead
         /\ sound = TRUE

Make(c) ==
    /\ sound' = sound /\ got' = got /\ open' = open
    /\ \E q \in DOMAIN tree' \ DOMAIN tree :
          /\ q # Root /\ Last(q) \in Names /\ Front(q) \in at[c]
          /\ \E node \in {Folder, File(<< >>)} :
                tree' = [p \in DOMAIN tree \cup {q} |-> IF p = q THEN node ELSE tree[p]]
    /\ at' = at

\* Nobody is in the folder or works on the file that goes; who is in a folder
\* below it is cut off.
Unlink(c) ==
    /\ sound' = sound /\ got' = got
    /\ \E q \in DOMAIN tree \ {Root} :
          /\ Front(q) \in at[c]
          /\ \A d \in Clients : q \notin at[d] \cup open[d]
          /\ open' = [d \in Clients |-> StillThere(open[d], q)]
          /\ tree' = [p \in Without(q) |-> tree[p]]
          /\ at' = [d \in Clients |-> StillThere(at[d], q)]

\* To the folder above, or to one below; from a folder that is cut off, to any.
Move(c) ==
    /\ sound' = sound /\ got' = got /\ open' = open
    /\ \E q \in at'[c] : /\ q \in DOMAIN tree /\ tree[q] = Folder
                         /\ \A p \in at[c] : q = p \/ (p # Root /\ q = Front(p)) \/ (q # Root /\ Front(q) = p)
                         /\ at' = [at EXCEPT ![c] = {q}]
    /\ tree' = tree

Leave(c) == /\ sound' = sound /\ got' = got /\ open' = open
            /\ at' = [at EXCEPT ![c] = {Root}]
            /\ tree' = tree

Open(c) ==
    /\ sound' = sound /\ got' = got
    /\ \E q \in open'[c] : /\ q \in DOMAIN tree /\ tree[q] # Folder /\ Front(q) \in at[c]
                           /\ open' = [open EXCEPT ![c] = {q}]
    /\ UNCHANGED <<tree, at>>

\* What is read is what the file holds.
Read(c) == /\ sound' = sound /\ open' = open
           /\ got' = [got EXCEPT ![c] = got'[c]]
           /\ \A p \in open[c] : got'[c] = tree[p].content
           /\ UNCHANGED <<tree, at>>

\* No other file, and no name, changes.
Write(c) ==
    /\ sound' = sound /\ got' = got /\ open' = open
    /\ \E p \in open[c] : tree' = [tree EXCEPT ![p] = File(tree'[p].content)]
    /\ at' = at

Close(c) == /\ sound' = sound
            /\ open' = [open EXCEPT ![c] = {}]
            /\ got' = [got EXCEPT ![c] = << >>]
            /\ UNCHANGED <<tree, at>>

\* The disk loses its shape, and a format of an idle file system gives it one.
Break == /\ sound' = FALSE
         /\ tree' = Empty /\ at' = AtRoot /\ open' = NoneOpen /\ got' = NoneRead

Format == /\ sound' = TRUE
          /\ sound => at = AtRoot /\ open = NoneOpen
          /\ tree' = Empty /\ at' = AtRoot /\ open' = NoneOpen /\ got' = NoneRead

TNext ==
    \/ \E c \in Clients : \/ Close(c) \/ Read(c) \/ Write(c) \/ Open(c)
                          \/ Leave(c) \/ Move(c) \/ Make(c) \/ Unlink(c)
    \/ Format \/ Break

TSpec == TInit /\ [][TNext]_tvars
=============================================================================
