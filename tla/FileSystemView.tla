---------------------------- MODULE FileSystemView ----------------------------
(***************************************************************************)
(* The tree of names that the blocks of a disk stand for, and FileSystem   *)
(* as an implementation of the tree its users see.                         *)
(***************************************************************************)
EXTENDS FileSystem

\* The path to each block of disk d, in a set that is empty for a block the root
\* does not lead to: the folder that lists it is the one it names as its parent.
PathsIn(d) ==
    LET way[b \in Blocks] ==
            IF b = FILE_ROOT THEN {<< >>}
            ELSE IF \/ d[b].kind \notin NodeKinds
                    \/ d[b].parent >= b
                    \/ \A i \in DOMAIN d[d[b].parent].ptrs : d[d[b].parent].ptrs[i] # b
            THEN {}
            ELSE {Append(p, d[b].name) : p \in way[d[b].parent]}
    IN  way

\* What a user sees at a place: the kind of the node, and a file's content.
Seen(d, b) == [kind |-> d[b].kind,
               content |-> IF d[b].kind = "file"
                           THEN [i \in DOMAIN d[b].ptrs |-> d[d[b].ptrs[i]].data] ELSE << >>]

TreeOf(d) ==
    LET paths == PathsIn(d)
    IN  [p \in UNION {paths[b] : b \in Blocks} |->
            Seen(d, CHOOSE b \in Blocks : p \in paths[b])]

\* The folder whose handle keeps the session where it is: in the middle of the
\* assignment of current_folder it is the local one.
Held(c) == IF pc[c] = "cdReleased" THEN tmp[c] ELSE cwd[c]

Tree == INSTANCE FileTree WITH
    tree <- IF intact THEN TreeOf(disk) ELSE [p \in {<< >>} |-> Seen(disk, FILE_ROOT)],
    at <- IF intact THEN [c \in Clients |-> PathsIn(disk)[Held(c)]] ELSE [c \in Clients |-> {<< >>}],
    open <- [c \in Clients |-> IF intact /\ pc[c] \in FileSteps THEN PathsIn(disk)[tmp[c]] ELSE {}],
    got <- IF intact THEN content ELSE [c \in Clients |-> << >>],
    sound <- intact

\* What the sessions see is one tree that only their own requests change, and each
\* only at the place it names: a block that two nodes share, a name taken out of
\* the wrong slot, or content that reaches another file would be a step that no
\* user asked for.
TreeSpec == Tree!TSpec
=============================================================================
