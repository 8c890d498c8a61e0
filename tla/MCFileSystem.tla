----------------------------- MODULE MCFileSystem -----------------------------
(***************************************************************************)
(* FileSystem for TLC: the symmetry of its sets of model values, and a     *)
(* bound for the runs whose properties speak of intact disks only.         *)
(***************************************************************************)
EXTENDS FileSystemView, TLC

\* No definition tells one client, name or payload from another.
Symmetry == Permutations(Clients) \cup Permutations(Names) \cup Permutations(Data)

\* A state in which the disk is not intact is checked, and not left.
WhileIntact == intact
=============================================================================
