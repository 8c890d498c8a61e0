-------------------------- MODULE MCCrashFileSystem --------------------------
(***************************************************************************)
(* CrashFileSystem for TLC: the symmetry of its sets of model values.      *)
(***************************************************************************)
EXTENDS CrashFileSystem, TLC

\* No definition tells one client, name or payload from another.
Symmetry == Permutations(Clients) \cup Permutations(Names) \cup Permutations(Data)
=============================================================================
