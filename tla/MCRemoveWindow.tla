---------------------------- MODULE MCRemoveWindow ----------------------------
(***************************************************************************)
(* RemoveWindow for TLC, with the symmetry and the bound of MCFileSystem.  *)
(***************************************************************************)
EXTENDS MCFileSystem, RemoveWindow
=============================================================================
