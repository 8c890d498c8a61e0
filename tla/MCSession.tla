------------------------------- MODULE MCSession -------------------------------
(***************************************************************************)
(* Session for TLC: what the users of two clients type.  Between them they *)
(* type everything; what a client does meets the other only in data_mutex_ *)
(* and in the end of the process.                                          *)
(***************************************************************************)
EXTENDS Session, TLC

CONSTANTS c1, c2

TwoUsers == c1 :> {"cd", "ls", "mk", "d"} @@ c2 :> {"cat", "w", "i", "format"}
=============================================================================
