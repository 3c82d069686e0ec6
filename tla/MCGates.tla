------------------------------ MODULE MCGates ------------------------------
(***************************************************************************)
(* A small instance of Gates for TLC: two commits, and edits enough to     *)
(* sign a record and to break it once more.                                *)
(***************************************************************************)
EXTENDS Gates

CONSTANTS c1, c2

MCSha == <<c1, c2>>
=============================================================================
