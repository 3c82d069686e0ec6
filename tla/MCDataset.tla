----------------------------- MODULE MCDataset -----------------------------
(***************************************************************************)
(* A small instance of Dataset for TLC: three runs, a source that delivers *)
(* the recorded capture, a substituted one or a shortened one, and slices  *)
(* that tell them apart.                                                   *)
(***************************************************************************)
EXTENDS Dataset

CONSTANTS r1, r2, r3, recorded, substituted, short, good, bad

MCFetch == {r1, r2, r3}
MCContent == {recorded, substituted, short}
MCSlice == {good, bad}
MCCutFrom == [c \in MCContent |-> IF c = recorded THEN good ELSE bad]
=============================================================================
