---------------------------- MODULE MCArtifacts ----------------------------
(***************************************************************************)
(* A small instance of Artifacts for TLC: two runs, an input file that is  *)
(* one of two whole captures, a cut one or a corrupt one, and one          *)
(* replacement of it at any moment.                                        *)
(*                                                                         *)
(* Neither the runs nor the two whole captures differ in anything but      *)
(* their names.  Symmetry sets would not be sound for termination, so the  *)
(* names are fixed by the order of use: every behaviour left out is one    *)
(* that is kept, with r1 and r2 or v1 and v2 exchanged.  Starting a run    *)
(* and replacing the input are the only steps left out, and neither is     *)
(* one that fairness demands.                                              *)
(***************************************************************************)
EXTENDS Artifacts

CONSTANTS r1, r2, v1, v2, cut, bent

MCRun == {r1, r2}
MCVersion == {v1, v2, cut, bent}
MCQuality == [v \in MCVersion |-> CASE v = cut   -> "truncated"
                                    [] v = bent  -> "corrupt"
                                    [] OTHER     -> "intact"]

\* r1 is the run that starts first; v2 is what replaces v1.
MCInitialInput == changes = 0 => input # v2
MCFirstNames ==
  /\ step'[r2] > 0 => step'[r1] > 0
  /\ changes' > changes /\ input' = v2 => input = v1
=============================================================================
