------------------------------- MODULE MCLogin ------------------------------
(***************************************************************************)
(* The screen savers and keys of the run of Login.                         *)
(***************************************************************************)
EXTENDS Login, TLC

CONSTANTS k1, k2, cinnamon, freedesktop

TwoKeys   == {k1, k2}
TwoSavers == {cinnamon, freedesktop}
Symmetry  == Permutations(TwoKeys) \cup Permutations(TwoSavers)
=============================================================================
