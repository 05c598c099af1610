---------------------------- MODULE MCSiteFiles ----------------------------
(* A production site and its staging copy.                                 *)
EXTENDS SiteFiles, TLC

CONSTANTS r1, r2, r3
TwoSites == {3, 4}
Symmetry == Permutations(Requests)
=============================================================================
