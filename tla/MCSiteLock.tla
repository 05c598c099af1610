---------------------------- MODULE MCSiteLock ----------------------------
(* A small host: three domains, on one of which an app is exposed with a   *)
(* certificate to obtain, a git deployment and a volume.                   *)
EXTENDS SiteLock, TLC

CONSTANTS r1, r2, r3
SomeDomains == {3, 4, 5}
SomeDeploys == {1}
SomeVolumes == {2}
SomeFresh == {5}
Symmetry == Permutations(Requests)
=============================================================================
