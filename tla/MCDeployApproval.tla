-------------------------- MODULE MCDeployApproval --------------------------
(***************************************************************************)
(* Small instances of DeployApproval for TLC.  The administrators other    *)
(* than the owner are interchangeable, and so are the handlers.            *)
(***************************************************************************)
EXTENDS DeployApproval, TLC

Interchangeable == Permutations(Admin \ {Owner}) \cup Permutations(Handler)
=============================================================================
