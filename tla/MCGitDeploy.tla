----------------------------- MODULE MCGitDeploy -----------------------------
(***************************************************************************)
(* Small instances of GitDeploy for TLC.  The budgets keep the shape of the *)
(* real ones (README, "Bounds"): each stretch between two writes of the    *)
(* lock's clock just fits the window, and the whole pipeline does not.     *)
(***************************************************************************)
EXTENDS GitDeploy, TLC

MCBudget ==
  [p \in TimedPhase |->
     IF p \in {"clone", "compose", "nixpacks", "build", "deploy", "monitor"} THEN 1 ELSE 0]

Interchangeable == Permutations(Task) \cup Permutations(Image)
=============================================================================
