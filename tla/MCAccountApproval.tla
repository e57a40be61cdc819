------------------------- MODULE MCAccountApproval -------------------------
(* Instances of AccountApproval for TLC.                                   *)
EXTENDS AccountApproval, TLC

\* The handlers do not tell the slots apart.
Symmetric == Permutations(Requests)
=============================================================================
