-------------------------- MODULE MCNotification --------------------------
(* Instances of Notification for TLC.                                      *)
EXTENDS Notification, TLC

\* The handlers tell neither slots nor users apart.
Symmetric == Permutations(Requests) \cup Permutations(Users)
=============================================================================
