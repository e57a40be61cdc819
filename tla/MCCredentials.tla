--------------------------- MODULE MCCredentials ---------------------------
(* Instances of Credentials for TLC: two requests, and accounts that are   *)
(* created, renamed and deleted around two emails.                         *)
EXTENDS Credentials, TLC

\* The handlers tell neither slots nor emails nor passwords apart.
Symmetric == Permutations(Requests) \cup Permutations(Emails) \cup Permutations(Passwords)
=============================================================================
