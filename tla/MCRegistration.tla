--------------------------- MODULE MCRegistration ---------------------------
(* Instances of Registration for TLC: one email contested by two requests. *)
EXTENDS Registration, TLC

\* Neither the slots nor the passwords are told apart by the handlers.
Symmetric == Permutations(Requests) \cup Permutations(Passwords)
=============================================================================
