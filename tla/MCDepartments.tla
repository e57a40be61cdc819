---------------------------- MODULE MCDepartments ----------------------------
(* Instances of Departments for TLC.                                       *)
EXTENDS Departments, TLC

CleanupsMC == {Category}
TargetsMC == {{"all"}, Departments} \cup {{d} : d \in Departments}
ScopesMC == {None, {}} \cup {{d} : d \in Departments}
AccessesMC == {[level |-> "super", departmentId |-> Null, departmentIds |-> {}]}

\* The handlers tell neither slots nor departments apart.
Symmetric == Permutations(Requests) \cup Permutations(Departments)
=============================================================================
