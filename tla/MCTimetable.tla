----------------------------- MODULE MCTimetable -----------------------------
(* Instances of Timetable for TLC.                                         *)
EXTENDS Timetable, TLC
CONSTANTS maths, physics, ann, mon

Class(c) == [course |-> c, teacher |-> ann, slot |-> mon]
Unassigned(c) == [course |-> c, teacher |-> Null, slot |-> mon]

\* Two classes of one teacher at one time, and a third one whose teacher is unknown.
SheetsMC == {<<Class(maths), Class(physics), Unassigned(maths)>>}
AdditionsMC == {<<Class(physics)>>}
EditsMC == {<<>>}
\* One custodian for each department.
AccessesMC == {[level |-> "custodian", departmentId |-> d, departmentIds |-> {}] : d \in Departments}

\* The handlers do not tell slots apart.
Symmetric == Permutations(Requests)
=============================================================================
