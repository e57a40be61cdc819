-------------------------- MODULE DepartmentAccess --------------------------
(***************************************************************************)
(* Whom the controllers let do what: the guards of src/src/common/guards,  *)
(* the department check of access-control.util.ts and the routes of        *)
(* UserController.  An access is what the token of a request carries:      *)
(* [level, departmentId, departmentIds].                                   *)
(***************************************************************************)
EXTENDS AccessControl

\* The absent value of a column or of a claim of the token.
Null == "null"

\* getDepartmentIds: the list, where there is one, hides the single department.
DepartmentIds(access) ==
    IF access.departmentIds # {} THEN access.departmentIds
    ELSE {access.departmentId} \ {Null}

\* validateDepartmentAccess does not throw.
MayUse(access, d) == access.level = "super" \/ d \in DepartmentIds(access)

\* DepartmentAccessGuard lets a request through; d is what the request names as
\* its department, Null when it names none.
DepartmentGuard(access, d) ==
    \/ access.level = "super"
    \/ d # Null /\ d \in DepartmentIds(access)

\* AccessLevelGuard under @RequireAccessLevel(...required).
LevelGuard(access, required) ==
    required # {} => access.level # Null /\ access.level \in required

-----------------------------------------------------------------------------
(* The routes of UserController.                                           *)

Managers == {"super", "supreme", "head"}

MayCreateAccount(access, level) ==
    /\ LevelGuard(access, Managers)
    /\ CanManageAccount(access.level, level)
    /\ ~(access.level = "head" /\ level = "head")

\* An update that gives a level is judged by that level, any other one by the
\* level the account has.
MayUpdateAccount(access, current, level) ==
    /\ LevelGuard(access, Managers)
    /\ IF level # Null THEN CanManageAccount(access.level, level)
       ELSE current # Null /\ CanManageAccount(access.level, current)

MayDeleteAccount(access, current) ==
    /\ LevelGuard(access, Managers)
    /\ current # Null
    /\ CanManageAccount(access.level, current)

MayChangePassword(access, current) ==
    /\ LevelGuard(access, Managers)
    /\ current # Null
    /\ CanManageAccount(access.level, current)

MayRepairAccount(access) == LevelGuard(access, {"super", "supreme"})

\* getAdminAccounts, behind the guard of its route: is an account listed?
Lists(access, account) ==
    /\ LevelGuard(access, Managers \cup {"custodian"})
    /\ account.level # Null
    /\ \/ access.level = "super"
       \/ access.level = "supreme" /\ account.level # "super"
       \/ /\ access.level = "head"
          /\ account.level = "custodian"
          /\ access.departmentId # Null
          /\ account.departmentId = access.departmentId

-----------------------------------------------------------------------------
(* getAnnouncements                                                        *)

\* Is an announcement with these targets listed for a request that names a
\* department, or Null?
Shows(access, d, targets) ==
    LET asked == IF d # Null THEN {d} ELSE DepartmentIds(access)
    IN \/ "all" \in targets
       \/ IF asked = {} THEN targets # {} ELSE asked \cap targets # {}
=============================================================================
