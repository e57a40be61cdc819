---------------------------- MODULE AccessControl ----------------------------
(***************************************************************************)
(* Who may approve and manage which accounts: the pure functions of        *)
(* src/src/common/utils/access-control.util.ts.                            *)
(***************************************************************************)
EXTENDS Naturals

\* enum AccessLevel; an account without access has none of them.
Level == {"super", "supreme", "head", "multi", "custodian"}

\* The levels one may apply for (createPendingAccount).
Requestable == {"supreme", "head", "custodian"}

\* The levels @RequireAccessLevel lets decide an application.
Deciders == {"super", "supreme", "head"}

Rank(level) ==
    CASE level = "super"     -> 4
      [] level = "supreme"   -> 3
      [] level = "head"      -> 2
      [] level = "custodian" -> 1
      [] OTHER               -> 0

CanApprove(approver, target) == approver \in Level /\ Rank(approver) > Rank(target)

CanManageAccount(manager, target) ==
    \/ manager = "super"
    \/ manager = "supreme" /\ target # "super"
    \/ manager = "head" /\ target = "custodian"
=============================================================================
