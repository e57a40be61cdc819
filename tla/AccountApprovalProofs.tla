----------------------- MODULE AccountApprovalProofs -----------------------
(***************************************************************************)
(* The safety of account approval for any number of emails, concurrent     *)
(* requests, accounts, applications and restarts.                          *)
(*                                                                         *)
(* Three inductive invariants, each resting on the one before: what a      *)
(* request holds has its type (Typing); the accounts held in memory are    *)
(* those of the table or were (Rows); and what is held was decided by      *)
(* somebody entitled (Decided).  Orphans says of which applications the    *)
(* account went before it was written.  SoloInv follows the one request    *)
(* in flight as long as requests do not overlap; Settled, that what is     *)
(* saved is decided, makes decisions final.                                *)
(***************************************************************************)
EXTENDS AccountApproval, TLAPS

\* The labels at which a request holds an account it is about to save, those
\* at which its application is being approved, and those at which the
\* application is saved as decided.
Holds == {"saveUser", "writeUser", "reinsertUser"}
Approving == Holds \cup {"approveFindUser", "insertUser"}
Saving == {"save", "saveWrite", "saveInsert"}

Typed(q) ==
    /\ q \in Request
    /\ q.at # "idle" => q.app \in Application
    /\ q.at \in Holds => q.user \in Account

Typing == TypeOK /\ \A r \in Requests : Typed(req[r])

-----------------------------------------------------------------------------
(* The permission functions.                                               *)

\* Approving is a strict order on the levels: nobody approves an application
\* for a level of their own rank or above, and there are no cycles of
\* approvers (canApprove).
THEOREM ApprovalOrder ==
    /\ \A a \in Level : ~CanApprove(a, a)
    /\ \A a, b, c \in Level : CanApprove(a, b) /\ CanApprove(b, c) => CanApprove(a, c)
<1>1. \A a \in Level : Rank(a) \in Nat
  BY DEF Level, Rank
<1>2. QED
  BY <1>1 DEF CanApprove

\* Whoever may approve an application may manage the account it opens, and
\* every application can be decided by somebody the guard lets in
\* (canApprove against canManageAccount).
THEOREM ApproverManages ==
    \A target \in Requestable :
        /\ \A by \in Level : CanApprove(by, target) => CanManageAccount(by, target)
        /\ \E by \in Deciders : CanApprove(by, target)
<1>1. \A by \in Level, target \in Requestable :
          CanApprove(by, target) => CanManageAccount(by, target)
  BY DEF Level, Requestable, Rank, CanApprove, CanManageAccount
<1>2. \A target \in Requestable : CanApprove("super", target)
  BY DEF Level, Requestable, Rank, CanApprove
<1>3. QED
  BY <1>1, <1>2 DEF Deciders

-----------------------------------------------------------------------------
(* Types.                                                                  *)

LEMMA Levels == Deciders \subseteq Level /\ Requestable \subseteq Level
  BY DEF Deciders, Requestable, Level

\* A slot without a request has its type.
LEMMA IdleType == Typed(Idle)
  BY DEF Typed, Idle, Holding, Request, Label, LevelOrNone, Holds

\* What a handler starts with has its type.
LEMMA HoldingType ==
    ASSUME NEW label \in Label \ Holds, NEW by \in LevelOrNone, NEW a \in Application
    PROVE  Typed(Holding(label, by, a, None))
  BY DEF Typed, Holding, Request

\* A decided application is an application.
LEMMA DecidedType ==
    ASSUME NEW a \in Application, NEW by \in LevelOrNone
    PROVE  Approved(a, by) \in Application /\ Rejected(a, by) \in Application
  BY DEF Approved, Rejected, Application

\* Only the slot that took the step has to be looked at.
LEMMA TypedStep ==
    ASSUME Typing, NEW r \in Requests, NEW q, Typed(q), req' = [req EXCEPT ![r] = q],
           users' \subseteq Account, applications' \subseteq Application,
           created' \in 0 .. MaxAccounts, filed' \in 0 .. MaxApplications,
           crashes' \in 0 .. MaxCrashes,
           granted' \subseteq [email : Emails, level : Level],
           given' \subseteq AppIds, orphaned' \subseteq AppIds, disturbed' \in BOOLEAN
    PROVE  Typing'
<1>1. /\ req' \in [Requests -> Request]
      /\ req'[r] = q
      /\ \A p \in Requests \ {r} : req'[p] = req[p]
  BY DEF Typing, TypeOK, Typed
<1>2. \A p \in Requests : Typed(req'[p])
  BY <1>1 DEF Typing
<1>3. QED
  BY <1>1, <1>2 DEF Typing, TypeOK

\* A request moved to another label keeps its type.
LEMMA MovedType ==
    ASSUME Typing, NEW r \in Requests, req[r].at # "idle", NEW label \in Label,
           label \in Holds => req[r].at \in Holds
    PROVE  Typed([req[r] EXCEPT !.at = label])
<1>1. Typed(req[r])
  BY DEF Typing
<1>2. QED
  BY <1>1 DEF Typed, Request

\* The application is saved next.
LEMMA ToSaveType ==
    ASSUME Typing, NEW r \in Requests, NEW a \in Application
    PROVE  Typed(ToSave(r, a))
<1>1. Typed(req[r])
  BY DEF Typing
<1>2. QED
  BY <1>1 DEF Typed, Request, ToSave, Label, Holds

LEMMA TypingApply ==
    ASSUME Typing, NEW r \in Requests,
           \/ \E e \in Emails, level \in Requestable : ApplyFindUser(r, e, level)
           \/ ApplyFindPending(r) \/ ApplyInsert(r)
    PROVE  Typing'
<1>0. TypeOK /\ Typed(req[r]) /\ Typed(Idle)
  BY IdleType DEF Typing
<1>1. CASE \E e \in Emails, level \in Requestable : ApplyFindUser(r, e, level)
  <2>1. PICK e \in Emails, level \in Requestable : ApplyFindUser(r, e, level)
    BY <1>1
  <2>2. Applied(e, level) \in Application
    BY ApprovalAssumption DEF Applied, Application, AppIds, LevelOrNone
  <2>3. Typed(Holding("applyFind", None, Applied(e, level), None))
    BY <2>2, HoldingType DEF Label, Holds, LevelOrNone
  <2>4. QED
    BY <1>0, <2>1, <2>3, TypedStep DEF ApplyFindUser, Arrive, TypeOK
<1>2. CASE ApplyFindPending(r)
  <2>1. Typed([req[r] EXCEPT !.at = "applyInsert"])
    BY <1>2, MovedType DEF ApplyFindPending, Label, Holds
  <2>2. req' = [req EXCEPT ![r] = [req[r] EXCEPT !.at = "applyInsert"]]
           \/ req' = [req EXCEPT ![r] = Idle]
    BY <1>2 DEF ApplyFindPending, Goto, Answer
  <2>3. QED
    BY <1>0, <1>2, <2>1, <2>2, TypedStep DEF ApplyFindPending, TypeOK, history
<1>3. CASE ApplyInsert(r)
  <2>1. req[r].app \in Application
    BY <1>0, <1>3 DEF ApplyInsert, Typed
  <2>2. filed < MaxApplications => /\ filed + 1 \in 0 .. MaxApplications
                                   /\ [req[r].app EXCEPT !.id = filed + 1] \in Application
    BY <1>0, <2>1, ApprovalAssumption DEF TypeOK, Application, AppIds
  <2>3. filed' \in 0 .. MaxApplications /\ applications' \subseteq Application
    BY <1>0, <1>3, <2>2 DEF ApplyInsert, TypeOK
  <2>4. QED
    BY <1>0, <1>3, <2>3, TypedStep DEF ApplyInsert, Answer, TypeOK, history
<1>4. QED
  BY <1>1, <1>2, <1>3

LEMMA TypingDecide ==
    ASSUME Typing, NEW r \in Requests, NEW a \in applications, NEW by \in Deciders,
           ApproveFind(r, a, by) \/ RejectFind(r, a, by)
    PROVE  Typing'
<1>0. TypeOK /\ a \in Application /\ by \in LevelOrNone
  BY Levels DEF Typing, TypeOK, LevelOrNone
<1>1. CASE ApproveFind(r, a, by)
  <2>1. Typed(Holding("approveFindUser", by, a, None))
    BY <1>0, HoldingType DEF Label, Holds
  <2>2. [email |-> a.email, level |-> a.level] \in [email : Emails, level : Level]
    BY <1>0, Levels DEF Application
  <2>3. QED
    BY <1>0, <1>1, <2>1, <2>2, TypedStep DEF ApproveFind, Arrive, TypeOK
<1>2. CASE RejectFind(r, a, by)
  <2>1. Typed(Holding("save", by, Rejected(a, by), None))
    BY <1>0, DecidedType, HoldingType DEF Label, Holds
  <2>2. QED
    BY <1>0, <1>2, <2>1, TypedStep DEF RejectFind, Arrive, TypeOK
<1>3. QED
  BY <1>1, <1>2

\* The account that is saved, its level included, is an account.
LEMMA TypingFindUser ==
    ASSUME Typing, NEW r \in Requests, ApproveFindUser(r) \/ SaveUserSelect(r)
    PROVE  Typing'
<1>0. TypeOK /\ Typed(req[r])
  BY DEF Typing
<1>1. \E q : Typed(q) /\ req' = [req EXCEPT ![r] = q]
  <2>1. CASE ApproveFindUser(r)
    <3>1. CASE Goto(r, "insertUser")
      <4>1. Typed([req[r] EXCEPT !.at = "insertUser"])
        BY <2>1, MovedType DEF ApproveFindUser, Label, Holds
      <4>2. QED
        BY <3>1, <4>1 DEF Goto
    <3>2. ASSUME NEW u \in AccountsOf(req[r].app.email),
                 req' = [req EXCEPT ![r].at = "saveUser",
                                    ![r].user = [u EXCEPT !.level = req[r].app.level,
                                                          !.approvedBy = req[r].by]]
          PROVE  \E q : Typed(q) /\ req' = [req EXCEPT ![r] = q]
      <4> DEFINE v == [u EXCEPT !.level = req[r].app.level, !.approvedBy = req[r].by]
      <4> DEFINE q == [req[r] EXCEPT !.at = "saveUser", !.user = v]
      <4>1. req[r].app \in Application /\ req[r] \in Request
        BY <1>0, <2>1 DEF ApproveFindUser, Typed
      <4>2. u \in Account
        BY <1>0, <3>2 DEF TypeOK, AccountsOf
      <4>3. v \in Account
        BY <4>1, <4>2, Levels DEF Account, Application, Request, LevelOrNone
      <4>4. Typed(q)
        BY <4>1, <4>3 DEF Typed, Request, Label, Holds
      <4>5. req' = [req EXCEPT ![r] = q]
        BY <1>0, <3>2 DEF TypeOK, Request
      <4>6. QED
        BY <4>4, <4>5
    <3>3. QED
      BY <2>1, <3>1, <3>2 DEF ApproveFindUser
  <2>2. CASE SaveUserSelect(r)
    <3>1. CASE Goto(r, "reinsertUser")
      <4>1. Typed([req[r] EXCEPT !.at = "reinsertUser"])
        BY <2>2, MovedType DEF SaveUserSelect, Label, Holds
      <4>2. QED
        BY <3>1, <4>1 DEF Goto
    <3>2. ASSUME NEW u \in WithId(req[r].user.id),
                 req' = [req EXCEPT ![r].at = "writeUser",
                                    ![r].dirty = Differs(AccountColumns, req[r].user, u)]
          PROVE  \E q : Typed(q) /\ req' = [req EXCEPT ![r] = q]
      <4> DEFINE d == Differs(AccountColumns, req[r].user, u)
      <4> DEFINE q == [req[r] EXCEPT !.at = "writeUser", !.dirty = d]
      <4>1. req[r].app \in Application /\ req[r] \in Request /\ req[r].user \in Account
        BY <1>0, <2>2 DEF SaveUserSelect, Typed, Holds
      <4>2. d \in SUBSET (AccountColumns \cup DecisionColumns)
        BY DEF Differs
      <4> HIDE DEF d
      <4>3. Typed(q)
        BY <4>1, <4>2 DEF Typed, Request, Label, Holds
      <4>4. req' = [req EXCEPT ![r] = q]
        BY <1>0, <3>2 DEF TypeOK, Request, d
      <4>5. QED
        BY <4>3, <4>4
    <3>3. QED
      BY <2>2, <3>1, <3>2 DEF SaveUserSelect
  <2>3. QED
    BY <2>1, <2>2
<1>2. QED
  BY <1>0, <1>1, TypedStep DEF ApproveFindUser, SaveUserSelect, TypeOK, history

\* An account written over by an entity is an account.
LEMMA OverwriteType ==
    ASSUME NEW u \in Account, NEW v \in Account, NEW cols
    PROVE  /\ OverwriteAccount(u, v, cols) \in Account
           /\ OverwriteAccount(u, v, cols).id = u.id
           /\ OverwriteAccount(u, v, cols).email = u.email
           /\ OverwriteAccount(u, v, cols).level \in {u.level, v.level}
  BY DEF OverwriteAccount, Account

LEMMA OverwriteAppType ==
    ASSUME NEW a \in Application, NEW b \in Application, NEW cols
    PROVE  /\ OverwriteApplication(a, b, cols) \in Application
           /\ OverwriteApplication(a, b, cols).id = a.id
           /\ OverwriteApplication(a, b, cols).email = a.email
           /\ OverwriteApplication(a, b, cols).status \in {a.status, b.status}
  BY DEF OverwriteApplication, Application

\* Giving leads to the save of the approved application.
LEMMA GiveType ==
    ASSUME Typing, NEW r \in Requests, req[r].at # "idle",
           Give(r) \/ (GoApprove(r) /\ UNCHANGED given)
    PROVE  /\ \E q : Typed(q) /\ req' = [req EXCEPT ![r] = q]
           /\ given' \subseteq AppIds
<1>1. req[r].app \in Application /\ req[r].by \in LevelOrNone /\ TypeOK
  BY DEF Typing, Typed, Request
<1>2. Approved(req[r].app, req[r].by) \in Application
  BY <1>1, DecidedType
<1>3. Typed(ToSave(r, Approved(req[r].app, req[r].by)))
  BY <1>2, ToSaveType
<1>4. req[r].app.id \in AppIds
  BY <1>1 DEF Application
<1>5. QED
  BY <1>1, <1>3, <1>4 DEF Give, GoApprove, TypeOK

LEMMA TypingGive ==
    ASSUME Typing, NEW r \in Requests, WriteUser(r) \/ ReinsertUser(r) \/ InsertUser(r)
    PROVE  Typing'
<1>0. TypeOK /\ Typed(req[r]) /\ Typed(Idle)
  BY IdleType DEF Typing
<1>1. CASE WriteUser(r)
  <2>1. req[r].user \in Account /\ req[r].at # "idle"
    BY <1>0, <1>1 DEF WriteUser, Typed, Holds
  <2>2. users' \subseteq Account
    BY <1>0, <1>1, <2>1, OverwriteType DEF WriteUser, TypeOK
  <2>3. (\E q : Typed(q) /\ req' = [req EXCEPT ![r] = q]) /\ given' \subseteq AppIds
    BY <1>1, <2>1, GiveType DEF WriteUser
  <2>4. QED
    BY <1>0, <1>1, <2>2, <2>3, TypedStep DEF WriteUser, TypeOK
<1>2. CASE ReinsertUser(r)
  <2>1. req[r].user \in Account /\ req[r].at # "idle"
    BY <1>0, <1>2 DEF ReinsertUser, Typed, Holds
  <2>2. users' \subseteq Account
    BY <1>0, <1>2, <2>1 DEF ReinsertUser, TypeOK
  <2>3. (\E q : Typed(q) /\ req' = [req EXCEPT ![r] = q]) /\ given' \subseteq AppIds
    BY <1>0, <1>2, <2>1, GiveType DEF ReinsertUser, Answer, TypeOK
  <2>4. QED
    BY <1>0, <1>2, <2>2, <2>3, TypedStep DEF ReinsertUser, TypeOK
<1>3. CASE InsertUser(r)
  <2>1. /\ req[r].at # "idle"
        /\ req[r].app.email \in Emails
        /\ req[r].app.level \in LevelOrNone
        /\ req[r].by \in LevelOrNone
    BY <1>0, <1>3, Levels DEF InsertUser, Typed, Application, Request, LevelOrNone
  <2>2. users' \subseteq Account /\ created' \in 0 .. MaxAccounts
    BY <1>0, <1>3, <2>1, ApprovalAssumption DEF InsertUser, Insert, TypeOK, Account, Ids
  <2>3. (\E q : Typed(q) /\ req' = [req EXCEPT ![r] = q]) /\ given' \subseteq AppIds
    BY <1>0, <1>3, <2>1, GiveType DEF InsertUser, Answer, TypeOK
  <2>4. QED
    BY <1>0, <1>3, <2>2, <2>3, TypedStep DEF InsertUser, TypeOK
<1>4. QED
  BY <1>1, <1>2, <1>3

LEMMA TypingSave ==
    ASSUME Typing, NEW r \in Requests, SaveSelect(r) \/ SaveWrite(r) \/ SaveInsert(r)
    PROVE  Typing'
<1>0. TypeOK /\ Typed(req[r]) /\ Typed(Idle)
  BY IdleType DEF Typing
<1>a. req[r].app \in Application /\ req[r] \in Request
  BY <1>0 DEF SaveSelect, SaveWrite, SaveInsert, Typed
<1>1. CASE SaveSelect(r)
  <2>1. \E q : Typed(q) /\ req' = [req EXCEPT ![r] = q]
    <3>1. CASE Goto(r, "saveInsert")
      <4>1. Typed([req[r] EXCEPT !.at = "saveInsert"])
        BY <1>1, MovedType DEF SaveSelect, Label, Holds
      <4>2. QED
        BY <3>1, <4>1 DEF Goto
    <3>2. ASSUME NEW a \in AppWithId(req[r].app.id),
                 req' = [req EXCEPT ![r].at = "saveWrite",
                                    ![r].dirty = Differs(DecisionColumns, req[r].app, a)]
          PROVE  \E q : Typed(q) /\ req' = [req EXCEPT ![r] = q]
      <4> DEFINE d == Differs(DecisionColumns, req[r].app, a)
      <4> DEFINE q == [req[r] EXCEPT !.at = "saveWrite", !.dirty = d]
      <4>1. d \in SUBSET (AccountColumns \cup DecisionColumns)
        BY DEF Differs
      <4> HIDE DEF d
      <4>2. Typed(q)
        BY <1>a, <4>1 DEF Typed, Request, Label, Holds
      <4>3. req' = [req EXCEPT ![r] = q]
        BY <1>0, <3>2 DEF TypeOK, Request, d
      <4>4. QED
        BY <4>2, <4>3
    <3>3. QED
      BY <1>1, <3>1, <3>2 DEF SaveSelect
  <2>2. QED
    BY <1>0, <1>1, <2>1, TypedStep DEF SaveSelect, TypeOK, history
<1>2. CASE SaveWrite(r)
  <2>1. applications' \subseteq Application
    BY <1>0, <1>a, <1>2, OverwriteAppType DEF SaveWrite, TypeOK
  <2>2. QED
    BY <1>0, <1>2, <2>1, TypedStep DEF SaveWrite, Answer, TypeOK, history
<1>3. CASE SaveInsert(r)
  <2>1. applications' \subseteq Application
    BY <1>0, <1>a, <1>3 DEF SaveInsert, TypeOK
  <2>2. QED
    BY <1>0, <1>3, <2>1, TypedStep DEF SaveInsert, Answer, TypeOK, history
<1>4. QED
  BY <1>1, <1>2, <1>3

\* Writers of accounts elsewhere, the cleaning and a restart hold nothing.
LEMMA TypingWorld ==
    ASSUME Typing, Elsewhere \/ Crash
    PROVE  Typing'
<1>0. TypeOK
  BY DEF Typing
<1>1. ASSUME NEW e \in Emails, NEW level \in AdminLevels \cup {None},
             AccountMadeElsewhere(e, level)
      PROVE  Typing'
  <2>1. level \in LevelOrNone /\ None \in LevelOrNone
    BY ApprovalAssumption DEF LevelOrNone
  <2>2. users' \subseteq Account /\ created' \in 0 .. MaxAccounts
    BY <1>0, <1>1, <2>1, ApprovalAssumption
       DEF AccountMadeElsewhere, Insert, TypeOK, Account, Ids
  <2>3. granted' \subseteq [email : Emails, level : Level]
    BY <1>0, <1>1, ApprovalAssumption DEF AccountMadeElsewhere, TypeOK
  <2>4. QED
    BY <1>1, <2>2, <2>3 DEF AccountMadeElsewhere, Typing, TypeOK
<1>2. ASSUME NEW u \in users, NEW level \in AdminLevels, LevelSetElsewhere(u, level)
      PROVE  Typing'
  <2>1. level \in Level
    BY ApprovalAssumption
  <2>2. \A v \in users : [v EXCEPT !.level = level] \in Account
    BY <1>0, <2>1 DEF TypeOK, Account, LevelOrNone
  <2>3. users' \subseteq Account
    BY <1>0, <1>2, <2>2 DEF LevelSetElsewhere, TypeOK
  <2>4. [email |-> u.email, level |-> level] \in [email : Emails, level : Level]
    BY <1>0, <2>1 DEF TypeOK, Account
  <2>5. QED
    BY <1>2, <2>3, <2>4 DEF LevelSetElsewhere, Typing, TypeOK
<1>3. ASSUME NEW u \in users, AccountDeleted(u) PROVE Typing'
  <2>1. ASSUME NEW q \in Requests, req[q].at = "writeUser" PROVE req[q].app.id \in AppIds
    BY <2>1 DEF Typing, Typed, Application
  <2>2. orphaned' \subseteq AppIds
    BY <1>0, <1>3, <2>1 DEF AccountDeleted, TypeOK
  <2>3. QED
    BY <1>3, <2>2 DEF AccountDeleted, Typing, TypeOK
<1>4. CASE Cleaned
  BY <1>4 DEF Cleaned, Typing, TypeOK, history
<1>5. CASE Crash
  BY <1>5, IdleType, ApprovalAssumption DEF Crash, Typing, TypeOK, Typed
<1>6. QED
  BY <1>1, <1>2, <1>3, <1>4, <1>5 DEF Elsewhere

LEMMA TypingInit == Init => Typing
<1> SUFFICES ASSUME Init PROVE Typing
  OBVIOUS
<1>1. \A r \in Requests : req[r] = Idle
  BY DEF Init
<1>2. Idle \in Request
  BY IdleType DEF Typed
<1>3. req \in [Requests -> Request]
  BY <1>2 DEF Init
<1>4. \A r \in Requests : Typed(req[r])
  BY <1>1, IdleType
<1>5. TypeOK
  <2>1. users = {} /\ applications = {} /\ granted = {} /\ given = {} /\ orphaned = {} /\ disturbed = FALSE
    BY DEF Init
  <2>2. created \in 0 .. MaxAccounts /\ filed \in 0 .. MaxApplications
        /\ crashes \in 0 .. MaxCrashes
    BY ApprovalAssumption DEF Init
  <2>3. QED
    BY <1>3, <2>1, <2>2 DEF TypeOK
<1>6. QED
  BY <1>4, <1>5 DEF Typing

LEMMA TypingNext == Typing /\ [Next]_vars => Typing'
<1>1. ASSUME Typing, NEW r \in Requests, Client(r) PROVE Typing'
  BY <1>1, TypingApply, TypingDecide DEF Client
<1>2. ASSUME Typing, NEW r \in Requests, Step(r) PROVE Typing'
  BY <1>2, TypingApply, TypingFindUser, TypingGive, TypingSave DEF Step
<1>3. CASE UNCHANGED vars
  BY <1>3 DEF vars, history, Typing, TypeOK
<1>4. QED
  BY <1>1, <1>2, <1>3, TypingWorld DEF Next

\* The tables and requests of account approval keep their types: whatever
\* late saves bring back is an account or an application.
THEOREM TypeCorrect == Spec => []TypeOK
<1>1. Spec => []Typing
  BY TypingInit, TypingNext, PTL DEF Spec
<1>2. Typing => TypeOK
  BY DEF Typing
<1>3. QED
  BY <1>1, <1>2, PTL

-----------------------------------------------------------------------------
(* Rows stay unique.                                                       *)

\* The accounts that are or were in the table, as far as anybody knows them.
Held == {req[r].user : r \in {p \in Requests : req[p].at \in Holds}}
Known == users \cup Held

\* Known accounts have different emails only if they have different ids, so a
\* late save writes the account it was read from.
Grounded ==
    /\ \A u \in Known : u.id <= created
    /\ \A u, v \in Known : u.id = v.id => u.email = v.email

Rows ==
    /\ UniqueRows
    /\ Grounded
    /\ \A a \in applications : a.id <= filed
    /\ \A r \in Requests : req[r].at # "idle" => req[r].app.id <= filed

\* Nothing new is known: every known account was known, up to its access.
LEMMA KnownStays ==
    ASSUME Grounded, NEW r \in Requests,
           \A p \in Requests \ {r} : req'[p] = req[p],
           \A u \in users' : \E v \in Known : u.id = v.id /\ u.email = v.email,
           req'[r].at \in Holds =>
               \E v \in Known : req'[r].user.id = v.id /\ req'[r].user.email = v.email,
           created' = created
    PROVE  Grounded'
<1>1. \A p \in Requests : req'[p].at \in Holds =>
          \E v \in Known : req'[p].user.id = v.id /\ req'[p].user.email = v.email
  BY DEF Known, Held
<1>2. \A u \in Known' : \E v \in Known : u.id = v.id /\ u.email = v.email
  BY <1>1 DEF Known, Held
<1>3. \A u \in Known' : u.id <= created'
  BY <1>2 DEF Grounded
<1>4. \A u, v \in Known' : u.id = v.id => u.email = v.email
  <2>1. TAKE u, v \in Known'
  <2>2. PICK u0 \in Known : u.id = u0.id /\ u.email = u0.email
    BY <1>2
  <2>3. PICK v0 \in Known : v.id = v0.id /\ v.email = v0.email
    BY <1>2
  <2>4. QED
    BY <2>2, <2>3 DEF Grounded
<1>5. QED
  BY <1>3, <1>4 DEF Grounded

\* A new account has an id that nobody knows.
LEMMA KnownGrows ==
    ASSUME Grounded, created \in Nat, NEW n, n.id = created + 1, created' = created + 1,
           users' = users \cup {n}, Held' \subseteq Held,
           \A u \in Known : u.id \in Nat
    PROVE  Grounded'
<1>1. \A u \in Known' : u = n \/ u \in Known
  BY DEF Known
<1>2. \A u \in Known : u.id <= created
  BY DEF Grounded
<1>3. \A u \in Known' : u.id <= created'
  BY <1>1, <1>2
<1>4. \A u \in Known : u.id # n.id
  BY <1>2
<1>5. \A u, v \in Known' : u.id = v.id => u.email = v.email
  BY <1>1, <1>4 DEF Grounded
<1>6. QED
  BY <1>3, <1>5 DEF Grounded

\* Ids are numbers.
LEMMA KnownIds ==
    ASSUME Typing
    PROVE  /\ Known \subseteq Account
           /\ \A u \in Known : u.id \in Nat
<1>1. Known \subseteq Account
  BY DEF Typing, TypeOK, Typed, Known, Held
<1>2. QED
  BY <1>1 DEF Account, Ids

\* No account gained or lost an id or email.
LEMMA UsersStay ==
    ASSUME NEW us, NEW F, \A u, v \in us : u.id = v.id \/ u.email = v.email => u = v,
           \A u \in us : F[u].id = u.id /\ F[u].email = u.email,
           NEW ws, ws = {F[u] : u \in us}
    PROVE  \A u, v \in ws : u.id = v.id \/ u.email = v.email => u = v
  OBVIOUS

\* A row with an unused id and email may be added.
LEMMA RowAdded ==
    ASSUME NEW us, \A u, v \in us : u.id = v.id \/ u.email = v.email => u = v,
           NEW n, \A u \in us : u.id # n.id /\ u.email # n.email,
           NEW ws, ws = us \cup {n}
    PROVE  \A u, v \in ws : u.id = v.id \/ u.email = v.email => u = v
  OBVIOUS

\* A step that leaves the tables alone, and whose slot holds what was known.
LEMMA RowsStay ==
    ASSUME Rows, NEW r \in Requests, NEW q, req' = [req EXCEPT ![r] = q],
           req \in [Requests -> Request],
           users' = users, applications' = applications, created' = created, filed' = filed,
           q.at # "idle" => q.app.id <= filed,
           q.at \in Holds =>
               \E v \in Known : q.user.id = v.id /\ q.user.email = v.email
    PROVE  Rows'
<1>1. req'[r] = q /\ \A p \in Requests \ {r} : req'[p] = req[p]
  OBVIOUS
<1>2. \A u \in users' : \E v \in Known : u.id = v.id /\ u.email = v.email
  BY DEF Known
<1>3. Grounded'
  BY <1>1, <1>2, KnownStays DEF Rows
<1>4. UniqueRows'
  BY DEF Rows, UniqueRows
<1>5. QED
  BY <1>1, <1>3, <1>4 DEF Rows

\* Requests that only read, or that answer.
LEMMA RowsRead ==
    ASSUME Typing, Rows, NEW r \in Requests,
           \/ \E e \in Emails, level \in Requestable : ApplyFindUser(r, e, level)
           \/ \E a \in applications, by \in Deciders :
                 ApproveFind(r, a, by) \/ RejectFind(r, a, by)
           \/ ApplyFindPending(r) \/ SaveSelect(r) \/ SaveUserSelect(r)
    PROVE  Rows'
<1>0. TypeOK /\ req \in [Requests -> Request] /\ filed \in Nat /\ Idle.at = "idle"
  BY ApprovalAssumption DEF Typing, TypeOK, Idle, Holding
<1>a. req[r].at # "idle" => req[r].app.id <= filed
  BY DEF Rows
<1>b. req[r].at \in Holds => req[r].user \in Known
  BY DEF Known, Held
<1>1. CASE \E e \in Emails, level \in Requestable : ApplyFindUser(r, e, level)
  <2>1. PICK e \in Emails, level \in Requestable : ApplyFindUser(r, e, level)
    BY <1>1
  <2> DEFINE q == Holding("applyFind", None, Applied(e, level), None)
  <2>2. q.app.id = 0 /\ q.at \notin Holds
    BY DEF Holding, Applied, Holds
  <2>3. req' = [req EXCEPT ![r] = q]
    BY <2>1 DEF ApplyFindUser, Arrive
  <2>4. UNCHANGED <<users, applications, created, filed>>
    BY <2>1 DEF ApplyFindUser
  <2>5. q.app.id <= filed
    BY <1>0, <2>2
  <2> HIDE DEF q
  <2>6. QED
    BY <1>0, <2>2, <2>3, <2>4, <2>5, RowsStay
<1>2. ASSUME NEW a \in applications, NEW by \in Deciders, ApproveFind(r, a, by)
      PROVE  Rows'
  <2> DEFINE q == Holding("approveFindUser", by, a, None)
  <2>1. q.app.id <= filed /\ q.at \notin Holds
    BY DEF Holding, Holds, Rows
  <2>2. req' = [req EXCEPT ![r] = q]
    BY <1>2 DEF ApproveFind, Arrive
  <2> HIDE DEF q
  <2>3. QED
    BY <1>0, <1>2, <2>1, <2>2, RowsStay DEF ApproveFind
<1>3. ASSUME NEW a \in applications, NEW by \in Deciders, RejectFind(r, a, by)
      PROVE  Rows'
  <2> DEFINE q == Holding("save", by, Rejected(a, by), None)
  <2>1. a \in Application /\ a.id <= filed
    BY <1>0 DEF TypeOK, Rows
  <2>2. q.app.id <= filed /\ q.at \notin Holds
    BY <2>1 DEF Holding, Holds, Rejected, Application
  <2>3. req' = [req EXCEPT ![r] = q]
    BY <1>3 DEF RejectFind, Arrive
  <2>4. UNCHANGED <<users, applications, created, filed>>
    BY <1>3 DEF RejectFind
  <2> HIDE DEF q
  <2>5. QED
    BY <1>0, <2>2, <2>3, <2>4, RowsStay
<1>4. ASSUME ApplyFindPending(r) \/ SaveSelect(r) \/ SaveUserSelect(r)
      PROVE  Rows'
  <2>1. req[r].app.id <= filed
    BY <1>4, <1>a DEF ApplyFindPending, SaveSelect, SaveUserSelect
  <2>2. \E q : /\ req' = [req EXCEPT ![r] = q]
               /\ q.at # "idle" => q.app = req[r].app
               /\ q.at \in Holds => q.user = req[r].user /\ req[r].at \in Holds
    <3>1. CASE ApplyFindPending(r)
      <4>1. \/ req' = [req EXCEPT ![r] = [req[r] EXCEPT !.at = "applyInsert"]]
            \/ req' = [req EXCEPT ![r] = Idle]
        BY <3>1 DEF ApplyFindPending, Goto, Answer
      <4>2. QED
        BY <1>0, <4>1 DEF Request, Holds
    <3>2. CASE SaveSelect(r)
      <4>1. \E d : \/ req' = [req EXCEPT ![r] = [req[r] EXCEPT !.at = "saveInsert"]]
                   \/ req' = [req EXCEPT ![r] = [req[r] EXCEPT !.at = "saveWrite", !.dirty = d]]
        BY <1>0, <3>2 DEF SaveSelect, Goto, Request
      <4>2. QED
        BY <1>0, <4>1 DEF Request, Holds
    <3>3. CASE SaveUserSelect(r)
      <4>1. \E d : \/ req' = [req EXCEPT ![r] = [req[r] EXCEPT !.at = "reinsertUser"]]
                   \/ req' = [req EXCEPT ![r] = [req[r] EXCEPT !.at = "writeUser", !.dirty = d]]
        BY <1>0, <3>3 DEF SaveUserSelect, Goto, Request
      <4>2. req[r].at \in Holds
        BY <3>3 DEF SaveUserSelect, Holds
      <4>3. PICK d : \/ req' = [req EXCEPT ![r] = [req[r] EXCEPT !.at = "reinsertUser"]]
                     \/ req' = [req EXCEPT ![r] = [req[r] EXCEPT !.at = "writeUser", !.dirty = d]]
        BY <4>1
      <4>4. req[r] \in Request
        BY <1>0 DEF TypeOK
      <4>5. CASE req' = [req EXCEPT ![r] = [req[r] EXCEPT !.at = "reinsertUser"]]
        <5> DEFINE q == [req[r] EXCEPT !.at = "reinsertUser"]
        <5>1. q.app = req[r].app /\ q.user = req[r].user
          BY <4>4 DEF Request
        <5>2. req' = [req EXCEPT ![r] = q]
          BY <4>5
        <5> HIDE DEF q
        <5>3. QED
          BY <4>2, <5>1, <5>2
      <4>6. CASE req' = [req EXCEPT ![r] = [req[r] EXCEPT !.at = "writeUser", !.dirty = d]]
        <5> DEFINE q == [req[r] EXCEPT !.at = "writeUser", !.dirty = d]
        <5>1. q.app = req[r].app /\ q.user = req[r].user
          BY <4>4 DEF Request
        <5>2. req' = [req EXCEPT ![r] = q]
          BY <4>6
        <5> HIDE DEF q
        <5>3. QED
          BY <4>2, <5>1, <5>2
      <4>7. QED
        BY <4>3, <4>5, <4>6
    <3>4. QED
      BY <1>4, <3>1, <3>2, <3>3
  <2>3. PICK q : /\ req' = [req EXCEPT ![r] = q]
                 /\ q.at # "idle" => q.app = req[r].app
                 /\ q.at \in Holds => q.user = req[r].user /\ req[r].at \in Holds
    BY <2>2
  <2>4. q.at \in Holds => \E v \in Known : q.user.id = v.id /\ q.user.email = v.email
    BY <1>b, <2>3
  <2>5. UNCHANGED <<users, applications, created, filed>>
    BY <1>4 DEF ApplyFindPending, SaveSelect, SaveUserSelect
  <2>6. QED
    BY <1>0, <2>1, <2>3, <2>4, <2>5, RowsStay
<1>5. QED
  BY <1>1, <1>2, <1>3, <1>4

\* The account an approval reads is in the table.
LEMMA RowsFindUser ==
    ASSUME Typing, Rows, NEW r \in Requests, ApproveFindUser(r)
    PROVE  Rows'
<1>0. TypeOK /\ req \in [Requests -> Request] /\ req[r].app.id <= filed
  BY DEF Typing, TypeOK, Rows, ApproveFindUser
<1>1. CASE Goto(r, "insertUser")
  <2> DEFINE q == [req[r] EXCEPT !.at = "insertUser"]
  <2>1. q.app.id <= filed /\ q.at \notin Holds
    BY <1>0 DEF Request, Holds
  <2>2. req' = [req EXCEPT ![r] = q]
    BY <1>1 DEF Goto
  <2> HIDE DEF q
  <2>3. QED
    BY <1>0, <2>1, <2>2, RowsStay DEF ApproveFindUser
<1>2. ASSUME NEW u \in AccountsOf(req[r].app.email),
             req' = [req EXCEPT ![r].at = "saveUser",
                                ![r].user = [u EXCEPT !.level = req[r].app.level,
                                                      !.approvedBy = req[r].by]]
      PROVE  Rows'
  <2> DEFINE v == [u EXCEPT !.level = req[r].app.level, !.approvedBy = req[r].by]
  <2> DEFINE q == [req[r] EXCEPT !.at = "saveUser", !.user = v]
  <2>1. u \in Known /\ u \in Account
    BY <1>0 DEF Known, AccountsOf, TypeOK
  <2>2. v.id = u.id /\ v.email = u.email
    BY <2>1 DEF Account
  <2>3. q.app.id <= filed /\ q.user = v
    BY <1>0 DEF Request
  <2>4. req' = [req EXCEPT ![r] = q]
    BY <1>0, <1>2 DEF Request
  <2>5. \E w \in Known : q.user.id = w.id /\ q.user.email = w.email
    BY <2>1, <2>2, <2>3
  <2> HIDE DEF q
  <2>6. QED
    BY <1>0, <2>3, <2>4, <2>5, RowsStay DEF ApproveFindUser
<1>3. QED
  BY <1>1, <1>2 DEF ApproveFindUser

\* What is held after the account was written: no account.
LEMMA GiveHolds ==
    ASSUME Typing, NEW r \in Requests, req[r].at # "idle", GoApprove(r)
    PROVE  /\ req'[r].at = "save"
           /\ req'[r].app = Approved(req[r].app, req[r].by)
           /\ req'[r].app.id = req[r].app.id
           /\ \A p \in Requests \ {r} : req'[p] = req[p]
<1>1. req[r].app \in Application /\ req \in [Requests -> Request]
  BY DEF Typing, TypeOK, Typed
<1>2. QED
  BY <1>1 DEF GoApprove, ToSave, Approved, Request, Application

LEMMA AnswerHolds ==
    ASSUME Typing, NEW r \in Requests, Answer(r)
    PROVE  /\ req'[r].at = "idle"
           /\ \A p \in Requests \ {r} : req'[p] = req[p]
  BY DEF Typing, TypeOK, Answer, Idle, Holding

\* Rows is preserved by a slot that ends up without an account.
LEMMA RowsSlot ==
    ASSUME Rows, NEW r \in Requests, \A p \in Requests \ {r} : req'[p] = req[p],
           req'[r].at \notin Holds, req'[r].at # "idle" => req'[r].app.id <= filed,
           filed' = filed
    PROVE  /\ \A p \in Requests : req'[p].at # "idle" => req'[p].app.id <= filed'
           /\ Held' \subseteq Held
  BY DEF Rows, Held

\* Writing the account that is held changes only its access.
LEMMA RowsWriteUser ==
    ASSUME Typing, Rows, NEW r \in Requests, WriteUser(r)
    PROVE  Rows'
<1>0. TypeOK /\ req[r].user \in Account /\ req[r].at # "idle" /\ req[r].app.id <= filed
  BY DEF Typing, Typed, WriteUser, Holds, Rows
<1>1. /\ req'[r].at = "save" /\ req'[r].app.id <= filed
      /\ \A p \in Requests \ {r} : req'[p] = req[p]
  BY <1>0, GiveHolds DEF WriteUser, Give
<1> DEFINE F == [u \in users |-> IF u.id = req[r].user.id
                                 THEN OverwriteAccount(u, req[r].user, req[r].dirty) ELSE u]
<1>2. users' = {F[u] : u \in users}
  BY DEF WriteUser
<1>3. \A u \in users : F[u].id = u.id /\ F[u].email = u.email
  BY <1>0, OverwriteType DEF TypeOK
<1> HIDE DEF F
<1>4. \A u, v \in users' : u.id = v.id \/ u.email = v.email => u = v
  BY <1>2, <1>3, UsersStay DEF Rows, UniqueRows
<1>5. \A w \in users' : \E v \in Known : w.id = v.id /\ w.email = v.email
  BY <1>2, <1>3 DEF Known
<1>6. UNCHANGED <<applications, created, filed>>
  BY DEF WriteUser
<1>7. req'[r].at \notin Holds
  BY <1>1 DEF Holds
<1>8. Grounded'
  BY <1>1, <1>5, <1>6, <1>7, KnownStays DEF Rows
<1>9. UniqueRows'
  BY <1>4, <1>6 DEF Rows, UniqueRows
<1>10. \A p \in Requests : req'[p].at # "idle" => req'[p].app.id <= filed'
  BY <1>1, <1>6, <1>7, RowsSlot
<1>11. QED
  BY <1>6, <1>8, <1>9, <1>10 DEF Rows

\* A deleted account comes back only where its id and email are free.
LEMMA RowsReinsertUser ==
    ASSUME Typing, Rows, NEW r \in Requests, ReinsertUser(r)
    PROVE  Rows'
<1>0. req[r].at # "idle" /\ req[r].app.id <= filed
  BY DEF ReinsertUser, Rows
<1>a. req[r].user \in Known
  BY DEF Known, Held, Holds, ReinsertUser
<1>1. /\ req'[r].at \in {"save", "idle"}
      /\ req'[r].at = "save" => req'[r].app.id <= filed
      /\ \A p \in Requests \ {r} : req'[p] = req[p]
  <2>1. CASE Give(r)
    BY <1>0, <2>1, GiveHolds DEF Give
  <2>2. CASE Answer(r)
    BY <2>2, AnswerHolds
  <2>3. QED
    BY <2>1, <2>2 DEF ReinsertUser
<1>2. \A w \in users' : \E v \in Known : w.id = v.id /\ w.email = v.email
  BY <1>a DEF ReinsertUser, Known
<1>3. \A u, v \in users' : u.id = v.id \/ u.email = v.email => u = v
  <2>1. CASE users' = users
    BY <2>1 DEF Rows, UniqueRows
  <2>2. CASE users' = users \cup {req[r].user} /\ WithId(req[r].user.id) = {}
             /\ AccountsOf(req[r].user.email) = {}
    <3>1. \A u \in users : u.id # req[r].user.id /\ u.email # req[r].user.email
      BY <2>2 DEF WithId, AccountsOf
    <3>2. QED
      BY <2>2, <3>1, RowAdded DEF Rows, UniqueRows
  <2>3. QED
    BY <2>1, <2>2 DEF ReinsertUser
<1>4. UNCHANGED <<applications, created, filed>>
  BY DEF ReinsertUser
<1>5. req'[r].at \notin Holds
  BY <1>1 DEF Holds
<1>6. Grounded'
  BY <1>1, <1>2, <1>4, <1>5, KnownStays DEF Rows
<1>7. UniqueRows'
  BY <1>3, <1>4 DEF Rows, UniqueRows
<1>8. \A p \in Requests : req'[p].at # "idle" => req'[p].app.id <= filed'
  BY <1>1, <1>4, <1>5, RowsSlot
<1>9. QED
  BY <1>4, <1>6, <1>7, <1>8 DEF Rows

\* A new account, whoever makes it.
LEMMA RowsInsert ==
    ASSUME Typing, Rows, NEW e, NEW level, NEW by, AccountsOf(e) = {}, Insert(e, level, by),
           UNCHANGED <<applications, filed>>, Held' \subseteq Held,
           \A p \in Requests : req'[p].at # "idle" => req'[p].app.id <= filed'
    PROVE  Rows'
<1> DEFINE n == [id |-> created + 1, email |-> e, level |-> level, approvedBy |-> by]
<1>0. created \in Nat /\ created' = created + 1
  BY ApprovalAssumption DEF Typing, TypeOK, Insert
<1>1. n.id = created + 1 /\ n.email = e /\ users' = users \cup {n}
  BY DEF Insert
<1> HIDE DEF n
<1>2. \A u \in Known : u.id \in Nat /\ u.id <= created
  BY KnownIds DEF Rows, Grounded
<1>3. \A u \in users : u.id # n.id
  BY <1>0, <1>1, <1>2 DEF Known
<1>4. \A u \in users : u.email # n.email
  BY <1>1 DEF AccountsOf
<1>5. \A u, v \in users' : u.id = v.id \/ u.email = v.email => u = v
  BY <1>1, <1>3, <1>4, RowAdded DEF Rows, UniqueRows
<1>6. Grounded'
  BY <1>0, <1>1, <1>2, KnownGrows DEF Rows
<1>7. UniqueRows'
  BY <1>5 DEF Rows, UniqueRows
<1>8. QED
  BY <1>6, <1>7 DEF Rows

LEMMA RowsInsertUser ==
    ASSUME Typing, Rows, NEW r \in Requests, InsertUser(r)
    PROVE  Rows'
<1>0. req[r].at # "idle" /\ req[r].app.id <= filed
  BY DEF InsertUser, Rows
<1>1. /\ req'[r].at \in {"save", "idle"}
      /\ req'[r].at = "save" => req'[r].app.id <= filed
      /\ \A p \in Requests \ {r} : req'[p] = req[p]
  <2>1. CASE Give(r)
    BY <1>0, <2>1, GiveHolds DEF Give
  <2>2. CASE Answer(r)
    BY <2>2, AnswerHolds
  <2>3. QED
    BY <2>1, <2>2 DEF InsertUser
<1>2. req'[r].at \notin Holds /\ UNCHANGED <<applications, filed>>
  BY <1>1 DEF Holds, InsertUser
<1>3. /\ \A p \in Requests : req'[p].at # "idle" => req'[p].app.id <= filed'
      /\ Held' \subseteq Held
  BY <1>1, <1>2, RowsSlot
<1>4. CASE /\ AccountsOf(req[r].app.email) = {}
           /\ Insert(req[r].app.email, req[r].app.level, req[r].by)
  BY <1>2, <1>3, <1>4, RowsInsert
<1>5. CASE UNCHANGED <<users, created>>
  <2>1. Grounded'
    BY <1>3, <1>5 DEF Rows, Grounded, Known
  <2>2. QED
    BY <1>2, <1>3, <1>5, <2>1 DEF Rows, UniqueRows
<1>6. QED
  BY <1>4, <1>5 DEF InsertUser

\* A request that writes applications and answers.
LEMMA RowsAnswer ==
    ASSUME Typing, Rows, NEW r \in Requests, Answer(r), UNCHANGED <<users, created>>,
           filed' >= filed, filed' \in Nat,
           \A a, b \in applications' : a.id = b.id \/ a.email = b.email => a = b,
           \A a \in applications' : a.id <= filed'
    PROVE  Rows'
<1>1. req'[r].at = "idle" /\ \A p \in Requests \ {r} : req'[p] = req[p]
  BY AnswerHolds
<1>2. Held' \subseteq Held
  BY <1>1 DEF Held, Holds
<1>3. Grounded'
  BY <1>2 DEF Rows, Grounded, Known
<1>4. filed \in Nat /\ \A p \in Requests : req[p].at # "idle" => req[p].app.id \in Nat
  BY ApprovalAssumption DEF Typing, TypeOK, Typed, Application, AppIds
<1>5. \A p \in Requests : req'[p].at # "idle" => req'[p].app.id <= filed'
  BY <1>1, <1>4 DEF Rows
<1>6. QED
  BY <1>3, <1>5 DEF Rows, UniqueRows

LEMMA RowsApplications ==
    ASSUME Typing, Rows, NEW r \in Requests, ApplyInsert(r) \/ SaveWrite(r) \/ SaveInsert(r)
    PROVE  Rows'
<1>0. /\ TypeOK /\ filed \in Nat
      /\ req[r].app \in Application /\ req[r].app.id <= filed
      /\ \A a \in applications : a \in Application /\ a.id \in Nat /\ a.id <= filed
  BY ApprovalAssumption
     DEF Typing, TypeOK, Typed, Rows, ApplyInsert, SaveWrite, SaveInsert, Application, AppIds
<1>a. \A a, b \in applications : a.id = b.id \/ a.email = b.email => a = b
  BY DEF Rows, UniqueRows
<1>1. CASE ApplyInsert(r)
  <2>1. CASE UNCHANGED <<applications, filed>>
    BY <1>0, <1>1, <1>a, <2>1, RowsAnswer DEF ApplyInsert
  <2>2. CASE /\ ApplicationsOf(req[r].app.email) = {} /\ filed' = filed + 1
             /\ applications' = applications \cup {[req[r].app EXCEPT !.id = filed + 1]}
    <3> DEFINE n == [req[r].app EXCEPT !.id = filed + 1]
    <3>1. n.id = filed + 1 /\ n.email = req[r].app.email
      BY <1>0 DEF Application
    <3>2. applications' = applications \cup {n}
      BY <2>2
    <3> HIDE DEF n
    <3>3. \A a \in applications : a.id # n.id /\ a.email # n.email
      BY <1>0, <2>2, <3>1 DEF ApplicationsOf
    <3>4. \A a, b \in applications' : a.id = b.id \/ a.email = b.email => a = b
      BY <1>a, <3>2, <3>3, RowAdded
    <3>5. \A a \in applications' : a.id <= filed'
      BY <1>0, <2>2, <3>1, <3>2
    <3>6. QED
      BY <1>0, <1>1, <2>2, <3>4, <3>5, RowsAnswer DEF ApplyInsert
  <2>3. QED
    BY <1>1, <2>1, <2>2 DEF ApplyInsert
<1>2. CASE SaveWrite(r)
  <2> DEFINE F == [a \in applications |->
                     IF a.id = req[r].app.id
                     THEN OverwriteApplication(a, req[r].app, req[r].dirty) ELSE a]
  <2>1. applications' = {F[a] : a \in applications}
    BY <1>2 DEF SaveWrite
  <2>2. \A a \in applications : F[a].id = a.id /\ F[a].email = a.email
    BY <1>0, OverwriteAppType
  <2> HIDE DEF F
  <2>3. \A a, b \in applications' : a.id = b.id \/ a.email = b.email => a = b
    BY <1>a, <2>1, <2>2, UsersStay
  <2>4. \A a \in applications' : a.id <= filed
    BY <1>0, <2>1, <2>2
  <2>5. QED
    BY <1>0, <1>2, <2>3, <2>4, RowsAnswer DEF SaveWrite
<1>3. CASE SaveInsert(r)
  <2>1. CASE UNCHANGED applications
    BY <1>0, <1>3, <1>a, <2>1, RowsAnswer DEF SaveInsert
  <2>2. CASE /\ AppWithId(req[r].app.id) = {} /\ ApplicationsOf(req[r].app.email) = {}
             /\ applications' = applications \cup {req[r].app}
    <3>1. \A a \in applications : a.id # req[r].app.id /\ a.email # req[r].app.email
      BY <2>2 DEF AppWithId, ApplicationsOf
    <3>2. \A a, b \in applications' : a.id = b.id \/ a.email = b.email => a = b
      BY <1>a, <2>2, <3>1, RowAdded
    <3>3. \A a \in applications' : a.id <= filed
      BY <1>0, <2>2
    <3>4. QED
      BY <1>0, <1>3, <3>2, <3>3, RowsAnswer DEF SaveInsert
  <2>3. QED
    BY <1>3, <2>1, <2>2 DEF SaveInsert
<1>4. QED
  BY <1>1, <1>2, <1>3

LEMMA RowsWorld ==
    ASSUME Typing, Rows, Elsewhere \/ Crash
    PROVE  Rows'
<1>1. ASSUME NEW e \in Emails, NEW level \in AdminLevels \cup {None},
             AccountMadeElsewhere(e, level)
      PROVE  Rows'
  <2>1. Held' = Held /\ \A p \in Requests : req'[p].at # "idle" => req'[p].app.id <= filed'
    BY <1>1 DEF AccountMadeElsewhere, Held, Rows
  <2>2. QED
    BY <1>1, <2>1, RowsInsert DEF AccountMadeElsewhere
<1>2. ASSUME NEW u \in users, NEW level \in AdminLevels, LevelSetElsewhere(u, level)
      PROVE  Rows'
  <2> DEFINE F == [v \in users |-> IF v.id = u.id THEN [v EXCEPT !.level = level] ELSE v]
  <2>1. users' = {F[v] : v \in users}
    BY <1>2 DEF LevelSetElsewhere
  <2>2. \A v \in users : F[v].id = v.id /\ F[v].email = v.email
    BY DEF Typing, TypeOK, Account
  <2> HIDE DEF F
  <2>3. \A v, w \in users' : v.id = w.id \/ v.email = w.email => v = w
    BY <2>1, <2>2, UsersStay DEF Rows, UniqueRows
  <2>4. UNCHANGED <<applications, req, created, filed>>
    BY <1>2 DEF LevelSetElsewhere
  <2>5. \A w \in Known' : \E v \in Known : w.id = v.id /\ w.email = v.email
    BY <2>1, <2>2, <2>4 DEF Known, Held
  <2>6. Grounded'
    <3>1. \A w \in Known' : w.id <= created'
      BY <2>4, <2>5 DEF Rows, Grounded
    <3>2. ASSUME NEW v \in Known', NEW w \in Known', v.id = w.id
          PROVE  v.email = w.email
      <4>1. PICK v0 \in Known : v.id = v0.id /\ v.email = v0.email
        BY <2>5
      <4>2. PICK w0 \in Known : w.id = w0.id /\ w.email = w0.email
        BY <2>5
      <4>3. QED
        BY <3>2, <4>1, <4>2 DEF Rows, Grounded
    <3>3. QED
      BY <3>1, <3>2 DEF Grounded
  <2>7. QED
    BY <2>3, <2>4, <2>6 DEF Rows, UniqueRows
<1>3. ASSUME NEW u \in users, AccountDeleted(u) PROVE Rows'
  BY <1>3 DEF AccountDeleted, Rows, UniqueRows, Grounded, Known, Held
<1>4. CASE Cleaned
  BY <1>4 DEF Cleaned, Rows, UniqueRows, Grounded, Known, Held
<1>5. CASE Crash
  <2>1. \A p \in Requests : req'[p].at = "idle"
    BY <1>5 DEF Crash, Idle, Holding
  <2>2. Held' = {}
    BY <2>1 DEF Held, Holds
  <2>3. QED
    BY <1>5, <2>1, <2>2 DEF Crash, Rows, UniqueRows, Grounded, Known
<1>6. QED
  BY <1>1, <1>2, <1>3, <1>4, <1>5 DEF Elsewhere

LEMMA RowsInit == Init => Rows
<1> SUFFICES ASSUME Init PROVE Rows
  OBVIOUS
<1>1. \A p \in Requests : req[p].at = "idle"
  BY DEF Init, Idle, Holding
<1>2. Held = {}
  BY <1>1 DEF Held, Holds
<1>3. QED
  BY <1>1, <1>2 DEF Init, Rows, UniqueRows, Grounded, Known

LEMMA RowsNext == Typing /\ Rows /\ [Next]_vars => Rows'
<1>1. ASSUME Typing, Rows, NEW r \in Requests, Client(r) PROVE Rows'
  BY <1>1, RowsRead DEF Client
<1>2. ASSUME Typing, Rows, NEW r \in Requests, Step(r) PROVE Rows'
  BY <1>2, RowsRead, RowsFindUser, RowsWriteUser, RowsReinsertUser, RowsInsertUser,
     RowsApplications DEF Step
<1>3. CASE UNCHANGED vars
  BY <1>3 DEF vars, history, Rows, UniqueRows, Grounded, Known, Held
<1>4. QED
  BY <1>1, <1>2, <1>3, RowsWorld DEF Next

-----------------------------------------------------------------------------
(* An account that is gone when it is to be written was deleted by an      *)
(* administrator.                                                          *)

Orphans ==
    \A r \in Requests :
        req[r].at = "writeUser" /\ WithId(req[r].user.id) = {} => req[r].app.id \in orphaned

\* No account is lost, and nobody comes to write one.
LEMMA OrphansKept ==
    ASSUME Orphans, \A u \in users : \E v \in users' : v.id = u.id,
           orphaned \subseteq orphaned',
           \A p \in Requests : req'[p].at = "writeUser" => req'[p] = req[p]
    PROVE  Orphans'
BY DEF Orphans, WithId

\* The slot that took the step does not write an account next.
LEMMA OrphansSlot ==
    ASSUME Typing, Orphans, NEW r \in Requests, NEW q, req' = [req EXCEPT ![r] = q],
           q.at # "writeUser", \A u \in users : \E v \in users' : v.id = u.id,
           UNCHANGED orphaned
    PROVE  Orphans'
<1>1. req'[r] = q /\ \A p \in Requests \ {r} : req'[p] = req[p]
  BY DEF Typing, TypeOK
<1>2. QED
  BY <1>1, OrphansKept

LEMMA OrphansRead ==
    ASSUME Typing, Orphans, NEW r \in Requests, Client(r) \/ ApplyFindPending(r)
                                 \/ ApproveFindUser(r) \/ SaveSelect(r) \/ SaveUserSelect(r)
    PROVE  Orphans'
<1>0. /\ req \in [Requests -> Request] /\ req[r] \in Request
      /\ UNCHANGED <<users, orphaned>>
  BY DEF Typing, TypeOK, Client, ApplyFindUser, ApproveFind, RejectFind, ApplyFindPending,
         ApproveFindUser, SaveSelect, SaveUserSelect, history
<1>1. CASE Client(r)
  <2>1. \A label, by, app : Holding(label, by, app, None).at = label
    BY DEF Holding
  <2>2. PICK label, by, app : /\ label # "writeUser"
                              /\ req' = [req EXCEPT ![r] = Holding(label, by, app, None)]
    BY <1>1 DEF Client, ApplyFindUser, ApproveFind, RejectFind, Arrive
  <2>3. QED
    BY <1>0, <2>1, <2>2, OrphansSlot
<1>2. CASE ApplyFindPending(r)
  <2>1. Idle.at # "writeUser" /\ [req[r] EXCEPT !.at = "applyInsert"].at # "writeUser"
    BY <1>0 DEF Idle, Holding, Request
  <2>2. QED
    BY <1>0, <1>2, <2>1, OrphansSlot DEF ApplyFindPending, Goto, Answer
<1>3. CASE ApproveFindUser(r)
  <2>1. PICK u : \/ req' = [req EXCEPT ![r] = [req[r] EXCEPT !.at = "insertUser"]]
                 \/ req' = [req EXCEPT ![r] = [req[r] EXCEPT !.at = "saveUser", !.user = u]]
    BY <1>0, <1>3 DEF ApproveFindUser, Goto, Request
  <2>2. /\ [req[r] EXCEPT !.at = "insertUser"].at # "writeUser"
        /\ [req[r] EXCEPT !.at = "saveUser", !.user = u].at # "writeUser"
    BY <1>0 DEF Request
  <2>3. QED
    BY <1>0, <2>1, <2>2, OrphansSlot
<1>4. CASE SaveSelect(r)
  <2>1. PICK d : \/ req' = [req EXCEPT ![r] = [req[r] EXCEPT !.at = "saveInsert"]]
                 \/ req' = [req EXCEPT ![r] = [req[r] EXCEPT !.at = "saveWrite", !.dirty = d]]
    BY <1>0, <1>4 DEF SaveSelect, Goto, Request
  <2>2. /\ [req[r] EXCEPT !.at = "saveInsert"].at # "writeUser"
        /\ [req[r] EXCEPT !.at = "saveWrite", !.dirty = d].at # "writeUser"
    BY <1>0 DEF Request
  <2>3. QED
    BY <1>0, <2>1, <2>2, OrphansSlot
<1>5. CASE SaveUserSelect(r)
  <2>1. CASE Goto(r, "reinsertUser")
    <3>1. [req[r] EXCEPT !.at = "reinsertUser"].at # "writeUser"
      BY <1>0 DEF Request
    <3>2. QED
      BY <1>0, <2>1, <3>1, OrphansSlot DEF Goto
  <2>2. ASSUME NEW u \in WithId(req[r].user.id), NEW d,
               req' = [req EXCEPT ![r] = [req[r] EXCEPT !.at = "writeUser", !.dirty = d]]
        PROVE  Orphans'
    <3>1. req'[r].user = req[r].user /\ \A p \in Requests \ {r} : req'[p] = req[p]
      BY <1>0, <2>2 DEF Request
    <3>2. u \in users' /\ u.id = req'[r].user.id
      BY <1>0, <3>1 DEF WithId
    <3>3. WithId(req[r].user.id)' # {}
      BY <3>1, <3>2 DEF WithId
    <3>4. QED
      BY <1>0, <3>1, <3>3 DEF Orphans, WithId
  <2>3. QED
    BY <1>0, <1>5, <2>1, <2>2 DEF SaveUserSelect, Request
<1>6. QED
  BY <1>1, <1>2, <1>3, <1>4, <1>5

LEMMA OrphansWrite ==
    ASSUME Typing, Orphans, NEW r \in Requests,
           \/ WriteUser(r) \/ ReinsertUser(r) \/ InsertUser(r)
           \/ ApplyInsert(r) \/ SaveWrite(r) \/ SaveInsert(r)
    PROVE  Orphans'
<1>0. req \in [Requests -> Request] /\ req[r] \in Request /\ UNCHANGED orphaned
  BY DEF Typing, TypeOK, WriteUser, ReinsertUser, InsertUser, ApplyInsert, SaveWrite,
         SaveInsert, history
<1>1. GoApprove(r) \/ Answer(r)
  BY DEF WriteUser, ReinsertUser, InsertUser, Give, ApplyInsert, SaveWrite, SaveInsert
<1>2. /\ Idle.at # "writeUser"
      /\ ToSave(r, Approved(req[r].app, req[r].by)).at # "writeUser"
  BY <1>0 DEF ToSave, Idle, Holding, Request
<1>3. \A u \in users : \E v \in users' : v.id = u.id
  <2>1. CASE WriteUser(r)
    <3>1. req[r].user \in Account
      BY <2>1 DEF WriteUser, Typing, Typed, Holds
    <3> DEFINE F == [u \in users |-> IF u.id = req[r].user.id
                                     THEN OverwriteAccount(u, req[r].user, req[r].dirty) ELSE u]
    <3>2. users' = {F[u] : u \in users}
      BY <2>1 DEF WriteUser
    <3>3. \A u \in users : F[u].id = u.id
      BY <3>1, OverwriteType DEF Typing, TypeOK
    <3> HIDE DEF F
    <3>4. QED
      BY <3>2, <3>3
  <2>2. CASE ~WriteUser(r)
    BY <2>2 DEF ReinsertUser, InsertUser, Insert, ApplyInsert, SaveWrite, SaveInsert
  <2>3. QED
    BY <2>1, <2>2
<1>4. QED
  BY <1>0, <1>1, <1>2, <1>3, OrphansSlot DEF GoApprove, Answer

LEMMA OrphansWorld ==
    ASSUME Typing, Orphans, Elsewhere \/ Crash
    PROVE  Orphans'
<1>1. ASSUME NEW e \in Emails, NEW level \in AdminLevels \cup {None},
             AccountMadeElsewhere(e, level)
      PROVE  Orphans'
  BY <1>1, OrphansKept DEF AccountMadeElsewhere, Insert
<1>2. ASSUME NEW u \in users, NEW level \in AdminLevels, LevelSetElsewhere(u, level)
      PROVE  Orphans'
  <2> DEFINE F == [v \in users |-> IF v.id = u.id THEN [v EXCEPT !.level = level] ELSE v]
  <2>1. users' = {F[v] : v \in users}
    BY <1>2 DEF LevelSetElsewhere
  <2>2. \A v \in users : F[v].id = v.id
    BY DEF Typing, TypeOK, Account
  <2> HIDE DEF F
  <2>3. QED
    BY <1>2, <2>1, <2>2, OrphansKept DEF LevelSetElsewhere
<1>3. ASSUME NEW u \in users, AccountDeleted(u) PROVE Orphans'
  <2>1. UNCHANGED req /\ users' = users \ {u}
    BY <1>3 DEF AccountDeleted
  <2>2. ASSUME NEW r \in Requests, req[r].at = "writeUser", WithId(req[r].user.id)' = {}
        PROVE  req[r].app.id \in orphaned'
    <3>1. CASE req[r].user.id = u.id
      BY <1>3, <2>2, <3>1 DEF AccountDeleted
    <3>2. CASE req[r].user.id # u.id
      <4>1. WithId(req[r].user.id) = {}
        BY <2>1, <2>2, <3>2 DEF WithId
      <4>2. QED
        BY <1>3, <2>2, <4>1 DEF AccountDeleted, Orphans
    <3>3. QED
      BY <3>1, <3>2
  <2>3. QED
    BY <2>1, <2>2 DEF Orphans, WithId
<1>4. CASE Cleaned
  BY <1>4, OrphansKept DEF Cleaned, history
<1>5. CASE Crash
  BY <1>5, OrphansKept DEF Crash, Idle, Holding
<1>6. QED
  BY <1>1, <1>2, <1>3, <1>4, <1>5 DEF Elsewhere

LEMMA OrphansInit == Init => Orphans
BY DEF Init, Orphans, Idle, Holding

LEMMA OrphansNext == Typing /\ Orphans /\ [Next]_vars => Orphans'
<1>1. CASE UNCHANGED vars
  BY <1>1 DEF vars, history, Orphans, WithId
<1>2. ASSUME Typing, Orphans, NEW r \in Requests, Client(r) \/ Step(r) PROVE Orphans'
  BY <1>2, OrphansRead, OrphansWrite DEF Step
<1>3. QED
  BY <1>1, <1>2, OrphansWorld DEF Next

-----------------------------------------------------------------------------
(* Access is given by somebody entitled, and an approval follows the gift. *)

\* Applications whose account was written, or deleted when it was to be.
Handed == given \cup orphaned

\* What slot r holds was decided: the level it is about to give, the account
\* it is about to save, and the application it is about to mark approved.
Entitled(r) ==
    /\ req[r].at \in Approving =>
          [email |-> req[r].app.email, level |-> req[r].app.level] \in granted
    /\ req[r].at \in Holds =>
          [email |-> req[r].user.email, level |-> req[r].user.level] \in granted
    /\ req[r].at \in Saving /\ req[r].app.status = "approved" => req[r].app.id \in Handed
    /\ req[r].at \in {"applyFind", "applyInsert"} => req[r].app.status # "approved"

Decided ==
    /\ LevelGranted
    /\ ApprovedWasGiven
    /\ \A r \in Requests : Entitled(r)

\* Only the slot that took the step has to be looked at.
LEMMA DecidedStep ==
    ASSUME Decided, NEW r \in Requests, \A p \in Requests \ {r} : req'[p] = req[p],
           granted \subseteq granted', Handed \subseteq Handed',
           Entitled(r)', LevelGranted', ApprovedWasGiven'
    PROVE  Decided'
<1>1. \A p \in Requests \ {r} : Entitled(p)'
  BY DEF Decided, Entitled
<1>2. QED
  BY <1>1 DEF Decided

\* A step that leaves the tables alone.
LEMMA DecidedRead ==
    ASSUME Decided, NEW r \in Requests, NEW q, req' = [req EXCEPT ![r] = q],
           req \in [Requests -> Request],
           UNCHANGED <<users, applications, given, orphaned>>, granted \subseteq granted',
           q.at \in Approving =>
               [email |-> q.app.email, level |-> q.app.level] \in granted',
           q.at \in Holds =>
               [email |-> q.user.email, level |-> q.user.level] \in granted',
           q.at \in Saving /\ q.app.status = "approved" => q.app.id \in Handed,
           q.at \in {"applyFind", "applyInsert"} => q.app.status # "approved"
    PROVE  Decided'
<1>1. req'[r] = q /\ \A p \in Requests \ {r} : req'[p] = req[p]
  OBVIOUS
<1>2. Entitled(r)'
  BY <1>1 DEF Entitled, Handed
<1>3. LevelGranted' /\ ApprovedWasGiven'
  BY DEF Decided, LevelGranted, ApprovedWasGiven
<1>4. QED
  BY <1>1, <1>2, <1>3, DecidedStep DEF Handed

LEMMA DecidedArrive ==
    ASSUME Typing, Decided, NEW r \in Requests,
           \/ \E e \in Emails, level \in Requestable : ApplyFindUser(r, e, level)
           \/ \E a \in applications, by \in Deciders :
                 ApproveFind(r, a, by) \/ RejectFind(r, a, by)
    PROVE  Decided'
<1>0. TypeOK /\ req \in [Requests -> Request]
  BY DEF Typing, TypeOK
<1>1. CASE \E e \in Emails, level \in Requestable : ApplyFindUser(r, e, level)
  <2>1. PICK e \in Emails, level \in Requestable : ApplyFindUser(r, e, level)
    BY <1>1
  <2> DEFINE q == Holding("applyFind", None, Applied(e, level), None)
  <2>2. q.at = "applyFind" /\ q.app.status # "approved"
    BY DEF Holding, Applied
  <2>3. req' = [req EXCEPT ![r] = q] /\ UNCHANGED <<users, applications, given, orphaned, granted>>
    BY <2>1 DEF ApplyFindUser, Arrive
  <2> HIDE DEF q
  <2>4. QED
    BY <1>0, <2>2, <2>3, DecidedRead DEF Approving, Holds, Saving
<1>2. ASSUME NEW a \in applications, NEW by \in Deciders, ApproveFind(r, a, by)
      PROVE  Decided'
  <2> DEFINE q == Holding("approveFindUser", by, a, None)
  <2>1. q.at = "approveFindUser" /\ q.app = a
    BY DEF Holding
  <2>2. /\ req' = [req EXCEPT ![r] = q] /\ UNCHANGED <<users, applications, given, orphaned>>
        /\ granted' = granted \cup {[email |-> a.email, level |-> a.level]}
    BY <1>2 DEF ApproveFind, Arrive
  <2> HIDE DEF q
  <2>3. QED
    BY <1>0, <2>1, <2>2, DecidedRead DEF Holds, Saving
<1>3. ASSUME NEW a \in applications, NEW by \in Deciders, RejectFind(r, a, by)
      PROVE  Decided'
  <2> DEFINE q == Holding("save", by, Rejected(a, by), None)
  <2>1. q.at = "save" /\ q.app.status # "approved"
    BY <1>0 DEF Holding, Rejected, TypeOK, Application
  <2>2. req' = [req EXCEPT ![r] = q] /\ UNCHANGED <<users, applications, given, orphaned, granted>>
    BY <1>3 DEF RejectFind, Arrive
  <2> HIDE DEF q
  <2>3. QED
    BY <1>0, <2>1, <2>2, DecidedRead DEF Approving, Holds
<1>4. QED
  BY <1>1, <1>2, <1>3

\* Reading on keeps what is held and stays on the same side of a decision.
LEMMA DecidedSelect ==
    ASSUME Typing, Decided, NEW r \in Requests,
           ApplyFindPending(r) \/ SaveSelect(r) \/ SaveUserSelect(r)
    PROVE  Decided'
<1>0. TypeOK /\ req \in [Requests -> Request] /\ req[r] \in Request /\ Entitled(r)
  BY DEF Typing, TypeOK, Decided
<1>1. UNCHANGED <<users, applications, given, orphaned, granted>>
  BY DEF ApplyFindPending, SaveSelect, SaveUserSelect, history
<1>2. CASE ApplyFindPending(r)
  <2>1. CASE Goto(r, "applyInsert")
    <3> DEFINE q == [req[r] EXCEPT !.at = "applyInsert"]
    <3>1. q.at = "applyInsert" /\ q.app = req[r].app
      BY <1>0 DEF Request
    <3>2. req' = [req EXCEPT ![r] = q] /\ req[r].app.status # "approved"
      BY <1>0, <1>2, <2>1 DEF Goto, ApplyFindPending, Entitled
    <3> HIDE DEF q
    <3>3. QED
      BY <1>0, <1>1, <3>1, <3>2, DecidedRead DEF Approving, Holds, Saving
  <2>2. CASE Answer(r)
    <3>1. Idle.at = "idle"
      BY DEF Idle, Holding
    <3>2. QED
      BY <1>0, <1>1, <2>2, <3>1, DecidedRead DEF Answer, Approving, Holds, Saving
  <2>3. QED
    BY <1>2, <2>1, <2>2 DEF ApplyFindPending
<1>3. CASE SaveSelect(r)
  <2>1. PICK d : \/ req' = [req EXCEPT ![r] = [req[r] EXCEPT !.at = "saveInsert"]]
                 \/ req' = [req EXCEPT ![r] = [req[r] EXCEPT !.at = "saveWrite", !.dirty = d]]
    BY <1>0, <1>3 DEF SaveSelect, Goto, Request
  <2>2. PICK q : /\ req' = [req EXCEPT ![r] = q]
                 /\ q.app = req[r].app /\ q.at \in {"saveInsert", "saveWrite"}
    BY <1>0, <2>1 DEF Request
  <2>3. req[r].app.status = "approved" => req[r].app.id \in Handed
    BY <1>0, <1>3 DEF SaveSelect, Entitled, Saving
  <2>4. QED
    BY <1>0, <1>1, <2>2, <2>3, DecidedRead DEF Approving, Holds
<1>4. CASE SaveUserSelect(r)
  <2>1. \E d : \/ req' = [req EXCEPT ![r] = [req[r] EXCEPT !.at = "reinsertUser"]]
               \/ req' = [req EXCEPT ![r] = [req[r] EXCEPT !.at = "writeUser", !.dirty = d]]
    BY <1>0, <1>4 DEF SaveUserSelect, Goto, Request
  <2>2. PICK q : /\ req' = [req EXCEPT ![r] = q]
                 /\ q.app = req[r].app /\ q.user = req[r].user
                 /\ q.at \in {"reinsertUser", "writeUser"}
    BY <1>0, <2>1 DEF Request
  <2>3. /\ [email |-> req[r].app.email, level |-> req[r].app.level] \in granted
        /\ [email |-> req[r].user.email, level |-> req[r].user.level] \in granted
    BY <1>0, <1>4 DEF SaveUserSelect, Entitled, Approving, Holds
  <2>4. QED
    BY <1>0, <1>1, <2>2, <2>3, DecidedRead DEF Saving
<1>5. QED
  BY <1>2, <1>3, <1>4

\* The account an approval is about to save has the level it approves.
LEMMA DecidedFindUser ==
    ASSUME Typing, Decided, NEW r \in Requests, ApproveFindUser(r)
    PROVE  Decided'
<1>0. TypeOK /\ req \in [Requests -> Request] /\ req[r] \in Request
  BY DEF Typing, TypeOK
<1>1. UNCHANGED <<users, applications, given, orphaned, granted>>
  BY DEF ApproveFindUser, history
<1>2. [email |-> req[r].app.email, level |-> req[r].app.level] \in granted
  BY DEF ApproveFindUser, Decided, Entitled, Approving
<1>3. CASE Goto(r, "insertUser")
  <2> DEFINE q == [req[r] EXCEPT !.at = "insertUser"]
  <2>1. q.app = req[r].app /\ q.at = "insertUser"
    BY <1>0 DEF Request
  <2>2. req' = [req EXCEPT ![r] = q]
    BY <1>3 DEF Goto
  <2> HIDE DEF q
  <2>3. QED
    BY <1>0, <1>1, <1>2, <2>1, <2>2, DecidedRead DEF Holds, Saving
<1>4. ASSUME NEW u \in AccountsOf(req[r].app.email),
             req' = [req EXCEPT ![r].at = "saveUser",
                                ![r].user = [u EXCEPT !.level = req[r].app.level,
                                                      !.approvedBy = req[r].by]]
      PROVE  Decided'
  <2> DEFINE v == [u EXCEPT !.level = req[r].app.level, !.approvedBy = req[r].by]
  <2> DEFINE q == [req[r] EXCEPT !.at = "saveUser", !.user = v]
  <2>1. u \in Account /\ u.email = req[r].app.email
    BY <1>0 DEF AccountsOf, TypeOK
  <2>2. v.email = req[r].app.email /\ v.level = req[r].app.level
    BY <2>1 DEF Account
  <2>3. q.at = "saveUser" /\ q.app = req[r].app /\ q.user = v
    BY <1>0 DEF Request
  <2>4. req' = [req EXCEPT ![r] = q]
    BY <1>0, <1>4 DEF Request
  <2>5. [email |-> q.user.email, level |-> q.user.level] \in granted
    BY <1>2, <2>2, <2>3
  <2> HIDE DEF q, v
  <2>6. QED
    BY <1>0, <1>1, <1>2, <2>3, <2>4, <2>5, DecidedRead DEF Saving
<1>5. QED
  BY <1>3, <1>4 DEF ApproveFindUser

\* The application saved after the account was written was given, or its account
\* was deleted.
LEMMA GiveEntitled ==
    ASSUME Typing, NEW r \in Requests, req[r].at # "idle", GoApprove(r),
           req[r].app.id \in Handed'
    PROVE  Entitled(r)'
<1>1. req'[r].at = "save" /\ req'[r].app.id = req[r].app.id
  BY GiveHolds
<1>2. QED
  BY <1>1 DEF Entitled, Approving, Holds

LEMMA AnswerEntitled ==
    ASSUME Typing, NEW r \in Requests, Answer(r)
    PROVE  Entitled(r)'
<1>1. req'[r].at = "idle"
  BY AnswerHolds
<1>2. QED
  BY <1>1 DEF Entitled, Approving, Holds, Saving

LEMMA DecidedGive ==
    ASSUME Typing, Rows, Orphans, Decided, NEW r \in Requests,
           WriteUser(r) \/ ReinsertUser(r) \/ InsertUser(r)
    PROVE  Decided'
<1>0. /\ TypeOK /\ req[r].at # "idle"
      /\ UNCHANGED <<granted, applications, orphaned>>
  BY DEF Typing, WriteUser, ReinsertUser, InsertUser
<1>1. /\ Entitled(r)' /\ Handed \subseteq Handed'
      /\ \A p \in Requests \ {r} : req'[p] = req[p]
  <2>1. CASE Give(r)
    <3>1. Handed' = Handed \cup {req[r].app.id} /\ GoApprove(r)
      BY <1>0, <2>1 DEF Give, Handed
    <3>2. QED
      BY <1>0, <3>1, GiveEntitled, GiveHolds
  <2>2. CASE Answer(r) /\ given' = given
    BY <1>0, <2>2, AnswerEntitled, AnswerHolds DEF Handed
  <2>3. CASE req[r].at = "writeUser" /\ WithId(req[r].user.id) = {}
             /\ GoApprove(r) /\ given' = given
    <3>1. Handed' = Handed /\ req[r].app.id \in Handed
      BY <1>0, <2>3 DEF Orphans, Handed
    <3>2. QED
      BY <1>0, <2>3, <3>1, GiveEntitled, GiveHolds
  <2>4. QED
    BY <2>1, <2>2, <2>3 DEF WriteUser, ReinsertUser, InsertUser
<1>2. ApprovedWasGiven'
  BY <1>0, <1>1 DEF Decided, ApprovedWasGiven, Handed
<1>3. LevelGranted'
  <2>1. CASE WriteUser(r)
    <3>1. /\ req[r].user \in Account /\ req[r].user \in Known
          /\ [email |-> req[r].user.email, level |-> req[r].user.level] \in granted
      BY <2>1 DEF WriteUser, Typing, Typed, Known, Held, Holds, Decided, Entitled
    <3> DEFINE F == [u \in users |->
                       IF u.id = req[r].user.id
                       THEN OverwriteAccount(u, req[r].user, req[r].dirty) ELSE u]
    <3>2. users' = {F[u] : u \in users}
      BY <2>1 DEF WriteUser
    <3>3. ASSUME NEW u \in users, F[u].level # None
          PROVE  [email |-> F[u].email, level |-> F[u].level] \in granted
      <4>1. u \in Account /\ u \in Known
        BY <1>0 DEF TypeOK, Known
      <4>2. u.level # None => [email |-> u.email, level |-> u.level] \in granted
        BY DEF Decided, LevelGranted
      <4>3. CASE u.id = req[r].user.id
        <5>1. u.email = req[r].user.email
          BY <3>1, <4>1, <4>3 DEF Rows, Grounded
        <5>2. /\ F[u].email = u.email
              /\ F[u].level \in {u.level, req[r].user.level}
          BY <3>1, <4>1, <4>3, OverwriteType
        <5> HIDE DEF F
        <5>3. QED
          BY <3>1, <3>3, <4>2, <5>1, <5>2
      <4>4. CASE u.id # req[r].user.id
        BY <3>3, <4>2, <4>4
      <4>5. QED
        BY <4>3, <4>4
    <3> HIDE DEF F
    <3>4. QED
      BY <1>0, <3>2, <3>3 DEF LevelGranted
  <2>2. CASE ReinsertUser(r)
    <3>1. [email |-> req[r].user.email, level |-> req[r].user.level] \in granted
      BY <2>2 DEF ReinsertUser, Decided, Entitled, Holds
    <3>2. QED
      BY <1>0, <2>2, <3>1 DEF ReinsertUser, Decided, LevelGranted
  <2>3. CASE InsertUser(r)
    <3>1. [email |-> req[r].app.email, level |-> req[r].app.level] \in granted
      BY <2>3 DEF InsertUser, Decided, Entitled, Approving
    <3>2. QED
      BY <1>0, <2>3, <3>1 DEF InsertUser, Insert, Decided, LevelGranted
  <2>4. QED
    BY <2>1, <2>2, <2>3
<1>4. QED
  BY <1>0, <1>1, <1>2, <1>3, DecidedStep DEF Handed

LEMMA DecidedApplications ==
    ASSUME Typing, Decided, NEW r \in Requests,
           ApplyInsert(r) \/ SaveWrite(r) \/ SaveInsert(r)
    PROVE  Decided'
<1>0. /\ TypeOK /\ Answer(r) /\ req[r].app \in Application
      /\ UNCHANGED <<users, granted, given, orphaned>>
  BY DEF Typing, Typed, ApplyInsert, SaveWrite, SaveInsert, history
<1>1. Entitled(r)' /\ \A p \in Requests \ {r} : req'[p] = req[p]
  BY <1>0, AnswerEntitled, AnswerHolds
<1>2. LevelGranted'
  BY <1>0 DEF Decided, LevelGranted
<1>3. ApprovedWasGiven'
  <2>1. CASE ApplyInsert(r)
    <3>1. req[r].app.status # "approved"
      BY <2>1 DEF ApplyInsert, Decided, Entitled
    <3>2. [req[r].app EXCEPT !.id = filed + 1].status # "approved"
      BY <1>0, <3>1 DEF Application
    <3>3. QED
      BY <1>0, <2>1, <3>2 DEF ApplyInsert, Decided, ApprovedWasGiven
  <2>2. CASE SaveWrite(r)
    <3>1. req[r].app.status = "approved" => req[r].app.id \in Handed
      BY <2>2 DEF SaveWrite, Decided, Entitled, Saving
    <3> DEFINE F == [a \in applications |->
                       IF a.id = req[r].app.id
                       THEN OverwriteApplication(a, req[r].app, req[r].dirty) ELSE a]
    <3>2. applications' = {F[a] : a \in applications}
      BY <2>2 DEF SaveWrite
    <3>3. ASSUME NEW a \in applications, F[a].status = "approved"
          PROVE  F[a].id \in Handed
      <4>1. a \in Application /\ (a.status = "approved" => a.id \in Handed)
        BY <1>0 DEF TypeOK, Decided, ApprovedWasGiven, Handed
      <4>2. CASE a.id = req[r].app.id
        <5>1. F[a].id = a.id /\ F[a].status \in {a.status, req[r].app.status}
          BY <1>0, <4>1, <4>2, OverwriteAppType
        <5> HIDE DEF F
        <5>2. QED
          BY <3>1, <3>3, <4>1, <4>2, <5>1
      <4>3. CASE a.id # req[r].app.id
        BY <3>3, <4>1, <4>3
      <4>4. QED
        BY <4>2, <4>3
    <3> HIDE DEF F
    <3>4. QED
      BY <1>0, <3>2, <3>3 DEF ApprovedWasGiven, Handed
  <2>3. CASE SaveInsert(r)
    <3>1. req[r].app.status = "approved" => req[r].app.id \in Handed
      BY <2>3 DEF SaveInsert, Decided, Entitled, Saving
    <3>2. QED
      BY <1>0, <2>3, <3>1 DEF SaveInsert, Decided, ApprovedWasGiven, Handed
  <2>4. QED
    BY <1>0, <2>1, <2>2, <2>3 DEF ApplyInsert, SaveWrite, SaveInsert
<1>4. QED
  BY <1>0, <1>1, <1>2, <1>3, DecidedStep DEF Handed

LEMMA DecidedWorld ==
    ASSUME Typing, Rows, Decided, Elsewhere \/ Crash
    PROVE  Decided'
<1>1. ASSUME NEW e \in Emails, NEW level \in AdminLevels \cup {None},
             AccountMadeElsewhere(e, level)
      PROVE  Decided'
  BY <1>1 DEF AccountMadeElsewhere, Insert, Decided, LevelGranted, ApprovedWasGiven, Entitled, Handed
<1>2. ASSUME NEW u \in users, NEW level \in AdminLevels, LevelSetElsewhere(u, level)
      PROVE  Decided'
  <2>1. LevelGranted'
    <3> DEFINE F == [v \in users |-> IF v.id = u.id THEN [v EXCEPT !.level = level] ELSE v]
    <3>1. users' = {F[v] : v \in users}
      BY <1>2 DEF LevelSetElsewhere
    <3>2. granted' = granted \cup {[email |-> u.email, level |-> level]}
      BY <1>2 DEF LevelSetElsewhere
    <3>3. \A v \in users : F[v].level # None =>
              [email |-> F[v].email, level |-> F[v].level] \in granted'
      <4>1. TAKE v \in users
      <4>2. v \in Account
        BY DEF Typing, TypeOK
      <4>3. CASE v.id = u.id
        <5>1. F[v].email = v.email /\ F[v].level = level
          BY <4>2, <4>3 DEF Account
        <5>2. v.email = u.email
          BY <4>3 DEF Rows, UniqueRows
        <5>3. QED
          BY <3>2, <5>1, <5>2
      <4>4. CASE v.id # u.id
        BY <3>2, <4>4 DEF Decided, LevelGranted
      <4>5. QED
        BY <4>3, <4>4
    <3> HIDE DEF F
    <3>4. QED
      BY <3>1, <3>3 DEF LevelGranted
  <2>2. QED
    BY <1>2, <2>1 DEF LevelSetElsewhere, Decided, ApprovedWasGiven, Entitled, Handed
<1>3. ASSUME NEW u \in users, AccountDeleted(u) PROVE Decided'
  BY <1>3 DEF AccountDeleted, Decided, LevelGranted, ApprovedWasGiven, Entitled, Handed
<1>4. CASE Cleaned
  BY <1>4 DEF Cleaned, history, Decided, LevelGranted, ApprovedWasGiven, Entitled, Handed
<1>5. CASE Crash
  <2>1. \A p \in Requests : req'[p].at = "idle"
    BY <1>5 DEF Crash, Idle, Holding
  <2>2. \A p \in Requests : Entitled(p)'
    BY <2>1 DEF Entitled, Approving, Holds, Saving
  <2>3. QED
    BY <1>5, <2>2 DEF Crash, Decided, LevelGranted, ApprovedWasGiven
<1>6. QED
  BY <1>1, <1>2, <1>3, <1>4, <1>5 DEF Elsewhere

LEMMA DecidedInit == Init => Decided
<1> SUFFICES ASSUME Init PROVE Decided
  OBVIOUS
<1>1. \A p \in Requests : req[p].at = "idle"
  BY DEF Init, Idle, Holding
<1>2. \A p \in Requests : Entitled(p)
  BY <1>1 DEF Entitled, Approving, Holds, Saving
<1>3. QED
  BY <1>2 DEF Init, Decided, LevelGranted, ApprovedWasGiven

LEMMA DecidedNext ==
    Typing /\ Rows /\ Orphans /\ Decided /\ [Next]_vars => Decided'
<1>1. ASSUME Typing, Decided, NEW r \in Requests, Client(r) PROVE Decided'
  BY <1>1, DecidedArrive DEF Client
<1>2. ASSUME Typing, Rows, Orphans, Decided, NEW r \in Requests, Step(r) PROVE Decided'
  BY <1>2, DecidedSelect, DecidedFindUser, DecidedGive, DecidedApplications DEF Step
<1>3. CASE UNCHANGED vars
  BY <1>3 DEF vars, history, Decided, LevelGranted, ApprovedWasGiven, Entitled, Handed
<1>4. QED
  BY <1>1, <1>2, <1>3, DecidedWorld DEF Next

\* An account has access only if somebody entitled decided to give that email
\* that level, whichever decisions, saves, deletions and restarts interleave.
THEOREM LevelsGranted == Spec => []LevelGranted
<1>1. Spec => [](Typing /\ Rows /\ Orphans /\ Decided)
  BY TypingInit, TypingNext, RowsInit, RowsNext, OrphansInit, OrphansNext,
     DecidedInit, DecidedNext, PTL DEF Spec
<1>2. Decided => LevelGranted
  BY DEF Decided
<1>3. QED
  BY <1>1, <1>2, PTL

\* An application stands approved only after the account was written, unless an
\* administrator deleted the account when it was about to be.
THEOREM ApprovalsGiven == Spec => []ApprovedWasGiven
<1>1. Spec => [](Typing /\ Rows /\ Orphans /\ Decided)
  BY TypingInit, TypingNext, RowsInit, RowsNext, OrphansInit, OrphansNext,
     DecidedInit, DecidedNext, PTL DEF Spec
<1>2. Decided => ApprovedWasGiven
  BY DEF Decided
<1>3. QED
  BY <1>1, <1>2, PTL

-----------------------------------------------------------------------------
(* Requests that arrive one at a time.                                     *)

\* No two slots are in use.
Alone == \A r, q \in Requests : req[r] # Idle /\ req[q] # Idle => r = q

\* The status, the stamps and what was given tell the same story.
Sound(a) ==
    /\ a.id \in given => a.status = "approved"
    /\ a.status = "approved" <=> CanApprove(a.approvedBy, a.level)
    /\ a.status = "rejected" <=> CanApprove(a.rejectedBy, a.level)

GivenFiled == \A id \in given : id <= filed

\* Only the application that is about to be saved may lag behind.
Saved(a) == Sound(a) \/ \E r \in Requests : req[r].at \in Saving /\ req[r].app.id = a.id

\* Where the request that runs alone has come to.
Stage(r) ==
    /\ req[r].at \in {"applyFind", "applyInsert"} =>
          /\ req[r].app.status = "pending"
          /\ ~CanApprove(req[r].app.approvedBy, req[r].app.level)
          /\ ~CanApprove(req[r].app.rejectedBy, req[r].app.level)
    /\ req[r].at \in Approving =>
          /\ Sound(req[r].app)
          /\ req[r].app.status = "pending"
          /\ CanApprove(req[r].by, req[r].app.level)
          /\ \A a \in applications : a.id = req[r].app.id => a.level = req[r].app.level
    /\ req[r].at \in Saving =>
          /\ Sound(req[r].app)
          /\ \A a \in applications : a.id = req[r].app.id => a.level = req[r].app.level
    /\ req[r].at = "saveWrite" =>
          \A a \in applications : a.id = req[r].app.id =>
              req[r].dirty = Differs(DecisionColumns, req[r].app, a)
    /\ req[r].at = "saveInsert" => AppWithId(req[r].app.id) = {}

Solo ==
    /\ Alone
    /\ GivenFiled
    /\ \A a \in applications : Saved(a)
    /\ \A r \in Requests : Stage(r)

SoloInv == ~disturbed => Solo

\* A slot that is idle is at no stage.
LEMMA IdleStage ==
    ASSUME NEW r \in Requests, req'[r] = Idle
    PROVE  Stage(r)' /\ req'[r].at \notin Saving
  BY DEF Stage, Idle, Holding, Approving, Holds, Saving

\* The step of the only request leaves the other slots idle.
LEMMA AloneStep ==
    ASSUME SoloInv, ~disturbed, NEW r \in Requests, req[r] # Idle,
           \A p \in Requests \ {r} : req'[p] = req[p]
    PROVE  /\ GivenFiled /\ Stage(r) /\ \A a \in applications : Saved(a)
           /\ Alone'
           /\ \A p \in Requests \ {r} : Stage(p)'
           /\ \A a \in applications :
                 Sound(a) \/ (req[r].at \in Saving /\ req[r].app.id = a.id)
<1>1. Solo
  BY DEF SoloInv
<1>2. \A p \in Requests \ {r} : req[p] = Idle /\ req'[p] = Idle
  BY <1>1 DEF Solo, Alone
<1>3. \A p \in Requests \ {r} : req[p].at \notin Saving
  BY <1>2 DEF Saving, Idle, Holding
<1>4. \A p \in Requests \ {r} : Stage(p)'
  BY <1>2, IdleStage
<1>5. Alone'
  BY <1>2 DEF Alone
<1>6. \A a \in applications : Sound(a) \/ (req[r].at \in Saving /\ req[r].app.id = a.id)
  BY <1>1, <1>3 DEF Solo, Saved
<1>7. QED
  BY <1>1, <1>4, <1>5, <1>6 DEF Solo

\* The request that arrives when none is in flight is the only one.
LEMMA AloneArrives ==
    ASSUME Typing, SoloInv, NEW r \in Requests, NEW q, Arrive(r, q), ~disturbed'
    PROVE  /\ GivenFiled /\ \A a \in applications : Sound(a)
           /\ Alone'
           /\ req'[r] = q
           /\ \A p \in Requests \ {r} : Stage(p)'
<1>1. ~disturbed /\ \A p \in Requests : req[p] = Idle
  BY DEF Arrive
<1>2. Solo
  BY <1>1 DEF SoloInv
<1>3. req'[r] = q /\ \A p \in Requests \ {r} : req'[p] = Idle
  BY <1>1 DEF Arrive, Typing, TypeOK
<1>4. \A p \in Requests : req[p].at \notin Saving
  BY <1>1 DEF Saving, Idle, Holding
<1>5. \A p \in Requests \ {r} : Stage(p)'
  BY <1>3, IdleStage
<1>6. Alone'
  BY <1>3 DEF Alone
<1>7. QED
  BY <1>2, <1>3, <1>4, <1>5, <1>6 DEF Solo, Saved

\* A request that reads on.
LEMMA MovedSolo ==
    ASSUME Typing, SoloInv, ~disturbed, NEW r \in Requests, req[r].at # "idle", NEW q,
           req' = [req EXCEPT ![r] = q],
           UNCHANGED <<applications, given, filed>>,
           q.app = req[r].app, q.by = req[r].by,
           q.at \in Saving <=> req[r].at \in Saving,
           q.at \in Approving => req[r].at \in Approving,
           q.at \in {"applyFind", "applyInsert"} => req[r].at \in {"applyFind", "applyInsert"},
           q.at = "saveWrite" =>
               \A a \in applications : a.id = q.app.id =>
                   q.dirty = Differs(DecisionColumns, q.app, a),
           q.at = "saveInsert" => AppWithId(q.app.id) = {}
    PROVE  SoloInv'
<1>1. req'[r] = q /\ \A p \in Requests \ {r} : req'[p] = req[p]
  BY DEF Typing, TypeOK
<1>2. req[r] # Idle
  BY DEF Idle, Holding
<1>3. /\ GivenFiled /\ Stage(r)
      /\ Alone'
      /\ \A p \in Requests \ {r} : Stage(p)'
      /\ \A a \in applications :
            Sound(a) \/ (req[r].at \in Saving /\ req[r].app.id = a.id)
  BY <1>1, <1>2, AloneStep
<1>4. Stage(r)'
  BY <1>1, <1>3 DEF Stage, Sound, AppWithId
<1>5. \A a \in applications' : Saved(a)'
  BY <1>1, <1>3 DEF Saved, Sound
<1>6. GivenFiled'
  BY <1>3 DEF GivenFiled
<1>7. \A p \in Requests : Stage(p)'
  BY <1>3, <1>4
<1>8. QED
  BY <1>3, <1>5, <1>6, <1>7 DEF SoloInv, Solo

\* A request that answers and leaves the applications as they should be.
LEMMA AnsweredSolo ==
    ASSUME Typing, SoloInv, ~disturbed, NEW r \in Requests, req[r].at # "idle", Answer(r),
           UNCHANGED given, GivenFiled', \A a \in applications' : Sound(a)
    PROVE  SoloInv'
<1>1. req'[r] = Idle /\ \A p \in Requests \ {r} : req'[p] = req[p]
  BY DEF Typing, TypeOK, Answer
<1>2. req[r] # Idle
  BY DEF Idle, Holding
<1>3. Alone' /\ \A p \in Requests \ {r} : Stage(p)'
  BY <1>1, <1>2, AloneStep
<1>4. \A p \in Requests : Stage(p)'
  BY <1>1, <1>3, IdleStage
<1>5. \A a \in applications' : Saved(a)'
  BY DEF Saved, Sound
<1>6. QED
  BY <1>3, <1>4, <1>5 DEF SoloInv, Solo

LEMMA ApplySolo ==
    ASSUME Typing, SoloInv, ~disturbed, NEW r \in Requests,
           ApplyFindPending(r) \/ ApplyInsert(r)
    PROVE  SoloInv'
<1>0. /\ TypeOK /\ Typed(req[r]) /\ req[r].at \in {"applyFind", "applyInsert"}
      /\ req[r].at # "idle" /\ req[r] # Idle /\ UNCHANGED given
      /\ Solo /\ GivenFiled
  BY DEF Typing, ApplyFindPending, ApplyInsert, Idle, Holding, SoloInv, Solo, history
<1>1. \A a \in applications : Sound(a)
  <2>1. \A p \in Requests : req[p].at \notin Saving
    BY <1>0 DEF Solo, Alone, Idle, Holding, Saving
  <2>2. QED
    BY <1>0, <2>1 DEF Solo, Saved
<1>2. CASE ApplyFindPending(r)
  <2>1. UNCHANGED <<applications, filed>>
    BY <1>2 DEF ApplyFindPending
  <2>2. CASE Answer(r)
    BY <1>0, <1>1, <2>1, <2>2, AnsweredSolo DEF GivenFiled
  <2>3. CASE Goto(r, "applyInsert")
    <3>1. PICK q : q = [req[r] EXCEPT !.at = "applyInsert"]
      OBVIOUS
    <3>2. q.app = req[r].app /\ q.by = req[r].by /\ q.at = "applyInsert"
      BY <1>0, <3>1 DEF Typed, Request
    <3>3. req' = [req EXCEPT ![r] = q]
      BY <2>3, <3>1 DEF Goto
    <3>4. QED
      BY <1>0, <2>1, <3>2, <3>3, MovedSolo DEF Saving, Approving, Holds
  <2>4. QED
    BY <1>2, <2>2, <2>3 DEF ApplyFindPending
<1>3. CASE ApplyInsert(r)
  <2>1. PICK b : b = [req[r].app EXCEPT !.id = filed + 1]
    OBVIOUS
  <2>2. /\ b.id = filed + 1 /\ b.status = "pending" /\ filed \in Nat
        /\ ~CanApprove(b.approvedBy, b.level)
        /\ ~CanApprove(b.rejectedBy, b.level)
    BY <1>0, <2>1, ApprovalAssumption DEF Solo, Stage, Typed, Application, TypeOK
  <2>3. b.id \notin given
    BY <1>0, <2>2 DEF GivenFiled
  <2>4. Sound(b)
    BY <2>2, <2>3 DEF Sound
  <2>5. \/ applications' = applications \cup {b} /\ filed' = filed + 1
        \/ UNCHANGED <<applications, filed>>
    BY <1>3, <2>1 DEF ApplyInsert
  <2>6. GivenFiled'
    BY <1>0, <2>2, <2>5 DEF GivenFiled, TypeOK, AppIds
  <2>7. \A a \in applications' : Sound(a)
    BY <1>1, <2>4, <2>5
  <2>8. Answer(r)
    BY <1>3 DEF ApplyInsert
  <2>9. QED
    BY <1>0, <2>6, <2>7, <2>8, AnsweredSolo
<1>4. QED
  BY <1>2, <1>3

LEMMA SelectSolo ==
    ASSUME Typing, Rows, SoloInv, ~disturbed, NEW r \in Requests,
           ApproveFindUser(r) \/ SaveUserSelect(r) \/ SaveSelect(r)
    PROVE  SoloInv'
<1>0. TypeOK /\ req[r] \in Request /\ req \in [Requests -> Request]
  BY DEF Typing, TypeOK
<1>1. /\ UNCHANGED <<applications, given, filed>>
      /\ req[r].at # "idle"
  BY DEF ApproveFindUser, SaveUserSelect, SaveSelect, history
<1>2. CASE ApproveFindUser(r)
  <2>1. PICK u : \/ req' = [req EXCEPT ![r] = [req[r] EXCEPT !.at = "insertUser"]]
                 \/ req' = [req EXCEPT ![r] = [req[r] EXCEPT !.at = "saveUser", !.user = u]]
    BY <1>0, <1>2 DEF ApproveFindUser, Goto, Request
  <2>2. PICK q : /\ req' = [req EXCEPT ![r] = q]
                 /\ q.app = req[r].app /\ q.by = req[r].by
                 /\ q.at \in {"insertUser", "saveUser"}
    BY <1>0, <2>1 DEF Request
  <2>3. req[r].at = "approveFindUser"
    BY <1>2 DEF ApproveFindUser
  <2>4. QED
    BY <1>1, <2>2, <2>3, MovedSolo DEF Saving, Approving, Holds
<1>3. CASE SaveUserSelect(r)
  <2>1. PICK d : \/ req' = [req EXCEPT ![r] = [req[r] EXCEPT !.at = "reinsertUser"]]
                 \/ req' = [req EXCEPT ![r] = [req[r] EXCEPT !.at = "writeUser", !.dirty = d]]
    BY <1>0, <1>3 DEF SaveUserSelect, Goto, Request
  <2>2. PICK q : /\ req' = [req EXCEPT ![r] = q]
                 /\ q.app = req[r].app /\ q.by = req[r].by
                 /\ q.at \in {"reinsertUser", "writeUser"}
    BY <1>0, <2>1 DEF Request
  <2>3. req[r].at = "saveUser"
    BY <1>3 DEF SaveUserSelect
  <2>4. QED
    BY <1>1, <2>2, <2>3, MovedSolo DEF Saving, Approving, Holds
<1>4. CASE SaveSelect(r)
  <2>1. req[r].at = "save"
    BY <1>4 DEF SaveSelect
  <2>2. CASE AppWithId(req[r].app.id) = {} /\ Goto(r, "saveInsert")
    <3>1. PICK q : q = [req[r] EXCEPT !.at = "saveInsert"]
      OBVIOUS
    <3>2. q.app = req[r].app /\ q.by = req[r].by /\ q.at = "saveInsert"
      BY <1>0, <3>1 DEF Request
    <3>3. req' = [req EXCEPT ![r] = q]
      BY <2>2, <3>1 DEF Goto
    <3>4. QED
      BY <1>1, <2>1, <2>2, <3>2, <3>3, MovedSolo DEF Saving, Approving, Holds
  <2>3. ASSUME NEW b \in AppWithId(req[r].app.id),
               req' = [req EXCEPT ![r].at = "saveWrite",
                                  ![r].dirty = Differs(DecisionColumns, req[r].app, b)]
        PROVE  SoloInv'
    <3>a. PICK d : d = Differs(DecisionColumns, req[r].app, b)
      OBVIOUS
    <3>1. PICK q : q = [req[r] EXCEPT !.at = "saveWrite", !.dirty = d]
      OBVIOUS
    <3>2. /\ q.app = req[r].app /\ q.by = req[r].by /\ q.at = "saveWrite"
          /\ q.dirty = d
      BY <1>0, <3>1 DEF Request
    <3>3. req' = [req EXCEPT ![r] = q]
      BY <1>0, <2>3, <3>a, <3>1
    <3>4. \A a \in applications : a.id = q.app.id =>
              q.dirty = Differs(DecisionColumns, q.app, a)
      <4>1. b \in applications /\ b.id = req[r].app.id
        BY <2>3 DEF AppWithId
      <4>2. \A a \in applications : a.id = b.id => a = b
        BY <4>1 DEF Rows, UniqueRows
      <4>3. QED
        BY <3>a, <3>2, <4>1, <4>2
    <3>5. QED
      BY <1>1, <2>1, <3>2, <3>3, <3>4, MovedSolo DEF Saving, Approving, Holds
  <2>4. QED
    BY <1>4, <2>2, <2>3 DEF SaveSelect
<1>5. QED
  BY <1>2, <1>3, <1>4

\* The access is given, or its account gone, and the application is still to be
\* saved.
LEMMA GiveSolo ==
    ASSUME Typing, Rows, SoloInv, ~disturbed, NEW r \in Requests,
           req[r].at \in Approving, GoApprove(r), UNCHANGED <<applications, filed>>,
           given' \in {given, given \cup {req[r].app.id}}
    PROVE  SoloInv'
<1>a. PICK app : app = req[r].app
  OBVIOUS
<1>b. PICK by : by = req[r].by
  OBVIOUS
<1>1. req[r] # Idle /\ req[r].at # "idle" /\ req[r].at \notin Saving
  BY DEF Idle, Holding, Approving, Holds, Saving
<1>2. app \in Application /\ by \in LevelOrNone /\ app.id <= filed
  BY <1>a, <1>b, <1>1 DEF Typing, Typed, Request, Rows
<1>3. /\ req'[r].at = "save" /\ req'[r].app = Approved(app, by)
      /\ \A p \in Requests \ {r} : req'[p] = req[p]
      /\ given' \in {given, given \cup {app.id}}
  BY <1>a, <1>b, <1>1, GiveHolds
<1>4. /\ GivenFiled /\ Stage(r)
      /\ Alone'
      /\ \A p \in Requests \ {r} : Stage(p)'
      /\ \A a \in applications :
            Sound(a) \/ (req[r].at \in Saving /\ req[r].app.id = a.id)
  BY <1>1, <1>3, AloneStep
<1>5. /\ Sound(app) /\ app.status = "pending" /\ CanApprove(by, app.level)
      /\ \A a \in applications : a.id = app.id => a.level = app.level
  BY <1>a, <1>b, <1>4 DEF Stage
<1>c. PICK b : b = Approved(app, by)
  OBVIOUS
<1>6. /\ b.id = app.id /\ b.level = app.level /\ b.status = "approved"
      /\ b.approvedBy = by /\ b.rejectedBy = app.rejectedBy
  BY <1>c, <1>2 DEF Approved, Application
<1>7. Sound(b)'
  BY <1>3, <1>5, <1>6 DEF Sound
<1>8. Stage(r)'
  BY <1>c, <1>3, <1>5, <1>6, <1>7 DEF Stage, Approving, Holds
<1>9. \A a \in applications' : Saved(a)'
  <2> SUFFICES ASSUME NEW a \in applications PROVE Saved(a)'
    OBVIOUS
  <2>1. CASE a.id = app.id
    BY <1>c, <1>3, <1>6, <2>1 DEF Saved, Saving
  <2>2. CASE a.id # app.id
    <3>1. Sound(a)
      BY <1>1, <1>4
    <3>2. Sound(a)'
      BY <1>3, <2>2, <3>1 DEF Sound
    <3>3. QED
      BY <3>2 DEF Saved
  <2>3. QED
    BY <2>1, <2>2
<1>10. GivenFiled'
  BY <1>2, <1>3, <1>4 DEF GivenFiled
<1>11. \A p \in Requests : Stage(p)'
  BY <1>4, <1>8
<1>12. QED
  BY <1>4, <1>9, <1>10, <1>11 DEF SoloInv, Solo

\* The account is written, or the request fails and the application is left
\* pending.
LEMMA WriteSolo ==
    ASSUME Typing, Rows, SoloInv, ~disturbed, NEW r \in Requests,
           WriteUser(r) \/ ReinsertUser(r) \/ InsertUser(r)
    PROVE  SoloInv'
<1>1. /\ req[r].at \in Approving /\ req[r].at # "idle" /\ req[r] # Idle
      /\ UNCHANGED <<applications, filed>>
      /\ \/ GoApprove(r) /\ given' \in {given, given \cup {req[r].app.id}}
         \/ Answer(r) /\ UNCHANGED given
  BY DEF WriteUser, ReinsertUser, InsertUser, Give, Approving, Holds, Idle, Holding
<1>2. CASE GoApprove(r) /\ given' \in {given, given \cup {req[r].app.id}}
  BY <1>1, <1>2, GiveSolo
<1>3. CASE Answer(r) /\ UNCHANGED given
  <2>1. Solo /\ \A p \in Requests : req[p].at \notin Saving
    BY <1>1 DEF SoloInv, Solo, Alone, Idle, Holding, Approving, Holds, Saving
  <2>2. \A a \in applications' : Sound(a)
    BY <1>1, <2>1 DEF Solo, Saved
  <2>3. GivenFiled'
    BY <1>1, <1>3, <2>1 DEF Solo, GivenFiled
  <2>4. QED
    BY <1>1, <1>3, <2>2, <2>3, AnsweredSolo
<1>4. QED
  BY <1>1, <1>2, <1>3

LEMMA SaveWriteSolo ==
    ASSUME Typing, Rows, SoloInv, ~disturbed, NEW r \in Requests, SaveWrite(r)
    PROVE  SoloInv'
<1>a. PICK app : app = req[r].app
  OBVIOUS
<1>b. PICK dirty : dirty = req[r].dirty
  OBVIOUS
<1>1. /\ req[r].at = "saveWrite" /\ req[r].at # "idle" /\ req[r] # Idle
      /\ Answer(r) /\ UNCHANGED <<given, filed>>
      /\ applications' = {IF a.id = app.id THEN OverwriteApplication(a, app, dirty)
                          ELSE a : a \in applications}
  BY <1>a, <1>b DEF SaveWrite, Idle, Holding, history
<1>2. \A p \in Requests \ {r} : req'[p] = req[p]
  BY <1>1 DEF Typing, TypeOK, Answer
<1>3. /\ GivenFiled /\ Stage(r)
      /\ \A a \in applications :
            Sound(a) \/ (req[r].at \in Saving /\ req[r].app.id = a.id)
  BY <1>1, <1>2, AloneStep
<1>4. app \in Application /\ applications \subseteq Application
  BY <1>a, <1>1 DEF Typing, TypeOK, Typed
<1>5. /\ Sound(app)
      /\ \A a \in applications : a.id = app.id =>
            a.level = app.level /\ dirty = Differs(DecisionColumns, app, a)
  BY <1>a, <1>b, <1>1, <1>3 DEF Stage, Saving
<1>6. ASSUME NEW a \in applications, a.id = app.id
      PROVE  Sound(OverwriteApplication(a, app, dirty))
  <2>1. PICK w : w = OverwriteApplication(a, app, dirty)
    OBVIOUS
  <2>2. a \in Application
    BY <1>4
  <2>3. /\ w.id = a.id /\ w.level = a.level
        /\ w.status = IF "status" \in dirty THEN app.status ELSE a.status
        /\ w.approvedBy = IF "approvedBy" \in dirty THEN app.approvedBy ELSE a.approvedBy
        /\ w.rejectedBy = IF "rejectedBy" \in dirty THEN app.rejectedBy ELSE a.rejectedBy
    BY <2>1, <2>2 DEF OverwriteApplication, Application
  <2>4. /\ "status" \notin dirty => a.status = app.status
        /\ "approvedBy" \notin dirty => a.approvedBy = app.approvedBy
        /\ "rejectedBy" \notin dirty => a.rejectedBy = app.rejectedBy
    <3>1. dirty = {col \in {"status", "approvedBy", "rejectedBy"} : app[col] # a[col]}
      BY <1>5, <1>6 DEF Differs, DecisionColumns
    <3>2. QED
      BY <3>1
  <2>5. /\ w.id = app.id /\ w.level = app.level /\ w.status = app.status
        /\ w.approvedBy = app.approvedBy /\ w.rejectedBy = app.rejectedBy
    BY <1>5, <1>6, <2>3, <2>4
  <2>6. Sound(w)
    BY <1>5, <2>5 DEF Sound
  <2>7. QED
    BY <2>1, <2>6
<1>7. \A a \in applications : a.id # app.id => Sound(a)
  BY <1>a, <1>3
<1>8. \A a \in applications' : Sound(a)
  BY <1>1, <1>6, <1>7
<1>9. GivenFiled'
  BY <1>1, <1>3 DEF GivenFiled
<1>10. QED
  BY <1>1, <1>8, <1>9, AnsweredSolo

LEMMA SaveInsertSolo ==
    ASSUME Typing, SoloInv, ~disturbed, NEW r \in Requests, SaveInsert(r)
    PROVE  SoloInv'
<1>1. /\ req[r].at = "saveInsert" /\ req[r].at # "idle" /\ req[r] # Idle
      /\ Answer(r) /\ UNCHANGED <<given, filed>>
      /\ \/ applications' = applications \cup {req[r].app}
         \/ applications' = applications
  BY DEF SaveInsert, Idle, Holding, history
<1>2. \A p \in Requests \ {r} : req'[p] = req[p]
  BY <1>1 DEF Typing, TypeOK, Answer
<1>3. /\ GivenFiled /\ Stage(r)
      /\ \A a \in applications :
            Sound(a) \/ (req[r].at \in Saving /\ req[r].app.id = a.id)
  BY <1>1, <1>2, AloneStep
<1>4. Sound(req[r].app)
  BY <1>1, <1>3 DEF Stage, Saving
<1>a. AppWithId(req[r].app.id) = {}
  BY <1>1, <1>3 DEF Stage
<1>5. \A a \in applications' : Sound(a)
  BY <1>a, <1>1, <1>3, <1>4 DEF AppWithId
<1>6. GivenFiled'
  BY <1>1, <1>3 DEF GivenFiled
<1>7. QED
  BY <1>1, <1>5, <1>6, AnsweredSolo

LEMMA ArriveSolo ==
    ASSUME Typing, Rows, SoloInv, NEW r \in Requests, Client(r), ~disturbed'
    PROVE  SoloInv'
<1>0. TypeOK /\ None \notin Level
  BY ApprovalAssumption DEF Typing
<1> DEFINE Starts(q) ==
              \/ \E e \in Emails, level \in Requestable :
                    q = Holding("applyFind", None, Applied(e, level), None)
              \/ \E a \in applications, by \in Deciders :
                    /\ MayDecide(by, a)
                    /\ \/ q = Holding("approveFindUser", by, a, None)
                       \/ q = Holding("save", by, Rejected(a, by), None)
<1>1. PICK q : Arrive(r, q) /\ Starts(q)
  <2>1. ASSUME NEW e \in Emails, NEW level \in Requestable, ApplyFindUser(r, e, level)
        PROVE  \E q : Arrive(r, q) /\ Starts(q)
    BY <2>1 DEF ApplyFindUser
  <2>2. ASSUME NEW a \in applications, NEW by \in Deciders, ApproveFind(r, a, by)
        PROVE  \E q : Arrive(r, q) /\ Starts(q)
    BY <2>2 DEF ApproveFind
  <2>3. ASSUME NEW a \in applications, NEW by \in Deciders, RejectFind(r, a, by)
        PROVE  \E q : Arrive(r, q) /\ Starts(q)
    BY <2>3 DEF RejectFind
  <2> HIDE DEF Starts
  <2>4. QED
    BY <2>1, <2>2, <2>3 DEF Client
<1>2. UNCHANGED <<applications, given, filed>>
  BY DEF Client, ApplyFindUser, ApproveFind, RejectFind
<1>3. /\ GivenFiled /\ \A a \in applications : Sound(a)
      /\ Alone'
      /\ req'[r] = q
      /\ \A p \in Requests \ {r} : Stage(p)'
  BY <1>1, AloneArrives
<1>4. Stage(r)'
  <2>1. ASSUME NEW e \in Emails, NEW level \in Requestable,
               q = Holding("applyFind", None, Applied(e, level), None)
        PROVE  Stage(r)'
    <3>1. /\ q.at = "applyFind" /\ q.app.status = "pending"
          /\ q.app.approvedBy = None /\ q.app.rejectedBy = None
      BY <2>1 DEF Holding, Applied
    <3>2. QED
      BY <1>0, <1>3, <3>1 DEF Stage, CanApprove, Approving, Holds, Saving
  <2>2. ASSUME NEW a \in applications, NEW by \in Deciders, MayDecide(by, a),
               q = Holding("approveFindUser", by, a, None)
        PROVE  Stage(r)'
    <3>1. q.at = "approveFindUser" /\ q.app = a /\ q.by = by
      BY <2>2 DEF Holding
    <3>2. \A b \in applications : b.id = a.id => b = a
      BY DEF Rows, UniqueRows
    <3>3. Sound(a)'
      BY <1>2, <1>3 DEF Sound
    <3>4. a.status = "pending" /\ CanApprove(by, a.level)
      BY <2>2 DEF MayDecide
    <3>5. QED
      BY <1>2, <1>3, <3>1, <3>2, <3>3, <3>4 DEF Stage, Saving
  <2>3. ASSUME NEW a \in applications, NEW by \in Deciders, MayDecide(by, a),
               q = Holding("save", by, Rejected(a, by), None)
        PROVE  Stage(r)'
    <3>0. PICK b : b = Rejected(a, by)
      OBVIOUS
    <3>1. q.at = "save" /\ q.app = b
      BY <2>3, <3>0 DEF Holding
    <3>2. \A c \in applications : c.id = a.id => c = a
      BY DEF Rows, UniqueRows
    <3>3. /\ b.id = a.id /\ b.level = a.level /\ b.status = "rejected"
          /\ b.approvedBy = a.approvedBy /\ b.rejectedBy = by
      BY <1>0, <3>0 DEF Rejected, TypeOK, Application
    <3>4. a.status = "pending" /\ CanApprove(by, a.level) /\ Sound(a)
      BY <1>3, <2>3 DEF MayDecide
    <3>5. Sound(b)'
      BY <1>2, <3>3, <3>4 DEF Sound
    <3>6. QED
      BY <1>2, <1>3, <3>1, <3>2, <3>3, <3>5 DEF Stage, Approving, Holds
  <2>4. QED
    BY <1>1, <2>1, <2>2, <2>3
<1>5. \A a \in applications' : Saved(a)'
  BY <1>2, <1>3 DEF Saved, Sound
<1>6. GivenFiled'
  BY <1>2, <1>3 DEF GivenFiled
<1>7. \A p \in Requests : Stage(p)'
  BY <1>3, <1>4
<1>8. QED
  BY <1>3, <1>5, <1>6, <1>7 DEF SoloInv, Solo

\* Accounts do not matter to the applications, and a cleanup only empties them.
LEMMA WorldSolo ==
    ASSUME SoloInv, ~disturbed, Elsewhere
    PROVE  SoloInv'
<1>1. /\ UNCHANGED <<req, given, filed, disturbed>>
      /\ applications' \subseteq applications
  BY DEF Elsewhere, AccountMadeElsewhere, LevelSetElsewhere, AccountDeleted, Cleaned, history
<1>2. Solo
  BY DEF SoloInv
<1>3. GivenFiled' /\ Alone'
  BY <1>1, <1>2 DEF Solo, GivenFiled, Alone
<1>4. \A a \in applications' : Saved(a)'
  BY <1>1, <1>2 DEF Solo, Saved, Sound
<1>5. ASSUME NEW r \in Requests
      PROVE  Stage(r)'
  <2>1. Stage(r)
    BY <1>2 DEF Solo
  <2>2. QED
    BY <1>1, <2>1 DEF Stage, Sound, AppWithId
<1>6. QED
  BY <1>3, <1>4, <1>5 DEF SoloInv, Solo

LEMMA SoloInit == Init => SoloInv
<1> SUFFICES ASSUME Init PROVE SoloInv
  OBVIOUS
<1>1. \A r \in Requests : req[r] = Idle
  BY DEF Init
<1>2. \A r \in Requests : Stage(r)
  BY <1>1 DEF Stage, Idle, Holding, Approving, Holds, Saving
<1>3. Alone /\ GivenFiled /\ \A a \in applications : Saved(a)
  BY <1>1 DEF Init, Alone, GivenFiled
<1>4. QED
  BY <1>2, <1>3 DEF SoloInv, Solo

LEMMA SoloNext == Typing /\ Rows /\ SoloInv /\ [Next]_vars => SoloInv'
<1> SUFFICES ASSUME Typing, Rows, SoloInv, [Next]_vars, ~disturbed'
             PROVE  SoloInv'
  BY DEF SoloInv
<1>1. ASSUME NEW r \in Requests, Client(r) PROVE SoloInv'
  BY <1>1, ArriveSolo
<1>2. ASSUME NEW r \in Requests, Step(r) PROVE SoloInv'
  <2>1. ~disturbed
    BY <1>2 DEF Step, ApplyFindPending, ApplyInsert, ApproveFindUser, SaveUserSelect,
       WriteUser, ReinsertUser, InsertUser, SaveSelect, SaveWrite, SaveInsert, history
  <2>2. QED
    BY <1>2, <2>1, ApplySolo, SelectSolo, WriteSolo, SaveWriteSolo, SaveInsertSolo DEF Step
<1>3. CASE Elsewhere
  <2>1. ~disturbed
    BY <1>3 DEF Elsewhere, AccountMadeElsewhere, LevelSetElsewhere, AccountDeleted,
       Cleaned, history
  <2>2. QED
    BY <1>3, <2>1, WorldSolo
<1>4. CASE Crash
  BY <1>4 DEF Crash
<1>5. CASE UNCHANGED vars
  BY <1>5 DEF vars, history, SoloInv, Solo, Alone, GivenFiled, Saved, Sound, Stage,
     AppWithId
<1>6. QED
  BY <1>1, <1>2, <1>3, <1>4, <1>5 DEF Next

\* As long as requests arrive one at a time, an application is decided once:
\* where its access was given it stands approved, and its stamp is of
\* somebody who outranks the level (approveAccount and rejectAccount).
THEOREM DecisionsStand == Spec => []DecisionStands
<1>1. Spec => [](Typing /\ Rows /\ SoloInv)
  BY TypingInit, TypingNext, RowsInit, RowsNext, SoloInit, SoloNext, PTL DEF Spec
<1>2. SoloInv => DecisionStands
  <2>1. AllIdle => \A r \in Requests : req[r].at \notin Saving
    BY DEF AllIdle, Idle, Holding, Saving
  <2>2. QED
    BY <2>1 DEF SoloInv, Solo, Saved, Sound, DecisionStands
<1>3. QED
  BY <1>1, <1>2, PTL

-----------------------------------------------------------------------------
(* A decision is not undone.                                               *)

\* What is saved is decided.
Settled == \A r \in Requests : req[r].at \in Saving => req[r].app.status # "pending"

\* A step either leaves a slot as it is, makes it idle, or takes it on.
LEMMA SettledNext == Typing /\ Settled /\ [Next]_vars => Settled'
<1> SUFFICES ASSUME Typing, Settled, [Next]_vars
             PROVE  Settled'
  OBVIOUS
<1>0. req \in [Requests -> Request]
  BY DEF Typing, TypeOK
<1>1. ASSUME NEW r \in Requests, NEW q, req' = [req EXCEPT ![r] = q],
             q.at \in Saving => q.app.status # "pending"
      PROVE  Settled'
  BY <1>0, <1>1 DEF Settled
<1>2. Idle.at \notin Saving
  BY DEF Idle, Holding, Saving
<1>3. ASSUME NEW r \in Requests, Answer(r)
      PROVE  Settled'
  BY <1>1, <1>2, <1>3 DEF Answer
<1>4. ASSUME NEW r \in Requests, NEW label, Goto(r, label), label \in Saving => req[r].at \in Saving
      PROVE  Settled'
  <2>1. PICK q : q = [req[r] EXCEPT !.at = label]
    OBVIOUS
  <2>2. q.at = label /\ q.app = req[r].app
    BY <1>0, <2>1 DEF Request
  <2>3. req' = [req EXCEPT ![r] = q]
    BY <1>4, <2>1 DEF Goto
  <2>4. QED
    BY <1>1, <1>4, <2>2, <2>3 DEF Settled
<1>5. ASSUME NEW r \in Requests, Client(r)
      PROVE  Settled'
  <2>1. ASSUME NEW e \in Emails, NEW level \in Requestable, ApplyFindUser(r, e, level)
        PROVE  Settled'
    BY <1>1, <2>1 DEF ApplyFindUser, Arrive, Holding, Saving
  <2>2. ASSUME NEW a \in applications, NEW by \in Deciders, ApproveFind(r, a, by)
        PROVE  Settled'
    BY <1>1, <2>2 DEF ApproveFind, Arrive, Holding, Saving
  <2>3. ASSUME NEW a \in applications, NEW by \in Deciders, RejectFind(r, a, by)
        PROVE  Settled'
    <3>1. PICK q : q = Holding("save", by, Rejected(a, by), None)
      OBVIOUS
    <3>2. q.app.status = "rejected"
      BY <3>1 DEF Holding, Rejected, Typing, TypeOK, Application
    <3>3. QED
      BY <1>1, <2>3, <3>1, <3>2 DEF RejectFind, Arrive
  <2>4. QED
    BY <1>5, <2>1, <2>2, <2>3 DEF Client
<1>6. ASSUME NEW r \in Requests, GoApprove(r), req[r].at # "idle"
      PROVE  Settled'
  <2>1. PICK q : q = ToSave(r, Approved(req[r].app, req[r].by))
    OBVIOUS
  <2>2. req[r].app \in Application /\ req[r] \in Request
    BY <1>6 DEF Typing, Typed
  <2>3. q.app.status = "approved"
    BY <2>1, <2>2 DEF ToSave, Approved, Application, Request
  <2>4. QED
    BY <1>1, <1>6, <2>1, <2>3 DEF GoApprove
<1>7. ASSUME NEW r \in Requests, Step(r)
      PROVE  Settled'
  <2>1. CASE ApplyFindPending(r)
    BY <1>3, <1>4, <2>1 DEF ApplyFindPending, Saving
  <2>2. CASE ApplyInsert(r) \/ SaveWrite(r) \/ SaveInsert(r)
    BY <1>3, <2>2 DEF ApplyInsert, SaveWrite, SaveInsert
  <2>3. CASE ApproveFindUser(r)
    <3>1. ASSUME NEW user,
                 req' = [req EXCEPT ![r].at = "saveUser", ![r].user = user]
          PROVE  Settled'
      <4>1. req'[r].at = "saveUser" /\ \A p \in Requests \ {r} : req'[p] = req[p]
        BY <1>0, <3>1 DEF Request
      <4>2. QED
        BY <4>1 DEF Settled, Saving
    <3>2. QED
      BY <1>4, <2>3, <3>1 DEF ApproveFindUser, Saving
  <2>4. CASE SaveUserSelect(r)
    <3>1. ASSUME NEW dirty,
                 req' = [req EXCEPT ![r].at = "writeUser", ![r].dirty = dirty]
          PROVE  Settled'
      <4>1. req'[r].at = "writeUser" /\ \A p \in Requests \ {r} : req'[p] = req[p]
        BY <1>0, <3>1 DEF Request
      <4>2. QED
        BY <4>1 DEF Settled, Saving
    <3>2. QED
      BY <1>4, <2>4, <3>1 DEF SaveUserSelect, Saving
  <2>5. CASE WriteUser(r) \/ ReinsertUser(r) \/ InsertUser(r)
    BY <1>3, <1>6, <2>5 DEF WriteUser, ReinsertUser, InsertUser, Give
  <2>6. CASE SaveSelect(r)
    <3>1. ASSUME NEW dirty,
                 req' = [req EXCEPT ![r].at = "saveWrite", ![r].dirty = dirty]
          PROVE  Settled'
      <4>1. req'[r].app = req[r].app /\ \A p \in Requests \ {r} : req'[p] = req[p]
        BY <1>0, <3>1 DEF Request
      <4>2. req[r].app.status # "pending"
        BY <2>6 DEF SaveSelect, Settled, Saving
      <4>3. QED
        BY <4>1, <4>2 DEF Settled
    <3>2. QED
      BY <1>4, <2>6, <3>1 DEF SaveSelect, Saving
  <2>7. QED
    BY <1>7, <2>1, <2>2, <2>3, <2>4, <2>5, <2>6 DEF Step
<1>8. CASE Elsewhere \/ UNCHANGED vars
  BY <1>8 DEF Elsewhere, AccountMadeElsewhere, LevelSetElsewhere, AccountDeleted, Cleaned,
              vars, Settled
<1>9. CASE Crash
  BY <1>2, <1>9 DEF Crash, Settled
<1>10. QED
  BY <1>5, <1>7, <1>8, <1>9 DEF Next

\* Of the steps that write applications, the insert of a new one gives a new id, a
\* write puts a decided status or leaves the one there is, and what is inserted
\* again is decided.
LEMMA DecidedOnce ==
    ASSUME Typing, Settled, [Next]_vars, NEW b \in applications', b.status = "pending"
    PROVE  \/ b.id > filed
           \/ \E a \in applications : a.id = b.id /\ a.status = "pending"
<1> DEFINE Waits == \/ b.id > filed
                    \/ \E a \in applications : a.id = b.id /\ a.status = "pending"
<1>1. CASE b \in applications
  BY <1>1
<1>2. ASSUME NEW r \in Requests, ApplyInsert(r), b \notin applications
      PROVE  Waits
  <2>1. req[r].app \in Application /\ filed \in Nat
    BY <1>2, ApprovalAssumption DEF ApplyInsert, Typing, Typed, TypeOK
  <2>2. b = [req[r].app EXCEPT !.id = filed + 1]
    BY <1>2 DEF ApplyInsert
  <2>3. b.id = filed + 1
    BY <2>1, <2>2 DEF Application
  <2>4. QED
    BY <2>1, <2>3
<1>3. ASSUME NEW r \in Requests, SaveWrite(r)
      PROVE  Waits
  <2>1. PICK app, dirty : app = req[r].app /\ dirty = req[r].dirty
    OBVIOUS
  <2>2. app \in Application /\ app.status # "pending"
    BY <1>3, <2>1 DEF SaveWrite, Typing, Typed, Settled, Saving
  <2>3. PICK c \in applications :
            b = IF c.id = app.id THEN OverwriteApplication(c, app, dirty) ELSE c
    BY <1>3, <2>1 DEF SaveWrite
  <2>4. c \in Application
    BY DEF Typing, TypeOK
  <2>5. CASE c.id = app.id
    <3>1. b.id = c.id /\ b.status \in {c.status, app.status}
      BY <2>2, <2>3, <2>4, <2>5, OverwriteAppType
    <3>2. QED
      BY <2>2, <3>1
  <2>6. CASE c.id # app.id
    BY <2>3, <2>6
  <2>7. QED
    BY <2>5, <2>6
<1>4. ASSUME NEW r \in Requests, SaveInsert(r), b \notin applications
      PROVE  Waits
  <2>1. req[r].app.status # "pending"
    BY <1>4 DEF SaveInsert, Settled, Saving
  <2>2. QED
    BY <1>4, <2>1 DEF SaveInsert
<1> HIDE DEF Waits
<1>5. ASSUME NEW r \in Requests, Client(r) \/ Step(r), b \notin applications
      PROVE  Waits
  BY <1>2, <1>3, <1>4, <1>5
  DEF Client, ApplyFindUser, ApproveFind, RejectFind, Step, ApplyFindPending, ApproveFindUser,
      SaveUserSelect, WriteUser, ReinsertUser, InsertUser, SaveSelect
<1>6. ASSUME Elsewhere \/ Crash \/ UNCHANGED vars
      PROVE  b \in applications
  BY <1>6 DEF Elsewhere, AccountMadeElsewhere, LevelSetElsewhere, AccountDeleted,
              Cleaned, Crash, vars
<1>7. Waits
  BY <1>1, <1>5, <1>6 DEF Next, Waits
<1>8. QED
  BY <1>7 DEF Waits

\* However decisions overlap, save each other's application late or bring back one
\* that was cleaned away, an application that is decided never waits for a decision
\* again.
THEOREM DecisionsAreFinal == Spec => StaysDecided
<1>1. Init => Settled
  BY DEF Init, Settled, Idle, Holding, Saving
<1>2. Spec => [](Typing /\ Settled)
  BY <1>1, TypingInit, TypingNext, SettledNext, PTL DEF Spec
<1>3. Typing /\ Settled /\ [Next]_vars =>
          [\A b \in applications' :
              b.status = "pending" =>
                  \/ b.id > filed
                  \/ \E a \in applications : a.id = b.id /\ a.status = "pending"]_vars
  BY DecidedOnce
<1>4. QED
  BY <1>2, <1>3, PTL DEF Spec, StaysDecided
=============================================================================
