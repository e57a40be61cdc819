--------------------------- MODULE AccountApproval ---------------------------
(***************************************************************************)
(* Applications for an account with access: AccountApprovalService over    *)
(* the tables pending_accounts and users                                   *)
(* (src/src/modules/account-approval/account-approval.service.ts), beside  *)
(* sign-up and the administrators who write users too, and performCleanup, *)
(* which empties pending_accounts.                                         *)
(*                                                                         *)
(* Every awaited call is a step of its own.  Both tables are written with  *)
(* save(entity): TypeORM selects the row by id, then writes the columns in *)
(* which the entity differs from it, or inserts the entity when the row is *)
(* gone.  An approver is known by the access level in its token.           *)
(***************************************************************************)
EXTENDS AccessControl, FiniteSets

CONSTANTS Emails,
          Requests,        \* slots for requests in flight
          MaxAccounts,     \* bound: accounts created in a behaviour
          MaxApplications, \* bound: applications filed in a behaviour
          MaxCrashes,      \* bound: restarts of the server in a behaviour
          AdminLevels,     \* bound: the levels administrators set directly
          None             \* the null of the code

ASSUME ApprovalAssumption ==
    /\ MaxAccounts \in Nat
    /\ MaxApplications \in Nat
    /\ MaxCrashes \in Nat
    /\ AdminLevels \subseteq Level
    /\ None \notin Emails \cup Level

Ids == 1 .. MaxAccounts
AppIds == 0 .. MaxApplications   \* 0: not stored yet

LevelOrNone == Level \cup {None}

\* approvedBy is written together with the level, status and department.
Account == [id : Ids, email : Emails, level : LevelOrNone, approvedBy : LevelOrNone]
AccountColumns == {"level", "approvedBy"}

\* A row of pending_accounts, with the columns a decision writes.
Application == [id : AppIds, email : Emails, level : Requestable,
                status : {"pending", "approved", "rejected"},
                approvedBy : LevelOrNone, rejectedBy : LevelOrNone]
DecisionColumns == {"status", "approvedBy", "rejectedBy"}

Label == {"idle", "applyFind", "applyInsert",
          "approveFindUser", "insertUser", "saveUser", "writeUser", "reinsertUser",
          "save", "saveWrite", "saveInsert"}

VARIABLES
    users,        \* table users: a set of accounts
    applications, \* table pending_accounts: a set of rows
    req,          \* req[r]: what slot r holds of the request it serves
    created,      \* accounts created so far
    filed,        \* applications filed so far
    crashes,      \* restarts so far
    \* History, which no handler reads:
    granted,      \* [email, level]: access somebody entitled decided to give
    given,        \* the applications whose level was written to an account
    orphaned,     \* those whose account was deleted when it was about to be written
    disturbed     \* some request overlapped another one or was cut by a restart

history == <<granted, given, orphaned, disturbed>>
vars == <<users, applications, req, created, filed, crashes, history>>

\* A request about to take step label, with what its handler has in memory:
\* the approver's level, the application and the account it read.
Holding(label, by, app, user) ==
    [at |-> label, by |-> by, app |-> app, user |-> user, dirty |-> {}]

Idle == Holding("idle", None, None, None)

Request == [at : Label, by : LevelOrNone,
            app : Application \cup {None}, user : Account \cup {None},
            dirty : SUBSET (AccountColumns \cup DecisionColumns)]

Init ==
    /\ users = {}
    /\ applications = {}
    /\ req = [r \in Requests |-> Idle]
    /\ created = 0
    /\ filed = 0
    /\ crashes = 0
    /\ granted = {}
    /\ given = {}
    /\ orphaned = {}
    /\ disturbed = FALSE

-----------------------------------------------------------------------------
(* Repositories and requests.                                              *)

AccountsOf(e) == {u \in users : u.email = e}
WithId(id) == {u \in users : u.id = id}
ApplicationsOf(e) == {a \in applications : a.email = e}
AppWithId(id) == {a \in applications : a.id = id}

Arrive(r, request) ==
    /\ req[r] = Idle
    /\ req' = [req EXCEPT ![r] = request]
    /\ disturbed' = (disturbed \/ \E q \in Requests \ {r} : req[q] # Idle)

Goto(r, label) == req' = [req EXCEPT ![r].at = label]
Answer(r) == req' = [req EXCEPT ![r] = Idle]

Differs(columns, entity, row) == {col \in columns : entity[col] # row[col]}

-----------------------------------------------------------------------------
(* createPendingAccount                                                    *)

\* The application as it will be stored, once it gets its id.
Applied(e, level) ==
    [id |-> 0, email |-> e, level |-> level, status |-> "pending",
     approvedBy |-> None, rejectedBy |-> None]

\* findOne on users: an account with the email refuses the application.
ApplyFindUser(r, e, level) ==
    /\ AccountsOf(e) = {}
    /\ Arrive(r, Holding("applyFind", None, Applied(e, level), None))
    /\ UNCHANGED <<users, applications, created, filed, crashes, granted, given, orphaned>>

\* findOne on pending_accounts: an application of any status refuses it.
ApplyFindPending(r) ==
    /\ req[r].at = "applyFind"
    /\ IF ApplicationsOf(req[r].app.email) = {} THEN Goto(r, "applyInsert") ELSE Answer(r)
    /\ UNCHANGED <<users, applications, created, filed, crashes, history>>

\* save of a new row; the unique index on email may refuse it.
ApplyInsert(r) ==
    /\ req[r].at = "applyInsert"
    /\ Answer(r)
    /\ IF ApplicationsOf(req[r].app.email) = {} /\ filed < MaxApplications
       THEN /\ filed' = filed + 1
            /\ applications' = applications \cup {[req[r].app EXCEPT !.id = filed + 1]}
       ELSE UNCHANGED <<applications, filed>>
    /\ UNCHANGED <<users, created, crashes, history>>

-----------------------------------------------------------------------------
(* approveAccount and rejectAccount                                        *)

\* Mutant: the status of an account is taken for that of an application.
ApprovedActive(a, by) == [a EXCEPT !.status = "active", !.approvedBy = by]

Approved(a, by) == [a EXCEPT !.status = "approved", !.approvedBy = by]

\* Mutant: the application that was read is stamped and keeps its status.
RejectedUnsaid(a, by) == [a EXCEPT !.rejectedBy = by]

Rejected(a, by) == [a EXCEPT !.status = "rejected", !.rejectedBy = by]

\* Mutant: an application that was rejected may be approved later.
MayDecideAgain(by, a) ==
    /\ a.status # "approved"
    /\ CanApprove(by, a.level)

\* findOne by id; the status must be pending and the approver outrank the
\* level that is asked for.
MayDecide(by, a) ==
    /\ a.status = "pending"
    /\ CanApprove(by, a.level)

ApproveFind(r, a, by) ==
    /\ MayDecide(by, a)
    /\ Arrive(r, Holding("approveFindUser", by, a, None))
    /\ granted' = granted \cup {[email |-> a.email, level |-> a.level]}
    /\ UNCHANGED <<users, applications, created, filed, crashes, given, orphaned>>

\* Mutant: the account gets the approver's own level.
ApproveFindUserOwnLevel(r) ==
    /\ req[r].at = "approveFindUser"
    /\ \/ /\ AccountsOf(req[r].app.email) = {}
          /\ Goto(r, "insertUser")
       \/ \E u \in AccountsOf(req[r].app.email) :
             req' = [req EXCEPT ![r].at = "saveUser",
                                ![r].user = [u EXCEPT !.level = req[r].by,
                                                      !.approvedBy = req[r].by]]
    /\ UNCHANGED <<users, applications, created, filed, crashes, history>>

\* findOne on users by email: an account is updated, none is created.
ApproveFindUser(r) ==
    /\ req[r].at = "approveFindUser"
    /\ \/ /\ AccountsOf(req[r].app.email) = {}
          /\ Goto(r, "insertUser")
       \/ \E u \in AccountsOf(req[r].app.email) :
             req' = [req EXCEPT ![r].at = "saveUser",
                                ![r].user = [u EXCEPT !.level = req[r].app.level,
                                                      !.approvedBy = req[r].by]]
    /\ UNCHANGED <<users, applications, created, filed, crashes, history>>

\* What the handler holds once the account was written, or the application
\* rejected: the application, to be saved as decided.
ToSave(r, a) == [req[r] EXCEPT !.at = "save", !.app = a, !.user = None, !.dirty = {}]

\* The application is saved next, approved.
GoApprove(r) == req' = [req EXCEPT ![r] = ToSave(r, Approved(req[r].app, req[r].by))]

\* The account has the level.
Give(r) == given' = given \cup {req[r].app.id} /\ GoApprove(r)

\* save of the account: the select by id.
SaveUserSelect(r) ==
    /\ req[r].at = "saveUser"
    /\ \/ /\ WithId(req[r].user.id) = {}
          /\ Goto(r, "reinsertUser")
       \/ \E u \in WithId(req[r].user.id) :
             req' = [req EXCEPT ![r].at = "writeUser",
                                ![r].dirty = Differs(AccountColumns, req[r].user, u)]
    /\ UNCHANGED <<users, applications, created, filed, crashes, history>>

OverwriteAccount(u, entity, cols) ==
    [u EXCEPT !.level      = IF "level" \in cols THEN entity.level ELSE @,
              !.approvedBy = IF "approvedBy" \in cols THEN entity.approvedBy ELSE @]

\* An update of an account deleted since the select changes nothing, and goes
\* for success.
WriteUser(r) ==
    /\ req[r].at = "writeUser"
    /\ users' = {IF u.id = req[r].user.id
                 THEN OverwriteAccount(u, req[r].user, req[r].dirty) ELSE u : u \in users}
    /\ IF WithId(req[r].user.id) = {} THEN GoApprove(r) /\ UNCHANGED given ELSE Give(r)
    /\ UNCHANGED <<applications, created, filed, crashes, granted, orphaned, disturbed>>

\* The deleted account comes back, unless a unique index refuses it and the
\* request fails.
ReinsertUser(r) ==
    /\ req[r].at = "reinsertUser"
    /\ IF WithId(req[r].user.id) = {} /\ AccountsOf(req[r].user.email) = {}
       THEN /\ users' = users \cup {req[r].user}
            /\ Give(r)
       ELSE /\ Answer(r)
            /\ UNCHANGED <<users, given>>
    /\ UNCHANGED <<applications, created, filed, crashes, granted, orphaned, disturbed>>

\* A new account, without a password.
Insert(e, level, by) ==
    /\ created' = created + 1
    /\ users' = users \cup {[id |-> created + 1, email |-> e, level |-> level,
                             approvedBy |-> by]}

\* Mutant: a refused insert is passed over.
InsertUserAnyhow(r) ==
    /\ req[r].at = "insertUser"
    /\ IF AccountsOf(req[r].app.email) = {} /\ created < MaxAccounts
       THEN /\ Insert(req[r].app.email, req[r].app.level, req[r].by)
            /\ Give(r)
       ELSE /\ GoApprove(r)
            /\ UNCHANGED <<users, created, given>>
    /\ UNCHANGED <<applications, filed, crashes, granted, orphaned, disturbed>>

\* save of a new account; the unique index on email may refuse it.
InsertUser(r) ==
    /\ req[r].at = "insertUser"
    /\ IF AccountsOf(req[r].app.email) = {} /\ created < MaxAccounts
       THEN /\ Insert(req[r].app.email, req[r].app.level, req[r].by)
            /\ Give(r)
       ELSE /\ Answer(r)
            /\ UNCHANGED <<users, created, given>>
    /\ UNCHANGED <<applications, filed, crashes, granted, orphaned, disturbed>>

\* rejectAccount: findOne by id and the same checks.
RejectFind(r, a, by) ==
    /\ MayDecide(by, a)
    /\ Arrive(r, Holding("save", by, Rejected(a, by), None))
    /\ UNCHANGED <<users, applications, created, filed, crashes, granted, given, orphaned>>

\* save of the decided application: select, then write or insert, and answer.
SaveSelect(r) ==
    /\ req[r].at = "save"
    /\ \/ /\ AppWithId(req[r].app.id) = {}
          /\ Goto(r, "saveInsert")
       \/ \E a \in AppWithId(req[r].app.id) :
             req' = [req EXCEPT ![r].at = "saveWrite",
                                ![r].dirty = Differs(DecisionColumns, req[r].app, a)]
    /\ UNCHANGED <<users, applications, created, filed, crashes, history>>

OverwriteApplication(a, entity, cols) ==
    [a EXCEPT !.status     = IF "status" \in cols THEN entity.status ELSE @,
              !.approvedBy = IF "approvedBy" \in cols THEN entity.approvedBy ELSE @,
              !.rejectedBy = IF "rejectedBy" \in cols THEN entity.rejectedBy ELSE @]

SaveWrite(r) ==
    /\ req[r].at = "saveWrite"
    /\ applications' = {IF a.id = req[r].app.id
                        THEN OverwriteApplication(a, req[r].app, req[r].dirty) ELSE a :
                        a \in applications}
    /\ Answer(r)
    /\ UNCHANGED <<users, created, filed, crashes, history>>

\* The application was cleaned away: it comes back decided, unless the email
\* applied again in the meantime.
SaveInsert(r) ==
    /\ req[r].at = "saveInsert"
    /\ IF AppWithId(req[r].app.id) = {} /\ ApplicationsOf(req[r].app.email) = {}
       THEN applications' = applications \cup {req[r].app}
       ELSE UNCHANGED applications
    /\ Answer(r)
    /\ UNCHANGED <<users, created, filed, crashes, history>>

-----------------------------------------------------------------------------
(* The world around the handlers.                                          *)

\* verifyOtp opens an account without access, createAccount one with a level.
AccountMadeElsewhere(e, level) ==
    /\ AccountsOf(e) = {}
    /\ created < MaxAccounts
    /\ Insert(e, level, None)
    /\ granted' = granted \cup (IF level = None THEN {} ELSE {[email |-> e, level |-> level]})
    /\ UNCHANGED <<applications, req, filed, crashes, given, orphaned, disturbed>>

\* updateAccount sets the level by id.
LevelSetElsewhere(u, level) ==
    /\ users' = {IF v.id = u.id THEN [v EXCEPT !.level = level] ELSE v : v \in users}
    /\ granted' = granted \cup {[email |-> u.email, level |-> level]}
    /\ UNCHANGED <<applications, req, created, filed, crashes, given, orphaned, disturbed>>

\* deleteAccount, and performCleanup with adminAccounts: accounts with access.
AccountDeleted(u) ==
    /\ u.level # None
    /\ users' = users \ {u}
    /\ orphaned' = orphaned \cup
           {req[r].app.id : r \in {q \in Requests : req[q].at = "writeUser" /\ req[q].user.id = u.id}}
    /\ UNCHANGED <<applications, req, created, filed, crashes, granted, given, disturbed>>

\* performCleanup with the option pendingAccounts.
Cleaned ==
    /\ applications # {}
    /\ applications' = {}
    /\ UNCHANGED <<users, req, created, filed, crashes, history>>

\* The server restarts: the requests in flight are lost.
Crash ==
    /\ crashes < MaxCrashes
    /\ \E r \in Requests : req[r] # Idle
    /\ crashes' = crashes + 1
    /\ req' = [r \in Requests |-> Idle]
    /\ disturbed' = TRUE
    /\ UNCHANGED <<users, applications, created, filed, granted, given, orphaned>>

\* Somebody sends a request.
Client(r) ==
    \/ \E e \in Emails, level \in Requestable : ApplyFindUser(r, e, level)
    \/ \E a \in applications, by \in Deciders : ApproveFind(r, a, by) \/ RejectFind(r, a, by)

\* A step of a request that has arrived.
Step(r) ==
    \/ ApplyFindPending(r) \/ ApplyInsert(r)
    \/ ApproveFindUser(r) \/ SaveUserSelect(r) \/ WriteUser(r)
    \/ ReinsertUser(r) \/ InsertUser(r)
    \/ SaveSelect(r) \/ SaveWrite(r) \/ SaveInsert(r)

Elsewhere ==
    \/ \E e \in Emails, level \in AdminLevels \cup {None} : AccountMadeElsewhere(e, level)
    \/ \E u \in users, level \in AdminLevels : LevelSetElsewhere(u, level)
    \/ \E u \in users : AccountDeleted(u)
    \/ Cleaned

Next ==
    \/ \E r \in Requests : Client(r) \/ Step(r)
    \/ Elsewhere
    \/ Crash

Spec == Init /\ [][Next]_vars

-----------------------------------------------------------------------------
(* What is true of every reachable state.                                  *)

\* The tables hold rows of their types, and a request in flight holds what
\* its handler has read so far.
TypeOK ==
    /\ users \subseteq Account
    /\ applications \subseteq Application
    /\ req \in [Requests -> Request]
    /\ created \in 0 .. MaxAccounts
    /\ filed \in 0 .. MaxApplications
    /\ crashes \in 0 .. MaxCrashes
    /\ granted \subseteq [email : Emails, level : Level]
    /\ given \subseteq AppIds
    /\ orphaned \subseteq AppIds
    /\ disturbed \in BOOLEAN

\* Accounts and applications are unique by id and by email: the indexes of the
\* tables, which the proofs rest on.
UniqueRows ==
    /\ \A u, v \in users : u.id = v.id \/ u.email = v.email => u = v
    /\ \A a, b \in applications : a.id = b.id \/ a.email = b.email => a = b

\* The access of an account is one that an entitled approver or administrator
\* decided to give to that email: an application that was only ever rejected
\* opens nothing, and a late save gives no account the access of another one.
LevelGranted ==
    \A u \in users : u.level # None => [email |-> u.email, level |-> u.level] \in granted

\* An application is marked approved only after its account was written, so a
\* restart in between leaves it pending and it can be approved again
\* (approveAccount, lines 149-186).  The exception: an account that was deleted
\* between the select and the update of its save, which then writes no row and
\* says nothing.
ApprovedWasGiven ==
    \A a \in applications : a.status = "approved" => a.id \in given \cup orphaned

AllIdle == req = [r \in Requests |-> Idle]

\* As long as requests arrive one at a time, an application is decided once:
\* where the access was given it stands approved, and the one stamp it carries
\* is of somebody who outranks the level.
DecisionStands ==
    (~disturbed /\ AllIdle) =>
        \A a \in applications :
            /\ a.id \in given => a.status = "approved"
            /\ a.status = "approved" <=> CanApprove(a.approvedBy, a.level)
            /\ a.status = "rejected" <=> CanApprove(a.rejectedBy, a.level)

\* A decision is not undone: however decisions overlap, save each other's
\* application late or bring back one that was cleaned away, an application waits
\* for a decision only when it was just filed or was waiting before ("Account is
\* not in pending status", line 138).
StaysDecided ==
    [][\A b \in applications' :
          b.status = "pending" =>
              \/ b.id > filed
              \/ \E a \in applications : a.id = b.id /\ a.status = "pending"]_vars
=============================================================================
