----------------------------- MODULE Credentials -----------------------------
(***************************************************************************)
(* What happens to an account and its password: AuthService.login,         *)
(* refreshToken, forgotPassword, resetPassword and UserService's           *)
(* createAccount, updateAccount, deleteAccount, changePassword,            *)
(* changeOwnPassword, repairOrphanedAccount over the tables users and      *)
(* password_resets (src/src/modules/auth/auth.service.ts,                  *)
(* src/src/modules/user), beside approveAccount, which writes users too.   *)
(*                                                                         *)
(* Every awaited call is a step of its own, as in Registration.  The       *)
(* handlers that write with update(id, {..}) touch the named columns only; *)
(* login, resetPassword and approveAccount write with save(user), which    *)
(* puts every column of the entity they read back.                         *)
(*                                                                         *)
(* A link stands for the pair (token hash, expiresAt) of a reset row and   *)
(* is also its id.  Of the columns updateAccount may change only email is  *)
(* kept, the one that other handlers look accounts up by.  session says    *)
(* whether a refresh token is stored.                                      *)
(***************************************************************************)
EXTENDS Naturals, FiniteSets

CONSTANTS Emails, Passwords,
          Requests,     \* slots for requests in flight
          MaxAccounts,  \* bound: accounts created in a behaviour
          MaxLinks,     \* bound: reset links generated in a behaviour
          MaxCrashes,   \* bound: restarts of the server in a behaviour
          None          \* the null of the code

\* What the requests in flight are for.
Operations == {"login", "refresh", "forgot", "reset", "approve", "account"}

ASSUME CredentialsAssumption ==
    /\ MaxAccounts \in Nat
    /\ MaxLinks \in Nat
    /\ MaxCrashes \in Nat
    /\ None \notin Emails \cup Passwords \cup Operations

Ids == 1 .. MaxAccounts
Links == 1 .. MaxLinks

\* password is None in an account that was approved and not repaired yet.
Account == [id : Ids, email : Emails, password : Passwords \cup {None},
            session : BOOLEAN]

Columns == {"email", "password", "session"}

Reset == [link : Links, email : Emails]

Label == {"idle", "save", "saveWrite", "saveInsert", "respond",
          "fgtDelete", "fgtInsert", "fgtQueue", "fgtCleanup",
          "rstDiscard", "rstFindUser", "rstDelete",
          "create", "setPassword", "setEmail", "remove",
          "tellCreated", "tellPassword", "tellEmail", "tellRemoved"}

VARIABLES
    users,     \* table users: a set of accounts
    resets,    \* table password_resets: a set of rows, email is not unique
    expired,   \* the links whose expiresAt has passed
    req,       \* req[r]: what slot r holds of the request it serves
    created,   \* accounts created so far
    crashes,   \* restarts so far
    \* History, which no handler reads:
    generated, \* every link generated, with its email
    chosen,    \* <<id, password>>: the owner or an administrator chose it
    spent,     \* the links whose reset was answered with success
    disturbed, \* a request was overlapped or cut by a restart, see Apart
    seen       \* what clients were told and may count on, see History

history == <<generated, chosen, spent, disturbed, seen>>
vars == <<users, resets, expired, req, created, crashes, history>>

\* A request about to take step label, with what its handler has in memory:
\* its arguments, the row it read and the link it generated or was sent.
Holding(label, op, id, e, val, row, link) ==
    [at |-> label, op |-> op, id |-> id, email |-> e, value |-> val,
     row |-> row, link |-> link, dirty |-> {}]

Idle == Holding("idle", None, 0, None, None, None, 0)

Request == [at : Label, op : Operations \cup {None},
            id : 0 .. MaxAccounts, email : Emails \cup {None},
            value : Passwords \cup {None},
            row : Account \cup {None}, link : 0 .. MaxLinks,
            dirty : SUBSET Columns]

\* told: what answers with success said of columns that no request which came
\* since is about to change; gone: the accounts whose deletion was answered;
\* raced: the slots whose request met another one that changes the same column
\* of the same account; linked: the links whose mail was put on the queue.
History == [told : SUBSET [id : Ids, column : {"email", "password"}, value : Emails \cup Passwords],
            gone : SUBSET Ids, raced : SUBSET Requests, linked : SUBSET Links]

NothingSeen == [told |-> {}, gone |-> {}, raced |-> {}, linked |-> {}]

Init ==
    /\ users = {}
    /\ resets = {}
    /\ expired = {}
    /\ req = [r \in Requests |-> Idle]
    /\ created = 0
    /\ crashes = 0
    /\ generated = {}
    /\ chosen = {}
    /\ spent = {}
    /\ disturbed = FALSE
    /\ seen = NothingSeen

-----------------------------------------------------------------------------
(* Repositories, requests and history.                                     *)

AccountsOf(e) == {u \in users : u.email = e}
WithId(id) == {u \in users : u.id = id}
ResetsOf(e) == {s \in resets : s.email = e}
DeleteResets(e) == resets' = resets \ ResetsOf(e)

\* userRepository.update(id, { column: value }); nothing when the row is gone.
UpdateColumn(id, column, val) ==
    users' = {IF u.id = id THEN [u EXCEPT ![column] = val] ELSE u : u \in users}

Record(h) == seen' = IF disturbed' THEN NothingSeen ELSE h

\* Request q is to write the column of account q.id, or wrote it and did not
\* answer yet.
Touches(q, column) ==
    \/ q.at \in {"remove", "tellRemoved", "tellCreated"}
    \/ column = "email" /\ q.at \in {"setEmail", "tellEmail"}
    \/ column = "password" /\ (q.at \in {"setPassword", "tellPassword"} \/ q.op = "reset")

Contend(p, q) ==
    p.id = q.id /\ \E column \in {"email", "password"} : Touches(p, column) /\ Touches(q, column)

Rivals(r, q) == {p \in Requests \ {r} : Contend(q, req[p])}

\* From now on the answers that told of what q is to write may be outdated,
\* and who of q and its rivals writes last is open.
Begun(r, q) ==
    [seen EXCEPT !.told = {t \in @ : ~(t.id = q.id /\ Touches(q, t.column))},
                 !.raced = (@ \ {r}) \cup Rivals(r, q)
                              \cup {p \in {r} : Rivals(r, q) # {}}]

\* The answer of slot r tells what its request wrote, and what a request
\* that had rivals wrote it cannot tell.
ToldBy(r) ==
    [seen EXCEPT !.told = @ \cup
        {t \in [id : {req[r].id}, column : {"email", "password"}, value : {req[r].email, req[r].value}] :
            /\ r \notin seen.raced
            /\ Touches(req[r], t.column)
            /\ t.value = IF t.column = "email" THEN req[r].email ELSE req[r].value}]

\* Requests that write single columns do not disturb each other.
Apart(op, other) == op = "account" /\ other = "account"

Arrive(r, request) ==
    /\ req[r] = Idle
    /\ req' = [req EXCEPT ![r] = request]
    /\ disturbed' = \/ disturbed
                     \/ \E q \in Requests \ {r} :
                           req[q] # Idle /\ ~Apart(request.op, req[q].op)
    /\ Record(Begun(r, request))

Goto(r, label) == req' = [req EXCEPT ![r].at = label]
Answer(r) == req' = [req EXCEPT ![r] = Idle]

-----------------------------------------------------------------------------
(* login                                                                   *)

\* findOne by email and bcrypt.compare.  Without an account, without a
\* password in it or with another password the request fails and changes
\* nothing; otherwise the entity, with a new lastLoginAt, is to be saved.
LoginFind(r, e, pw) ==
    \E u \in AccountsOf(e) :
        /\ u.password = pw
        /\ Arrive(r, Holding("save", "login", u.id, e, None, u, 0))
        /\ UNCHANGED <<users, resets, expired, created, crashes, generated, chosen, spent>>

-----------------------------------------------------------------------------
(* userRepository.save(user): TypeORM selects the row by id, then writes   *)
(* the columns in which the entity in memory differs from what it          *)
(* selected, or inserts the entity when the row is gone.                   *)

DirtyColumns(entity, row) == {col \in Columns : entity[col] # row[col]}

SaveSelect(r) ==
    /\ req[r].at = "save"
    /\ \/ /\ WithId(req[r].id) = {}
          /\ Goto(r, "saveInsert")
       \/ \E u \in WithId(req[r].id) :
             req' = [req EXCEPT ![r].at = "saveWrite",
                                ![r].dirty = DirtyColumns(req[r].row, u)]
    /\ UNCHANGED <<users, resets, expired, created, crashes, history>>

AfterSave(r) ==
    CASE req[r].op = "login"   -> [req[r] EXCEPT !.at = "respond", !.dirty = {}]
      [] req[r].op = "reset"   -> [req[r] EXCEPT !.at = "rstDelete", !.dirty = {}]
      [] req[r].op = "approve" -> Idle

Overwrite(u, entity, cols) ==
    [u EXCEPT !.email    = IF "email" \in cols THEN entity.email ELSE @,
              !.password = IF "password" \in cols THEN entity.password ELSE @,
              !.session  = IF "session" \in cols THEN entity.session ELSE @]

\* Mutant: the update finds its row by email.
SaveWriteByEmail(r) ==
    /\ req[r].at = "saveWrite"
    /\ users' = {IF u.email = req[r].email
                 THEN Overwrite(u, req[r].row, req[r].dirty) ELSE u : u \in users}
    /\ req' = [req EXCEPT ![r] = AfterSave(r)]
    /\ UNCHANGED <<resets, expired, created, crashes, history>>

\* The unique index on email would refuse to give account id the email e.
Taken(id, e) == WithId(id) # {} /\ \E u \in AccountsOf(e) : u.id # id

\* An update of an account deleted since the select changes nothing.
SaveWrite(r) ==
    /\ req[r].at = "saveWrite"
    /\ IF "email" \in req[r].dirty /\ Taken(req[r].id, req[r].row.email)
       THEN /\ UNCHANGED users
            /\ Answer(r)
       ELSE /\ users' = {IF u.id = req[r].id
                         THEN Overwrite(u, req[r].row, req[r].dirty) ELSE u : u \in users}
            /\ req' = [req EXCEPT ![r] = AfterSave(r)]
    /\ UNCHANGED <<resets, expired, created, crashes, history>>

\* The deleted account comes back, unless another save was first or another
\* account took its email: then a unique index refuses it and the request fails.
SaveInsert(r) ==
    /\ req[r].at = "saveInsert"
    /\ IF WithId(req[r].id) = {} /\ AccountsOf(req[r].row.email) = {}
       THEN /\ users' = users \cup {req[r].row}
            /\ req' = [req EXCEPT ![r] = AfterSave(r)]
       ELSE /\ UNCHANGED users
            /\ Answer(r)
    /\ UNCHANGED <<resets, expired, created, crashes, history>>

\* generateAuthResponse: update of the token columns only, then the answer.
Respond(r) ==
    /\ req[r].at = "respond"
    /\ UpdateColumn(req[r].id, "session", TRUE)
    /\ Answer(r)
    /\ UNCHANGED <<resets, expired, created, crashes, history>>

-----------------------------------------------------------------------------
(* refreshToken                                                            *)

\* isActive is declared on the entity without a column, so no row that was
\* read has it.
Active(u) == "isActive" \in DOMAIN u

\* The client sends the token stored in u, or another one; it may be expired.
Refresh(r, u, stored, fresh) ==
    LET ok == Active(u) /\ u.session /\ stored /\ fresh IN
    /\ req[r] = Idle
    /\ IF ok THEN Arrive(r, Holding("respond", "refresh", u.id, u.email, None, u, 0))
             ELSE UNCHANGED <<req, disturbed, seen>>
    /\ UNCHANGED <<users, resets, expired, created, crashes, generated, chosen, spent>>

-----------------------------------------------------------------------------
(* forgotPassword                                                          *)

FreshLink == Cardinality(generated) + 1

\* findOne by email; without an account the answer is the same and nothing
\* happens.  Otherwise a token is generated and hashed.
ForgotFind(r, e) ==
    /\ AccountsOf(e) # {}
    /\ FreshLink \in Links
    /\ generated' = generated \cup {[link |-> FreshLink, email |-> e]}
    /\ Arrive(r, Holding("fgtDelete", "forgot", 0, e, None, None, FreshLink))
    /\ UNCHANGED <<users, resets, expired, created, crashes, chosen, spent>>

\* Mutant: older links are left.
ForgotDeleteNothing(r) ==
    /\ req[r].at = "fgtDelete"
    /\ Goto(r, "fgtInsert")
    /\ UNCHANGED <<users, resets, expired, created, crashes, history>>

ForgotDelete(r) ==
    /\ req[r].at = "fgtDelete"
    /\ DeleteResets(req[r].email)
    /\ Goto(r, "fgtInsert")
    /\ UNCHANGED <<users, expired, created, crashes, history>>

ForgotInsert(r) ==
    /\ req[r].at = "fgtInsert"
    /\ resets' = resets \cup {[link |-> req[r].link, email |-> req[r].email]}
    /\ Goto(r, "fgtQueue")
    /\ UNCHANGED <<users, expired, created, crashes, history>>

\* queuePasswordResetEmail resolves and the handler answers.
ForgotQueue(r) ==
    /\ req[r].at = "fgtQueue"
    /\ Answer(r)
    /\ UNCHANGED <<users, resets, expired, created, crashes,
                   generated, chosen, spent, disturbed>>
    /\ Record([seen EXCEPT !.linked = @ \cup {req[r].link}])

\* queuePasswordResetEmail rejects.
ForgotQueueFails(r) ==
    /\ req[r].at = "fgtQueue"
    /\ Goto(r, "fgtCleanup")
    /\ UNCHANGED <<users, resets, expired, created, crashes, history>>

ForgotCleanup(r) ==
    /\ req[r].at = "fgtCleanup"
    /\ DeleteResets(req[r].email)
    /\ Answer(r)
    /\ UNCHANGED <<users, expired, created, crashes, history>>

-----------------------------------------------------------------------------
(* resetPassword                                                           *)

\* find of all rows and bcrypt.compare with each; without a match nothing
\* changes.  used is false in every row that is ever stored.
ResetFind(r, link, pw) ==
    \E s \in resets :
        /\ s.link = link
        /\ Arrive(r, Holding(IF link \in expired THEN "rstDiscard" ELSE "rstFindUser",
                             "reset", 0, s.email, pw, None, link))
        /\ UNCHANGED <<users, resets, expired, created, crashes, generated, chosen, spent>>

\* passwordResetRepository.delete({ id })
DeleteLink(r) == resets' = {s \in resets : s.link # req[r].link}

ResetDiscard(r) ==
    /\ req[r].at = "rstDiscard"
    /\ DeleteLink(r)
    /\ Answer(r)
    /\ UNCHANGED <<users, expired, created, crashes, history>>

\* The entity of u with the new password is to be saved.
ResetTo(r, u) ==
    LET q == [req[r] EXCEPT !.at = "save", !.id = u.id,
                            !.row = [u EXCEPT !.password = req[r].value]]
    IN /\ req' = [req EXCEPT ![r] = q]
       /\ Record(Begun(r, q))

\* Mutant: whether an account was found is not looked at.
ResetFindUserAnyway(r) ==
    /\ req[r].at = "rstFindUser"
    /\ UNCHANGED <<users, resets, expired, created, crashes, generated, spent, disturbed>>
    /\ \/ /\ AccountsOf(req[r].email) = {}
          /\ ResetTo(r, [id |-> 0, email |-> req[r].email, password |-> None, session |-> FALSE])
          /\ UNCHANGED chosen
       \/ \E u \in AccountsOf(req[r].email) :
             /\ ResetTo(r, u)
             /\ chosen' = chosen \cup {<<u.id, req[r].value>>}

\* findOne by the email of the reset row; the new password is hashed into
\* the entity.  Without an account the request fails and the row stays.
ResetFindUser(r) ==
    /\ req[r].at = "rstFindUser"
    /\ UNCHANGED <<users, resets, expired, created, crashes, generated, spent, disturbed>>
    /\ \/ /\ AccountsOf(req[r].email) = {}
          /\ Answer(r)
          /\ UNCHANGED <<chosen, seen>>
       \/ \E u \in AccountsOf(req[r].email) :
             /\ ResetTo(r, u)
             /\ chosen' = chosen \cup {<<u.id, req[r].value>>}

\* Mutant: the used link stays.
ResetDeleteForgotten(r) ==
    /\ req[r].at = "rstDelete"
    /\ spent' = spent \cup {req[r].link}
    /\ Answer(r)
    /\ UNCHANGED <<users, resets, expired, created, crashes, generated, chosen, disturbed>>
    /\ Record(ToldBy(r))

\* delete({ id }), then the answer.
ResetDelete(r) ==
    /\ req[r].at = "rstDelete"
    /\ DeleteLink(r)
    /\ spent' = spent \cup {req[r].link}
    /\ Answer(r)
    /\ UNCHANGED <<users, expired, created, crashes, generated, chosen, disturbed>>
    /\ Record(ToldBy(r))

-----------------------------------------------------------------------------
(* UserService                                                             *)

\* createAccount: findOne by email, then the password is hashed.
CreateFind(r, e, pw) ==
    /\ AccountsOf(e) = {}
    /\ Arrive(r, Holding("create", "account", 0, e, pw, None, 0))
    /\ UNCHANGED <<users, resets, expired, created, crashes, generated, chosen, spent>>

\* Another account is inserted.
Insert(id, e, pw) ==
    /\ created' = created + 1
    /\ users' = users \cup {[id |-> id, email |-> e, password |-> pw, session |-> FALSE]}

\* save of a new user; the unique index on email may refuse it.
CreateInsert(r) ==
    /\ req[r].at = "create"
    /\ IF AccountsOf(req[r].email) = {} /\ created < MaxAccounts
       THEN /\ Insert(created + 1, req[r].email, req[r].value)
            /\ chosen' = chosen \cup {<<created + 1, req[r].value>>}
            /\ req' = [req EXCEPT ![r].at = "tellCreated", ![r].id = created + 1]
       ELSE /\ UNCHANGED <<users, created, chosen>>
            /\ Answer(r)
    /\ UNCHANGED <<resets, expired, crashes, generated, spent, disturbed, seen>>

\* findOne by id before an update by id: the account is there, and the request
\* goes on to write val; of what it read only the id is used.
\* The controller's own findById comes before and is not kept.
Find(r, u, label, val) ==
    /\ Arrive(r, Holding(label, "account", u.id, u.email, val, None, 0))
    /\ UNCHANGED <<users, resets, expired, created, crashes, generated, spent>>

\* changePassword, by an administrator.
ChangePassword(r, u, pw) ==
    /\ Find(r, u, "setPassword", pw)
    /\ chosen' = chosen \cup {<<u.id, pw>>}

\* changeOwnPassword: the account must have a password and the client send it.
ChangeOwnPassword(r, u, current, pw) ==
    /\ u.password = current
    /\ Find(r, u, "setPassword", pw)
    /\ chosen' = chosen \cup {<<u.id, pw>>}

\* repairOrphanedAccount: the account must have no password.
RepairOrphanedAccount(r, u, pw) ==
    /\ u.password = None
    /\ Find(r, u, "setPassword", pw)
    /\ chosen' = chosen \cup {<<u.id, pw>>}

\* update(id, { password })
SetPassword(r) ==
    /\ req[r].at = "setPassword"
    /\ UpdateColumn(req[r].id, "password", req[r].value)
    /\ Goto(r, "tellPassword")
    /\ UNCHANGED <<resets, expired, created, crashes, history>>

\* updateAccount, with a new email e.
UpdateAccount(r, u, e) ==
    /\ Arrive(r, Holding("setEmail", "account", u.id, e, None, None, 0))
    /\ UNCHANGED <<users, resets, expired, created, crashes, generated, chosen, spent>>

\* update(id, { email, .. }); the unique index may refuse it.
SetEmail(r) ==
    /\ req[r].at = "setEmail"
    /\ IF Taken(req[r].id, req[r].email)
       THEN /\ UNCHANGED users
            /\ Answer(r)
       ELSE /\ UpdateColumn(req[r].id, "email", req[r].email)
            /\ Goto(r, "tellEmail")
    /\ UNCHANGED <<resets, expired, created, crashes, history>>

DeleteAccount(r, u) ==
    /\ Find(r, u, "remove", None)
    /\ UNCHANGED chosen

\* Mutant: the delete is by email.
RemoveByEmail(r) ==
    /\ req[r].at = "remove"
    /\ users' = users \ AccountsOf(req[r].email)
    /\ Goto(r, "tellRemoved")
    /\ UNCHANGED <<resets, expired, created, crashes, history>>

\* userRepository.remove(user): a delete by id.
Remove(r) ==
    /\ req[r].at = "remove"
    /\ users' = users \ WithId(req[r].id)
    /\ Goto(r, "tellRemoved")
    /\ UNCHANGED <<resets, expired, created, crashes, history>>

\* The method returns and its caller is answered.
Tell(r) ==
    /\ req[r].at \in {"tellCreated", "tellPassword", "tellEmail"}
    /\ Answer(r)
    /\ UNCHANGED <<users, resets, expired, created, crashes, generated, chosen, spent, disturbed>>
    /\ Record(ToldBy(r))

TellRemoved(r) ==
    /\ req[r].at = "tellRemoved"
    /\ Answer(r)
    /\ UNCHANGED <<users, resets, expired, created, crashes, generated, chosen, spent, disturbed>>
    /\ Record([seen EXCEPT !.gone = @ \cup {req[r].id}])

-----------------------------------------------------------------------------
(* The world around the handlers.                                          *)

\* AccountApprovalService.approveAccount: an account the email already has is
\* updated with save, otherwise one is inserted, without a password.
ApproveFind(r, u) ==
    /\ Arrive(r, Holding("save", "approve", u.id, u.email, None, u, 0))
    /\ UNCHANGED <<users, resets, expired, created, crashes, generated, chosen, spent>>

ApproveInsert(e) ==
    /\ AccountsOf(e) = {}
    /\ created < MaxAccounts
    /\ Insert(created + 1, e, None)
    /\ UNCHANGED <<resets, expired, req, crashes, history>>

\* expiresAt of a stored link passes.
Expire(link) ==
    /\ \E s \in resets : s.link = link
    /\ link \notin expired
    /\ expired' = expired \cup {link}
    /\ UNCHANGED <<users, resets, req, created, crashes, history>>

\* The server restarts: the requests in flight are lost.
Crash ==
    /\ crashes < MaxCrashes
    /\ \E r \in Requests : req[r] # Idle
    /\ crashes' = crashes + 1
    /\ req' = [r \in Requests |-> Idle]
    /\ disturbed' = (disturbed \/ \E r \in Requests : req[r].op \notin {"account", None})
    /\ Record(seen)
    /\ UNCHANGED <<users, resets, expired, created, generated, chosen, spent>>

\* A client sends a request.
Client(r) ==
    \/ \E e \in Emails, pw \in Passwords : LoginFind(r, e, pw)
    \/ \E u \in users, stored, fresh \in BOOLEAN : Refresh(r, u, stored, fresh)
    \/ \E e \in Emails : ForgotFind(r, e)
    \/ \E link \in Links, pw \in Passwords : ResetFind(r, link, pw)
    \/ \E e \in Emails, pw \in Passwords : CreateFind(r, e, pw)
    \/ \E u \in users :
          \/ \E pw \in Passwords : ChangePassword(r, u, pw)
          \/ \E current, pw \in Passwords : ChangeOwnPassword(r, u, current, pw)
          \/ \E pw \in Passwords : RepairOrphanedAccount(r, u, pw)
          \/ \E e \in Emails : UpdateAccount(r, u, e)
          \/ DeleteAccount(r, u)
          \/ ApproveFind(r, u)

\* A step of a request that has arrived.
Step(r) ==
    \/ SaveSelect(r) \/ SaveWrite(r) \/ SaveInsert(r) \/ Respond(r)
    \/ ForgotDelete(r) \/ ForgotInsert(r)
    \/ ForgotQueue(r) \/ ForgotQueueFails(r) \/ ForgotCleanup(r)
    \/ ResetDiscard(r) \/ ResetFindUser(r) \/ ResetDelete(r)
    \/ CreateInsert(r) \/ SetPassword(r) \/ SetEmail(r) \/ Remove(r)
    \/ Tell(r) \/ TellRemoved(r)

Next ==
    \/ \E r \in Requests : Client(r) \/ Step(r)
    \/ \E e \in Emails : ApproveInsert(e)
    \/ \E link \in Links : Expire(link)
    \/ Crash

Spec == Init /\ [][Next]_vars

-----------------------------------------------------------------------------
(* What is true of every reachable state.                                  *)

\* The tables hold rows of their types, and a request in flight holds what
\* its handler has read so far.
TypeOK ==
    /\ users \subseteq Account
    /\ resets \subseteq Reset
    /\ expired \subseteq Links
    /\ req \in [Requests -> Request]
    /\ created \in 0 .. MaxAccounts
    /\ crashes \in 0 .. MaxCrashes
    /\ generated \subseteq Reset
    /\ chosen \subseteq Ids \X Passwords
    /\ spent \subseteq Links
    /\ disturbed \in BOOLEAN
    /\ seen \in History

\* Ids and emails are unique: the indexes of users, which the proofs rest on.
UniqueAccounts ==
    \A u, v \in users : u.id = v.id \/ u.email = v.email => u = v

\* A password of an account is one that its owner or an administrator chose
\* for that very account, whatever stale entities login, resetPassword and
\* approveAccount save late, and also after accounts were deleted or renamed
\* and their emails taken again.
PasswordChosen ==
    \A u \in users : u.password # None => <<u.id, u.password>> \in chosen

\* A link whose reset was answered with success is never stored again
\* (resetPassword, "Mark token as used and delete it", and the deletes of
\* forgotPassword), so that it cannot be used another time.
SpentLinksGone == \A s \in resets : s.link \notin spent

AllIdle == req = [r \in Requests |-> Idle]
Newest(g) == \A h \in generated : h.email = g.email => h.link <= g.link

\* When the requests that touch links do not overlap, an email has no reset
\* row but the one of its newest link, and that row, once its mail is queued,
\* is stored until it expires or is spent: nothing that administrators do
\* meanwhile takes it away.  That the link then changes a password is not
\* said: resetPassword looks the account up by the email of the row, and finds
\* none after a rename or a delete, or the one that took the email.
LinkStands ==
    (~disturbed /\ AllIdle) =>
        /\ \A s \in resets : Newest(s)
        /\ \A g \in generated :
              Newest(g) /\ g.link \in seen.linked \ (expired \cup spent) => g \in resets

\* As long as no login, reset or approval overlaps another request: what an
\* answer said of the email or the password of an account is so until a
\* request to change it comes, and an account whose deletion was answered is
\* gone.  Requests of administrators and owners may overlap each other in any
\* way and be cut by a restart, between the write and the answer too: that
\* leaves what no answer told of and makes no answer untrue.  Of requests that
\* race to write one column of one account nobody can tell the last.
AnswersStand ==
    ~disturbed =>
        /\ \A t \in seen.told : \E u \in users : u.id = t.id /\ u[t.column] = t.value
        /\ \A u \in users : u.id \notin seen.gone

-----------------------------------------------------------------------------
(* What the source says and the code does not do.                          *)

\* "Update last login" (auth.service.ts:289): the save of login writes
\* lastLoginAt and changes no account's password.
LoginKeepsPassword ==
    [][\A r \in Requests :
          req[r].op = "login" /\ req[r].at = "saveWrite" /\ req'[r].at = "respond" =>
              \A u \in users, v \in users' : u.id = v.id => v.password = u.password]_vars
=============================================================================
