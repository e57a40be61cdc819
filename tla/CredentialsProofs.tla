------------------------- MODULE CredentialsProofs -------------------------
(***************************************************************************)
(* The safety of accounts, passwords and reset links for any number of     *)
(* emails, passwords, concurrent requests, accounts, links and restarts.   *)
(*                                                                         *)
(* Five inductive invariants, each resting on the ones before: what a      *)
(* request holds has its type (Typing); the entities in memory agree with  *)
(* the accounts (Accounts); a link that is not stored yet is known to      *)
(* nobody else (LinksGood); as long as no login, reset or approval meets   *)
(* another request, what a request in flight knows of links is true        *)
(* (SoloInv); and under the same condition what was told of an account is  *)
(* so, whatever waits between a write and its answer (AnswersInv).         *)
(***************************************************************************)
EXTENDS Credentials, FiniteSetTheorems, TLAPS

Saving == {"save", "saveWrite", "saveInsert"}
Forgetting == {"fgtDelete", "fgtInsert", "fgtQueue", "fgtCleanup"}
Writing == {"setPassword", "setEmail", "remove"}
Telling == {"tellCreated", "tellPassword", "tellEmail", "tellRemoved"}

\* What a request q holds when it is about to take step q.at.
Typed(q) ==
    /\ q \in Request
    /\ q.at \in Saving => /\ q.row \in Account
                          /\ q.id \in Ids
                          /\ q.op \in {"login", "reset", "approve"}
    /\ q.at \in Saving /\ q.op = "reset" => q.value \in Passwords /\ q.link \in Links
    /\ q.at \in {"rstFindUser", "rstDelete"} =>
          q.op = "reset" /\ q.value \in Passwords /\ q.link \in Links
    /\ q.at \in {"rstDelete"} \cup Writing \cup Telling => q.id \in Ids
    /\ q.at \in {"create", "setPassword", "tellCreated", "tellPassword"} => q.value \in Passwords
    /\ q.at \in {"create", "setEmail", "tellCreated", "tellEmail"} => q.email \in Emails
    /\ q.at \in {"create"} \cup Writing \cup Telling => q.op = "account"
    /\ q.at \in Forgetting => q.link \in Links /\ q.email \in Emails

Typing == TypeOK /\ \A r \in Requests : Typed(req[r])

\* The password of u, an account or an entity, was chosen for account u.id.
Chosen(u) == u.password # None => <<u.id, u.password>> \in chosen

\* An entity that slot r is to save is of the account it is saved to.
Grounded(r) ==
    /\ req[r].at \in Saving => /\ req[r].id <= created
                               /\ req[r].row.id = req[r].id
                               /\ Chosen(req[r].row)
    /\ req[r].at = "setPassword" => <<req[r].id, req[r].value>> \in chosen

Accounts ==
    /\ UniqueAccounts
    /\ PasswordChosen
    /\ \A u \in users : u.id <= created
    /\ \A r \in Requests : Grounded(r)

-----------------------------------------------------------------------------
(* Types.                                                                  *)

\* An idle slot and an empty history have their types.
LEMMA IdleType == Typed(Idle) /\ Idle \in Request /\ NothingSeen \in History
<1>1. Idle \in Request
  BY CredentialsAssumption DEF Idle, Holding, Request, Label
<1>2. Typed(Idle)
  BY <1>1 DEF Typed, Idle, Holding, Saving, Forgetting, Writing, Telling
<1>3. NothingSeen \in History
  BY DEF NothingSeen, History
<1>4. QED
  BY <1>1, <1>2, <1>3

\* A slot that takes over request q holds it, and the others stay.
LEMMA SlotHolds ==
    ASSUME TypeOK, NEW r \in Requests, NEW q, Typed(q), req' = [req EXCEPT ![r] = q]
    PROVE  /\ req' \in [Requests -> Request]
           /\ req'[r] = q
           /\ \A p \in Requests \ {r} : req'[p] = req[p]
  BY DEF TypeOK, Typed

\* A slot that answered is idle.
LEMMA SlotIdle ==
    ASSUME TypeOK, NEW r \in Requests, Answer(r)
    PROVE  /\ req' \in [Requests -> Request]
           /\ req'[r] = Idle
           /\ \A p \in Requests \ {r} : req'[p] = req[p]
  BY IdleType, SlotHolds DEF Answer

\* Moving a request to another label keeps its type and its other fields.
LEMMA SlotMoves ==
    ASSUME TypeOK, NEW r \in Requests, NEW label \in Label, Goto(r, label)
    PROVE  /\ req' \in [Requests -> Request]
           /\ req'[r] = [req[r] EXCEPT !.at = label]
           /\ req'[r].at = label
           /\ req'[r].op = req[r].op
           /\ req'[r].id = req[r].id
           /\ req'[r].email = req[r].email
           /\ req'[r].value = req[r].value
           /\ req'[r].row = req[r].row
           /\ req'[r].link = req[r].link
           /\ \A p \in Requests \ {r} : req'[p] = req[p]
  BY DEF TypeOK, Goto, Request

\* What is seen keeps its type.
LEMMA RecordType ==
    ASSUME NEW h \in History, Record(h)
    PROVE  seen' \in History
  BY IdleType DEF Record

\* What is seen when a request begins is of the type of what is seen.
LEMMA BegunType ==
    ASSUME seen \in History, NEW r \in Requests, NEW q
    PROVE  Begun(r, q) \in History
<1> DEFINE still == {t \in seen.told : ~(t.id = q.id /\ Touches(q, t.column))}
           slots == (seen.raced \ {r}) \cup Rivals(r, q)
                        \cup {p \in {r} : Rivals(r, q) # {}}
<1>1. still \subseteq seen.told /\ slots \subseteq Requests
  BY DEF History, Rivals
<1>2. Begun(r, q) = [seen EXCEPT !.told = still, !.raced = slots]
  BY DEF Begun
<1>3. QED
  <2> HIDE DEF still, slots
  <2>1. QED
    BY <1>1, <1>2 DEF History

\* What the answer of an account's request or of a reset tells is of the type
\* of what is seen.
LEMMA ToldByType ==
    ASSUME seen \in History, NEW r \in Requests, Typed(req[r]),
           req[r].at \in {"tellCreated", "tellPassword", "tellEmail", "rstDelete"}
    PROVE  ToldBy(r) \in History
<1> DEFINE Fact == [id : Ids, column : {"email", "password"}, value : Emails \cup Passwords]
           new == {t \in [id : {req[r].id}, column : {"email", "password"},
                          value : {req[r].email, req[r].value}] :
                     /\ r \notin seen.raced
                     /\ Touches(req[r], t.column)
                     /\ t.value = IF t.column = "email" THEN req[r].email ELSE req[r].value}
<1>1. req[r].id \in Ids
  BY DEF Typed, Telling
<1>2. Touches(req[r], "email") => req[r].email \in Emails
  BY DEF Typed, Touches, Writing, Telling
<1>3. Touches(req[r], "password") => req[r].value \in Passwords
  BY DEF Typed, Touches, Writing, Telling
<1>4. new \subseteq Fact
  BY <1>1, <1>2, <1>3
<1>5. ToldBy(r) = [seen EXCEPT !.told = @ \cup new]
  BY DEF ToldBy
<1>6. QED
  <2> HIDE DEF new
  <2>1. QED
    BY <1>4, <1>5 DEF History

\* Only the slot that took the step has to be looked at.
LEMMA TypedStep ==
    ASSUME Typing, NEW r \in Requests,
           req' \in [Requests -> Request], Typed(req'[r]),
           \A p \in Requests \ {r} : req'[p] = req[p],
           users' \subseteq Account, resets' \subseteq Reset, expired' \subseteq Links,
           created' \in 0 .. MaxAccounts, crashes' \in 0 .. MaxCrashes,
           generated' \subseteq Reset, chosen' \subseteq Ids \X Passwords,
           spent' \subseteq Links, disturbed' \in BOOLEAN, seen' \in History
    PROVE  Typing'
  BY DEF Typing, TypeOK

\* A request that arrives changes no table.
LEMMA TypedArrival ==
    ASSUME Typing, NEW r \in Requests, NEW q, Typed(q), Arrive(r, q),
           UNCHANGED <<users, resets, expired, created, crashes, spent>>,
           generated' \subseteq Reset, chosen' \subseteq Ids \X Passwords
    PROVE  Typing'
<1>1. TypeOK /\ seen \in History
  BY DEF Typing, TypeOK
<1>2. /\ req' \in [Requests -> Request]
      /\ req'[r] = q
      /\ \A p \in Requests \ {r} : req'[p] = req[p]
  BY <1>1, SlotHolds DEF Arrive
<1>3. disturbed' \in BOOLEAN
  BY <1>1 DEF Arrive, TypeOK
<1>4. seen' \in History
  BY <1>1, BegunType, RecordType DEF Arrive
<1>5. QED
  BY <1>1, <1>2, <1>3, <1>4, TypedStep DEF TypeOK

\* Without an arrival, a step with its slot's new content and the tables.
LEMMA TypedTables ==
    ASSUME Typing, NEW r \in Requests,
           req' \in [Requests -> Request], Typed(req'[r]),
           \A p \in Requests \ {r} : req'[p] = req[p],
           users' \subseteq Account, resets' \subseteq Reset,
           UNCHANGED <<expired, created, crashes, generated, chosen, spent, disturbed, seen>>
    PROVE  Typing'
<1>1. TypeOK
  BY DEF Typing
<1>2. /\ expired' \subseteq Links /\ created' \in 0 .. MaxAccounts
      /\ crashes' \in 0 .. MaxCrashes /\ generated' \subseteq Reset
      /\ chosen' \subseteq Ids \X Passwords /\ spent' \subseteq Links
      /\ disturbed' \in BOOLEAN /\ seen' \in History
  BY <1>1 DEF TypeOK
<1>3. QED
  BY <1>2, TypedStep

\* A step that moves its request from one label to another without changing
\* what it holds keeps its type, when the second label asks for no more.
LEMMA TypedMove ==
    ASSUME Typing, NEW r \in Requests, NEW label \in Label, Goto(r, label),
           \/ req[r].at \in Saving /\ label \in Saving
           \/ req[r].at \in Forgetting /\ label \in Forgetting
    PROVE  /\ req' \in [Requests -> Request]
           /\ Typed(req'[r])
           /\ \A p \in Requests \ {r} : req'[p] = req[p]
<1>1. TypeOK /\ Typed(req[r])
  BY DEF Typing
<1>2. /\ req' \in [Requests -> Request]
      /\ req'[r].at = label /\ req'[r].op = req[r].op /\ req'[r].id = req[r].id
      /\ req'[r].email = req[r].email /\ req'[r].value = req[r].value
      /\ req'[r].row = req[r].row /\ req'[r].link = req[r].link
      /\ \A p \in Requests \ {r} : req'[p] = req[p]
  BY <1>1, SlotMoves
<1>3. req'[r] \in Request
  BY <1>2
<1>4. Typed(req'[r])
  BY <1>1, <1>2, <1>3 DEF Typed, Saving, Forgetting, Writing, Telling
<1>5. QED
  BY <1>2, <1>4

\* An answer leaves an idle slot, whatever else it changed.
LEMMA TypedAnswer ==
    ASSUME Typing, NEW r \in Requests, Answer(r),
           users' \subseteq Account, resets' \subseteq Reset,
           UNCHANGED <<expired, crashes, generated, disturbed>>,
           created' \in 0 .. MaxAccounts,
           chosen' \subseteq Ids \X Passwords, spent' \subseteq Links, seen' \in History
    PROVE  Typing'
<1>1. TypeOK
  BY DEF Typing
<1>2. /\ req' \in [Requests -> Request]
      /\ req'[r] = Idle
      /\ \A p \in Requests \ {r} : req'[p] = req[p]
  BY <1>1, SlotIdle
<1>3. expired' \subseteq Links /\ crashes' \in 0 .. MaxCrashes
      /\ generated' \subseteq Reset /\ disturbed' \in BOOLEAN
  BY <1>1 DEF TypeOK
<1>4. QED
  BY <1>2, <1>3, IdleType, TypedStep

\* Writing a column of its type keeps the table's type.
LEMMA ColumnType ==
    ASSUME users \subseteq Account, NEW id, NEW column, NEW val, UpdateColumn(id, column, val),
           \/ column = "email" /\ val \in Emails
           \/ column = "password" /\ val \in Passwords \cup {None}
           \/ column = "session" /\ val \in BOOLEAN
    PROVE  users' \subseteq Account
<1>1. SUFFICES ASSUME NEW u \in users
               PROVE  [u EXCEPT ![column] = val] \in Account
  BY DEF UpdateColumn
<1>2. u \in Account
  OBVIOUS
<1>3. CASE column = "email" /\ val \in Emails
  BY <1>2, <1>3 DEF Account
<1>4. CASE column = "password" /\ val \in Passwords \cup {None}
  BY <1>2, <1>4 DEF Account
<1>5. CASE column = "session" /\ val \in BOOLEAN
  BY <1>2, <1>5 DEF Account
<1>6. QED
  BY <1>3, <1>4, <1>5

\* Overwriting columns of an account with those of another gives an account.
LEMMA OverwriteType ==
    ASSUME NEW u \in Account, NEW entity \in Account, NEW cols
    PROVE  Overwrite(u, entity, cols) \in Account
  BY DEF Overwrite, Account

\* Requests that a client sends keep the types.
LEMMA ClientTyped ==
    ASSUME Typing, NEW r \in Requests, Client(r)
    PROVE  Typing'
<1>0. TypeOK
  BY DEF Typing
<1>1. ASSUME NEW e \in Emails, NEW pw \in Passwords, LoginFind(r, e, pw)
      PROVE  Typing'
  <2>1. PICK u \in AccountsOf(e) :
            Arrive(r, Holding("save", "login", u.id, e, None, u, 0))
    BY <1>1 DEF LoginFind
  <2>2. DEFINE q == Holding("save", "login", u.id, e, None, u, 0)
  <2>3. u \in Account
    BY <1>0 DEF TypeOK, AccountsOf
  <2>4. q \in Request
    BY <2>3, CredentialsAssumption DEF Holding, Request, Operations, Label, Account, Ids
  <2>5. Typed(q)
    BY <2>3, <2>4 DEF Typed, Holding, Saving, Forgetting, Writing, Telling, Account
  <2>6. /\ UNCHANGED <<users, resets, expired, created, crashes, spent>>
        /\ generated' \subseteq Reset /\ chosen' \subseteq Ids \X Passwords
    BY <1>0, <1>1 DEF LoginFind, TypeOK
  <2>7. QED
    BY <2>1, <2>5, <2>6, TypedArrival
<1>2. ASSUME NEW u \in users, NEW stored \in BOOLEAN, NEW fresh \in BOOLEAN,
             Refresh(r, u, stored, fresh)
      PROVE  Typing'
  <2>1. u \in Account
    BY <1>0 DEF TypeOK
  <2>2. ~Active(u)
    BY <2>1 DEF Active, Account
  <2>3. UNCHANGED <<req, users, resets, expired, created, crashes,
                    generated, chosen, spent, disturbed, seen>>
    BY <1>2, <2>2 DEF Refresh
  <2>4. QED
    BY <1>0, <2>3 DEF Typing, TypeOK
<1>3. ASSUME NEW e \in Emails, ForgotFind(r, e)
      PROVE  Typing'
  <2>1. DEFINE q == Holding("fgtDelete", "forgot", 0, e, None, None, FreshLink)
  <2>2. FreshLink \in Links
    BY <1>3 DEF ForgotFind
  <2>3. q \in Request
    BY <2>2, CredentialsAssumption DEF Holding, Request, Operations, Label, Links
  <2>4. Typed(q)
    BY <2>2, <2>3 DEF Typed, Holding, Saving, Forgetting, Writing, Telling
  <2>5. /\ Arrive(r, q)
        /\ UNCHANGED <<users, resets, expired, created, crashes, spent>>
        /\ generated' \subseteq Reset /\ chosen' \subseteq Ids \X Passwords
    BY <1>0, <1>3, <2>2 DEF ForgotFind, TypeOK, Reset
  <2>6. QED
    BY <2>4, <2>5, TypedArrival
<1>4. ASSUME NEW link \in Links, NEW pw \in Passwords, ResetFind(r, link, pw)
      PROVE  Typing'
  <2>1. PICK s \in resets :
            Arrive(r, Holding(IF link \in expired THEN "rstDiscard" ELSE "rstFindUser",
                              "reset", 0, s.email, pw, None, link))
    BY <1>4 DEF ResetFind
  <2>2. PICK label \in {"rstDiscard", "rstFindUser"} :
            Arrive(r, Holding(label, "reset", 0, s.email, pw, None, link))
    BY <2>1
  <2>3. DEFINE q == Holding(label, "reset", 0, s.email, pw, None, link)
  <2>4. s.email \in Emails
    BY <1>0 DEF TypeOK, Reset
  <2>5. q \in Request
    BY <2>4, CredentialsAssumption DEF Holding, Request, Operations, Label, Links
  <2>6. Typed(q)
    BY <2>5 DEF Typed, Holding, Saving, Forgetting, Writing, Telling
  <2>7. /\ UNCHANGED <<users, resets, expired, created, crashes, spent>>
        /\ generated' \subseteq Reset /\ chosen' \subseteq Ids \X Passwords
    BY <1>0, <1>4 DEF ResetFind, TypeOK
  <2>8. QED
    BY <2>2, <2>6, <2>7, TypedArrival
<1>5. ASSUME NEW e \in Emails, NEW pw \in Passwords, CreateFind(r, e, pw)
      PROVE  Typing'
  <2>1. DEFINE q == Holding("create", "account", 0, e, pw, None, 0)
  <2>2. q \in Request
    BY CredentialsAssumption DEF Holding, Request, Operations, Label
  <2>3. Typed(q)
    BY <2>2 DEF Typed, Holding, Saving, Forgetting, Writing, Telling
  <2>4. /\ Arrive(r, q)
        /\ UNCHANGED <<users, resets, expired, created, crashes, spent>>
        /\ generated' \subseteq Reset /\ chosen' \subseteq Ids \X Passwords
    BY <1>0, <1>5 DEF CreateFind, TypeOK
  <2>5. QED
    BY <2>3, <2>4, TypedArrival
<1>6. ASSUME NEW u \in users, NEW pw \in Passwords,
             Find(r, u, "setPassword", pw), chosen' = chosen \cup {<<u.id, pw>>}
      PROVE  Typing'
  <2>1. u \in Account
    BY <1>0 DEF TypeOK
  <2>2. DEFINE q == Holding("setPassword", "account", u.id, u.email, pw, None, 0)
  <2>3. q \in Request
    BY <2>1, CredentialsAssumption DEF Holding, Request, Operations, Label, Account, Ids
  <2>4. Typed(q)
    BY <2>1, <2>3 DEF Typed, Holding, Saving, Forgetting, Writing, Telling, Account
  <2>5. /\ Arrive(r, q)
        /\ UNCHANGED <<users, resets, expired, created, crashes, spent>>
        /\ generated' \subseteq Reset /\ chosen' \subseteq Ids \X Passwords
    BY <1>0, <1>6, <2>1 DEF Find, TypeOK, Account
  <2>6. QED
    BY <2>4, <2>5, TypedArrival
<1>7. ASSUME NEW u \in users, NEW e \in Emails, UpdateAccount(r, u, e)
      PROVE  Typing'
  <2>1. u \in Account
    BY <1>0 DEF TypeOK
  <2>2. DEFINE q == Holding("setEmail", "account", u.id, e, None, None, 0)
  <2>3. q \in Request
    BY <2>1, CredentialsAssumption DEF Holding, Request, Operations, Label, Account, Ids
  <2>4. Typed(q)
    BY <2>1, <2>3 DEF Typed, Holding, Saving, Forgetting, Writing, Telling, Account
  <2>5. /\ Arrive(r, q)
        /\ UNCHANGED <<users, resets, expired, created, crashes, spent>>
        /\ generated' \subseteq Reset /\ chosen' \subseteq Ids \X Passwords
    BY <1>0, <1>7 DEF UpdateAccount, TypeOK
  <2>6. QED
    BY <2>4, <2>5, TypedArrival
<1>8. ASSUME NEW u \in users, DeleteAccount(r, u)
      PROVE  Typing'
  <2>1. u \in Account
    BY <1>0 DEF TypeOK
  <2>2. DEFINE q == Holding("remove", "account", u.id, u.email, None, None, 0)
  <2>3. q \in Request
    BY <2>1, CredentialsAssumption DEF Holding, Request, Operations, Label, Account, Ids
  <2>4. Typed(q)
    BY <2>1, <2>3 DEF Typed, Holding, Saving, Forgetting, Writing, Telling, Account
  <2>5. /\ Arrive(r, q)
        /\ UNCHANGED <<users, resets, expired, created, crashes, spent>>
        /\ generated' \subseteq Reset /\ chosen' \subseteq Ids \X Passwords
    BY <1>0, <1>8 DEF DeleteAccount, Find, TypeOK
  <2>6. QED
    BY <2>4, <2>5, TypedArrival
<1>9. ASSUME NEW u \in users, ApproveFind(r, u)
      PROVE  Typing'
  <2>1. u \in Account
    BY <1>0 DEF TypeOK
  <2>2. DEFINE q == Holding("save", "approve", u.id, u.email, None, u, 0)
  <2>3. q \in Request
    BY <2>1, CredentialsAssumption DEF Holding, Request, Operations, Label, Account, Ids
  <2>4. Typed(q)
    BY <2>1, <2>3 DEF Typed, Holding, Saving, Forgetting, Writing, Telling, Account
  <2>5. /\ Arrive(r, q)
        /\ UNCHANGED <<users, resets, expired, created, crashes, spent>>
        /\ generated' \subseteq Reset /\ chosen' \subseteq Ids \X Passwords
    BY <1>0, <1>9 DEF ApproveFind, TypeOK
  <2>6. QED
    BY <2>4, <2>5, TypedArrival
<1>10. QED
  BY <1>1, <1>2, <1>3, <1>4, <1>5, <1>6, <1>7, <1>8, <1>9
  DEF Client, ChangePassword, ChangeOwnPassword, RepairOrphanedAccount

\* What a request holds after its save.
LEMMA SavedTyped ==
    ASSUME NEW r \in Requests, req[r] \in Request, Typed(req[r]), req[r].at \in Saving
    PROVE  Typed(AfterSave(r))
<1>1. req[r].op \in {"login", "reset", "approve"}
  BY DEF Typed
<1>2. CASE req[r].op = "login"
  <2>1. DEFINE q == [req[r] EXCEPT !.at = "respond", !.dirty = {}]
  <2>2. q \in Request /\ q.at = "respond"
    BY DEF Request, Label
  <2>3. Typed(q)
    BY <2>2 DEF Typed, Saving, Forgetting, Writing, Telling
  <2>4. QED
    BY <1>2, <2>3 DEF AfterSave
<1>3. CASE req[r].op = "reset"
  <2>1. DEFINE q == [req[r] EXCEPT !.at = "rstDelete", !.dirty = {}]
  <2>2. /\ q \in Request /\ q.at = "rstDelete"
        /\ q.value = req[r].value /\ q.link = req[r].link
        /\ q.op = req[r].op /\ q.id = req[r].id
    BY DEF Request, Label
  <2>3. Typed(q)
    BY <1>3, <2>2 DEF Typed, Saving, Forgetting, Writing, Telling
  <2>4. QED
    BY <1>3, <2>3 DEF AfterSave
<1>4. CASE req[r].op = "approve"
  BY <1>4, IdleType DEF AfterSave
<1>5. QED
  BY <1>1, <1>2, <1>3, <1>4

\* The steps of userRepository.save and of generateAuthResponse keep the types.
LEMMA SavingTyped ==
    ASSUME Typing, NEW r \in Requests,
           SaveSelect(r) \/ SaveWrite(r) \/ SaveInsert(r) \/ Respond(r)
    PROVE  Typing'
<1>0. /\ TypeOK /\ Typed(req[r]) /\ req[r] \in Request
      /\ users \subseteq Account /\ resets \subseteq Reset
  BY DEF Typing, TypeOK
<1>1. CASE SaveSelect(r)
  <2>1. UNCHANGED <<users, resets, expired, created, crashes, generated,
                    chosen, spent, disturbed, seen>>
    BY <1>1 DEF SaveSelect, history
  <2>2. CASE Goto(r, "saveInsert")
    <3>1. /\ req' \in [Requests -> Request]
          /\ Typed(req'[r])
          /\ \A p \in Requests \ {r} : req'[p] = req[p]
      BY <1>1, <2>2, TypedMove DEF SaveSelect, Saving, Label
    <3>2. QED
      BY <1>0, <2>1, <3>1, TypedTables
  <2>3. ASSUME NEW u \in users,
               req' = [req EXCEPT ![r].at = "saveWrite", ![r].dirty = DirtyColumns(req[r].row, u)]
        PROVE  Typing'
    <3>1. DEFINE q == [req[r] EXCEPT !.at = "saveWrite", !.dirty = DirtyColumns(req[r].row, u)]
    <3>2. q \in Request
      BY <1>0 DEF Request, Label, DirtyColumns
    <3>3. Typed(q)
      BY <1>0, <1>1, <3>2 DEF SaveSelect, Typed, Saving, Forgetting, Writing, Telling, Request
    <3>4. req' = [req EXCEPT ![r] = q]
      BY <2>3
    <3>5. /\ req' \in [Requests -> Request]
          /\ req'[r] = q
          /\ \A p \in Requests \ {r} : req'[p] = req[p]
      BY <1>0, <3>3, <3>4, SlotHolds
    <3>6. QED
      BY <1>0, <2>1, <3>3, <3>5, TypedTables
  <2>4. QED
    BY <1>1, <2>2, <2>3 DEF SaveSelect, WithId
<1>2. CASE SaveWrite(r)
  <2>1. UNCHANGED <<resets, expired, created, crashes, generated,
                    chosen, spent, disturbed, seen>>
    BY <1>2 DEF SaveWrite, history
  <2>2. req[r].row \in Account /\ req[r].at \in Saving
    BY <1>0, <1>2 DEF SaveWrite, Typed, Saving
  <2>3. users' \subseteq Account
    <3>1. \A u \in users : Overwrite(u, req[r].row, req[r].dirty) \in Account
      BY <1>0, <2>2, OverwriteType
    <3>2. QED
      BY <1>0, <1>2, <3>1 DEF SaveWrite
  <2>4. Typed(AfterSave(r))
    BY <1>0, <2>2, SavedTyped
  <2>5. \E q : Typed(q) /\ req' = [req EXCEPT ![r] = q]
    BY <1>2, <2>4, IdleType DEF SaveWrite, Answer
  <2>6. QED
    BY <1>0, <2>1, <2>3, <2>5, SlotHolds, TypedTables
<1>3. CASE SaveInsert(r)
  <2>1. UNCHANGED <<resets, expired, created, crashes, generated,
                    chosen, spent, disturbed, seen>>
    BY <1>3 DEF SaveInsert, history
  <2>2. req[r].row \in Account /\ req[r].at \in Saving
    BY <1>0, <1>3 DEF SaveInsert, Typed, Saving
  <2>3. users' \subseteq Account
    BY <1>0, <1>3, <2>2 DEF SaveInsert
  <2>4. Typed(AfterSave(r))
    BY <1>0, <2>2, SavedTyped
  <2>5. \E q : Typed(q) /\ req' = [req EXCEPT ![r] = q]
    BY <1>3, <2>4, IdleType DEF SaveInsert, Answer
  <2>6. QED
    BY <1>0, <2>1, <2>3, <2>5, SlotHolds, TypedTables
<1>4. CASE Respond(r)
  <2>1. Answer(r) /\ UNCHANGED <<resets, expired, created, crashes, generated,
                                 chosen, spent, disturbed, seen>>
    BY <1>4 DEF Respond, history
  <2>2. users' \subseteq Account
    BY <1>0, <1>4, ColumnType DEF Respond
  <2>3. QED
    BY <1>0, <2>1, <2>2, TypedAnswer DEF TypeOK
<1>5. QED
  BY <1>1, <1>2, <1>3, <1>4

\* The steps of forgotPassword keep the types.
LEMMA ForgotTyped ==
    ASSUME Typing, NEW r \in Requests,
           \/ ForgotDelete(r) \/ ForgotInsert(r)
           \/ ForgotQueue(r) \/ ForgotQueueFails(r) \/ ForgotCleanup(r)
    PROVE  Typing'
<1>0. /\ TypeOK /\ Typed(req[r]) /\ req[r] \in Request
      /\ users \subseteq Account /\ resets \subseteq Reset
  BY DEF Typing, TypeOK
<1>1. CASE ForgotDelete(r)
  <2>1. /\ req' \in [Requests -> Request]
        /\ Typed(req'[r])
        /\ \A p \in Requests \ {r} : req'[p] = req[p]
    BY <1>1, TypedMove DEF ForgotDelete, Forgetting, Label
  <2>2. resets' \subseteq Reset
    BY <1>0, <1>1 DEF ForgotDelete, DeleteResets
  <2>3. QED
    BY <1>0, <1>1, <2>1, <2>2, TypedTables DEF ForgotDelete, history
<1>2. CASE ForgotInsert(r)
  <2>1. /\ req' \in [Requests -> Request]
        /\ Typed(req'[r])
        /\ \A p \in Requests \ {r} : req'[p] = req[p]
    BY <1>2, TypedMove DEF ForgotInsert, Forgetting, Label
  <2>2. req[r].link \in Links /\ req[r].email \in Emails
    BY <1>0, <1>2 DEF ForgotInsert, Typed, Forgetting
  <2>3. resets' \subseteq Reset
    BY <1>0, <1>2, <2>2 DEF ForgotInsert, Reset
  <2>4. QED
    BY <1>0, <1>2, <2>1, <2>3, TypedTables DEF ForgotInsert, history
<1>3. CASE ForgotQueue(r)
  <2>1. Answer(r) /\ UNCHANGED <<users, resets, expired, created, crashes,
                                 generated, chosen, spent, disturbed>>
    BY <1>3 DEF ForgotQueue
  <2>2. req[r].link \in Links
    BY <1>0, <1>3 DEF ForgotQueue, Typed, Forgetting
  <2>3. [seen EXCEPT !.linked = @ \cup {req[r].link}] \in History
    BY <1>0, <2>2 DEF TypeOK, History
  <2>4. seen' \in History
    BY <1>3, <2>3, RecordType DEF ForgotQueue
  <2>5. QED
    BY <1>0, <2>1, <2>4, TypedAnswer DEF TypeOK
<1>4. CASE ForgotQueueFails(r)
  <2>1. /\ req' \in [Requests -> Request]
        /\ Typed(req'[r])
        /\ \A p \in Requests \ {r} : req'[p] = req[p]
    BY <1>4, TypedMove DEF ForgotQueueFails, Forgetting, Label
  <2>2. QED
    BY <1>0, <1>4, <2>1, TypedTables DEF ForgotQueueFails, history
<1>5. CASE ForgotCleanup(r)
  <2>1. resets' \subseteq Reset
    BY <1>0, <1>5 DEF ForgotCleanup, DeleteResets
  <2>2. Answer(r) /\ UNCHANGED <<users, expired, created, crashes,
                                 generated, chosen, spent, disturbed, seen>>
    BY <1>5 DEF ForgotCleanup, history
  <2>3. QED
    BY <1>0, <2>1, <2>2, TypedAnswer DEF TypeOK
<1>6. QED
  BY <1>1, <1>2, <1>3, <1>4, <1>5

\* The steps of resetPassword keep the types.
LEMMA ResetTyped ==
    ASSUME Typing, NEW r \in Requests,
           ResetDiscard(r) \/ ResetFindUser(r) \/ ResetDelete(r)
    PROVE  Typing'
<1>0. /\ TypeOK /\ Typed(req[r]) /\ req[r] \in Request
      /\ users \subseteq Account /\ resets \subseteq Reset
  BY DEF Typing, TypeOK
<1>1. CASE ResetDiscard(r)
  <2>1. resets' \subseteq Reset
    BY <1>0, <1>1 DEF ResetDiscard, DeleteLink
  <2>2. Answer(r) /\ UNCHANGED <<users, expired, created, crashes,
                                 generated, chosen, spent, disturbed, seen>>
    BY <1>1 DEF ResetDiscard, history
  <2>3. QED
    BY <1>0, <2>1, <2>2, TypedAnswer DEF TypeOK
<1>2. CASE ResetFindUser(r)
  <2>1. UNCHANGED <<users, resets, expired, created, crashes, generated, spent, disturbed>>
    BY <1>2 DEF ResetFindUser
  <2>2. req[r].value \in Passwords /\ req[r].link \in Links /\ req[r].op = "reset"
    BY <1>0, <1>2 DEF ResetFindUser, Typed
  <2>3. CASE Answer(r) /\ UNCHANGED <<chosen, seen>>
    BY <1>0, <2>1, <2>3, TypedAnswer DEF TypeOK
  <2>4. ASSUME NEW u \in users, ResetTo(r, u),
               chosen' = chosen \cup {<<u.id, req[r].value>>}
        PROVE  Typing'
    <3>1. PICK q : /\ q = [req[r] EXCEPT !.at = "save", !.id = u.id,
                                         !.row = [u EXCEPT !.password = req[r].value]]
                   /\ req' = [req EXCEPT ![r] = q] /\ Record(Begun(r, q))
      BY <2>4 DEF ResetTo
    <3>2. u \in Account /\ u.id \in Ids /\ u.id \in 0 .. MaxAccounts
      BY <1>0, CredentialsAssumption DEF Account, Ids
    <3>3. [u EXCEPT !.password = req[r].value] \in Account
      BY <2>2, <3>2 DEF Account
    <3>4. q \in Request
      BY <1>0, <3>1, <3>2, <3>3 DEF Request, Label
    <3>5. q.at = "save" /\ q.id \in Ids /\ q.row \in Account
          /\ q.op = req[r].op /\ q.value = req[r].value /\ q.link = req[r].link
      BY <1>0, <3>1, <3>2, <3>3 DEF Request
    <3>6. Typed(q)
      BY <2>2, <3>4, <3>5 DEF Typed, Saving, Forgetting, Writing, Telling
    <3>7. /\ req' \in [Requests -> Request]
          /\ req'[r] = q
          /\ \A p \in Requests \ {r} : req'[p] = req[p]
      BY <1>0, <3>1, <3>6, SlotHolds
    <3>8. chosen' \subseteq Ids \X Passwords
      BY <1>0, <2>2, <2>4, <3>2 DEF TypeOK
    <3>9. seen' \in History
      BY <1>0, <3>1, BegunType, RecordType DEF TypeOK
    <3>10. QED
      BY <1>0, <2>1, <3>6, <3>7, <3>8, <3>9, TypedStep DEF TypeOK
  <2>5. QED
    BY <1>2, <2>3, <2>4 DEF ResetFindUser, AccountsOf
<1>3. CASE ResetDelete(r)
  <2>1. req[r].value \in Passwords /\ req[r].link \in Links
    BY <1>0, <1>3 DEF ResetDelete, Typed
  <2>2. resets' \subseteq Reset /\ spent' \subseteq Links
    BY <1>0, <1>3, <2>1 DEF ResetDelete, DeleteLink, TypeOK
  <2>3. seen' \in History
    BY <1>0, <1>3, ToldByType, RecordType DEF ResetDelete, TypeOK
  <2>4. Answer(r) /\ UNCHANGED <<users, expired, created, crashes, generated, chosen, disturbed>>
    BY <1>3 DEF ResetDelete
  <2>5. QED
    BY <1>0, <2>2, <2>3, <2>4, TypedAnswer DEF TypeOK
<1>4. QED
  BY <1>1, <1>2, <1>3

\* Inserting an account keeps the types.
LEMMA InsertType ==
    ASSUME users \subseteq Account, NEW id \in Ids, NEW e \in Emails,
           NEW pw \in Passwords \cup {None}, created + 1 \in 0 .. MaxAccounts, Insert(id, e, pw)
    PROVE  users' \subseteq Account /\ created' \in 0 .. MaxAccounts
<1>1. [id |-> id, email |-> e, password |-> pw, session |-> FALSE] \in Account
  BY DEF Account
<1>2. QED
  BY <1>1 DEF Insert

\* A request of UserService that goes on to the answer keeps its type.
LEMMA TypedTelling ==
    ASSUME Typing, NEW r \in Requests,
           \/ req[r].at = "setPassword" /\ Goto(r, "tellPassword")
           \/ req[r].at = "setEmail" /\ Goto(r, "tellEmail")
           \/ req[r].at = "remove" /\ Goto(r, "tellRemoved")
    PROVE  /\ req' \in [Requests -> Request]
           /\ Typed(req'[r])
           /\ \A p \in Requests \ {r} : req'[p] = req[p]
<1>1. TypeOK /\ Typed(req[r])
  BY DEF Typing
<1>2. PICK label \in {"tellPassword", "tellEmail", "tellRemoved"} :
          /\ Goto(r, label)
          /\ label = "tellPassword" => req[r].at = "setPassword"
          /\ label = "tellEmail" => req[r].at = "setEmail"
          /\ req[r].at \in Writing
  BY DEF Writing
<1>3. label \in Label
  BY DEF Label
<1>4. /\ req' \in [Requests -> Request]
      /\ req'[r].at = label /\ req'[r].op = req[r].op /\ req'[r].id = req[r].id
      /\ req'[r].email = req[r].email /\ req'[r].value = req[r].value
      /\ req'[r].row = req[r].row /\ req'[r].link = req[r].link
      /\ \A p \in Requests \ {r} : req'[p] = req[p]
  BY <1>1, <1>2, <1>3, SlotMoves
<1>5. Typed(req'[r])
  BY <1>1, <1>2, <1>4 DEF Typed, Saving, Forgetting, Writing, Telling
<1>6. QED
  BY <1>4, <1>5

\* The steps of UserService keep the types.
LEMMA AccountTyped ==
    ASSUME Typing, NEW r \in Requests,
           \/ CreateInsert(r) \/ SetPassword(r) \/ SetEmail(r) \/ Remove(r)
           \/ Tell(r) \/ TellRemoved(r)
    PROVE  Typing'
<1>0. /\ TypeOK /\ Typed(req[r]) /\ req[r] \in Request
      /\ users \subseteq Account /\ resets \subseteq Reset /\ seen \in History
  BY DEF Typing, TypeOK
<1>1. CASE CreateInsert(r)
  <2>1. req[r].email \in Emails /\ req[r].value \in Passwords /\ req[r].op = "account"
    BY <1>0, <1>1 DEF CreateInsert, Typed
  <2>2. UNCHANGED <<resets, expired, crashes, generated, spent, disturbed, seen>>
    BY <1>1 DEF CreateInsert
  <2>3. CASE Answer(r) /\ UNCHANGED <<users, created, chosen>>
    BY <1>0, <2>2, <2>3, TypedAnswer DEF TypeOK
  <2>4. CASE /\ created < MaxAccounts
             /\ Insert(created + 1, req[r].email, req[r].value)
             /\ chosen' = chosen \cup {<<created + 1, req[r].value>>}
             /\ req' = [req EXCEPT ![r].at = "tellCreated", ![r].id = created + 1]
    <3>1. created + 1 \in Ids /\ created + 1 \in 0 .. MaxAccounts
      BY <1>0, <2>4, CredentialsAssumption DEF TypeOK, Ids
    <3>2. users' \subseteq Account /\ created' \in 0 .. MaxAccounts
      BY <1>0, <2>1, <2>4, <3>1, InsertType
    <3>3. chosen' \subseteq Ids \X Passwords
      BY <1>0, <2>1, <2>4, <3>1 DEF TypeOK
    <3>4. PICK id, q : id = created + 1 /\ q = [req[r] EXCEPT !.at = "tellCreated", !.id = id]
      OBVIOUS
    <3>5. /\ q \in Request /\ q.at = "tellCreated" /\ q.id = id
          /\ q.op = req[r].op /\ q.email = req[r].email /\ q.value = req[r].value
      BY <1>0, <3>1, <3>4 DEF Request, Label
    <3>6. Typed(q)
      BY <2>1, <3>1, <3>4, <3>5 DEF Typed, Saving, Forgetting, Writing, Telling
    <3>7. /\ req' \in [Requests -> Request]
          /\ req'[r] = q
          /\ \A p \in Requests \ {r} : req'[p] = req[p]
      BY <1>0, <2>4, <3>4, <3>6, SlotHolds
    <3>8. QED
      BY <1>0, <2>2, <3>2, <3>3, <3>6, <3>7, TypedStep DEF TypeOK
  <2>5. QED
    BY <1>1, <2>3, <2>4 DEF CreateInsert
<1>2. CASE SetPassword(r)
  <2>1. req[r].value \in Passwords
    BY <1>0, <1>2 DEF SetPassword, Typed
  <2>2. users' \subseteq Account
    BY <1>0, <1>2, <2>1, ColumnType DEF SetPassword
  <2>3. QED
    BY <1>0, <1>2, <2>2, TypedTelling, TypedTables DEF SetPassword, history
<1>3. CASE SetEmail(r)
  <2>1. UNCHANGED <<resets, expired, created, crashes, generated, chosen, spent, disturbed, seen>>
    BY <1>3 DEF SetEmail, history
  <2>2. CASE Answer(r) /\ UNCHANGED users
    BY <1>0, <2>1, <2>2, TypedAnswer DEF TypeOK
  <2>3. CASE UpdateColumn(req[r].id, "email", req[r].email) /\ Goto(r, "tellEmail")
    <3>1. req[r].email \in Emails /\ req[r].at = "setEmail"
      BY <1>0, <1>3 DEF SetEmail, Typed
    <3>2. users' \subseteq Account
      BY <1>0, <2>3, <3>1, ColumnType
    <3>3. QED
      BY <1>0, <2>1, <2>3, <3>1, <3>2, TypedTelling, TypedTables
  <2>4. QED
    BY <1>3, <2>2, <2>3 DEF SetEmail
<1>4. CASE Remove(r)
  <2>1. users' \subseteq Account
    BY <1>0, <1>4 DEF Remove
  <2>2. QED
    BY <1>0, <1>4, <2>1, TypedTelling, TypedTables DEF Remove, history
<1>5. CASE Tell(r)
  <2>1. seen' \in History
    BY <1>0, <1>5, ToldByType, RecordType DEF Tell
  <2>2. QED
    BY <1>0, <1>5, <2>1, TypedAnswer DEF Tell, TypeOK
<1>6. CASE TellRemoved(r)
  <2>1. req[r].id \in Ids
    BY <1>0, <1>6 DEF TellRemoved, Typed, Telling
  <2>2. [seen EXCEPT !.gone = @ \cup {req[r].id}] \in History
    BY <1>0, <2>1 DEF History
  <2>3. seen' \in History
    BY <1>6, <2>2, RecordType DEF TellRemoved
  <2>4. QED
    BY <1>0, <1>6, <2>3, TypedAnswer DEF TellRemoved, TypeOK
<1>7. QED
  BY <1>1, <1>2, <1>3, <1>4, <1>5, <1>6

\* Steps that are nobody's request keep the types.
LEMMA WorldTyped ==
    ASSUME Typing,
           \/ \E e \in Emails : ApproveInsert(e)
           \/ \E link \in Links : Expire(link)
           \/ Crash
           \/ UNCHANGED vars
    PROVE  Typing'
<1>0. /\ TypeOK /\ \A r \in Requests : Typed(req[r])
      /\ users \subseteq Account /\ seen \in History
  BY DEF Typing, TypeOK
<1>1. ASSUME NEW e \in Emails, ApproveInsert(e)
      PROVE  Typing'
  <2>1. created + 1 \in Ids /\ created + 1 \in 0 .. MaxAccounts
    BY <1>0, <1>1, CredentialsAssumption DEF ApproveInsert, TypeOK, Ids
  <2>2. users' \subseteq Account /\ created' \in 0 .. MaxAccounts
    BY <1>0, <1>1, <2>1, InsertType DEF ApproveInsert
  <2>3. QED
    BY <1>0, <1>1, <2>2 DEF ApproveInsert, Typing, TypeOK, history
<1>2. ASSUME NEW link \in Links, Expire(link)
      PROVE  Typing'
  BY <1>0, <1>2 DEF Expire, Typing, TypeOK, history
<1>3. CASE Crash
  <2>1. req' = [r \in Requests |-> Idle] /\ crashes' \in 0 .. MaxCrashes /\ disturbed' \in BOOLEAN
    BY <1>0, <1>3, CredentialsAssumption DEF Crash, TypeOK
  <2>2. req' \in [Requests -> Request] /\ \A r \in Requests : Typed(req'[r])
    BY <2>1, IdleType
  <2>3. seen' \in History
    BY <1>0, <1>3, RecordType DEF Crash
  <2>4. QED
    BY <1>0, <1>3, <2>1, <2>2, <2>3 DEF Crash, Typing, TypeOK
<1>4. CASE UNCHANGED vars
  BY <1>4 DEF vars, history, Typing, TypeOK
<1>5. QED
  BY <1>1, <1>2, <1>3, <1>4

\* Typing holds in every reachable state.
LEMMA AlwaysTyping == Spec => []Typing
<1>1. ASSUME Init
      PROVE  Typing
  <2>1. req \in [Requests -> Request] /\ \A r \in Requests : Typed(req[r])
    BY <1>1, IdleType DEF Init
  <2>2. created \in 0 .. MaxAccounts /\ crashes \in 0 .. MaxCrashes
    BY <1>1, CredentialsAssumption DEF Init
  <2>3. QED
    BY <1>1, <2>1, <2>2, IdleType DEF Init, Typing, TypeOK
<1>2. Typing /\ [Next]_vars => Typing'
  BY ClientTyped, SavingTyped, ForgotTyped, ResetTyped, AccountTyped, WorldTyped DEF Next, Step
<1>3. QED
  BY <1>1, <1>2, PTL DEF Spec

\* The tables and the requests in flight keep their types: no interleaving of
\* the handlers leaves a request with something else than its next step reads.
THEOREM TypeCorrect == Spec => []TypeOK
<1>1. Typing => TypeOK
  BY DEF Typing
<1>2. QED
  BY <1>1, AlwaysTyping, PTL

-----------------------------------------------------------------------------
(* Accounts.  Accounts' is shown from Typing, Typing' and Accounts.         *)


\* Only the slot that took the step has to be looked at, since accounts are
\* never uncreated and choices never forgotten.
LEMMA GroundedStep ==
    ASSUME Typing, Typing', Accounts, NEW r \in Requests,
           \A p \in Requests \ {r} : req'[p] = req[p],
           Grounded(r)',
           created' >= created, chosen \subseteq chosen'
    PROVE  \A p \in Requests : Grounded(p)'
<1>1. SUFFICES ASSUME NEW p \in Requests \ {r}
               PROVE  Grounded(p)'
  OBVIOUS
<1>2. Grounded(p) /\ Typed(req[p]) /\ req'[p] = req[p]
  BY DEF Accounts, Typing
<1>3. created \in Nat /\ created' \in Nat
  BY CredentialsAssumption DEF Typing, TypeOK
<1>4. req[p].at \in Saving => req[p].id \in Nat
  BY <1>2 DEF Typed, Ids
<1>5. QED
  BY <1>2, <1>3, <1>4 DEF Grounded, Chosen

\* The tables stay as they are, while more is chosen.
LEMMA UsersStay ==
    ASSUME Typing, Accounts, users' = users, created' = created, chosen \subseteq chosen'
    PROVE  UniqueAccounts' /\ PasswordChosen' /\ \A u \in users' : u.id <= created'
  BY DEF Accounts, UniqueAccounts, PasswordChosen

\* A step that changes no account and leaves its slot nothing to save or set.
LEMMA AccountsStay ==
    ASSUME Typing, Typing', Accounts, NEW r \in Requests,
           \A p \in Requests \ {r} : req'[p] = req[p],
           req'[r].at \notin Saving \cup {"setPassword"},
           UNCHANGED <<users, created, chosen>>
    PROVE  Accounts'
<1>1. Grounded(r)'
  BY DEF Grounded
<1>2. created' >= created
  BY CredentialsAssumption DEF Typing, TypeOK
<1>3. QED
  BY <1>1, <1>2, UsersStay, GroundedStep DEF Accounts

\* What slot r holds after an arrival.
LEMMA ArrivedSlot ==
    ASSUME Typing, NEW r \in Requests, NEW q, Arrive(r, q)
    PROVE  /\ req'[r] = q
           /\ \A p \in Requests \ {r} : req'[p] = req[p]
  BY DEF Arrive, Typing, TypeOK

\* Requests that a client sends keep the accounts grounded.
LEMMA ClientAccounts ==
    ASSUME Typing, Typing', Accounts, NEW r \in Requests, Client(r)
    PROVE  Accounts'
<1>0. /\ TypeOK /\ \A u \in users : u \in Account /\ u.id <= created /\ Chosen(u)
      /\ created \in Nat
  BY CredentialsAssumption DEF Typing, TypeOK, Accounts, PasswordChosen, Chosen
<1>1. ASSUME NEW u \in users, NEW op, NEW e, Arrive(r, Holding("save", op, u.id, e, None, u, 0)),
             UNCHANGED <<users, created, chosen>>
      PROVE  Accounts'
  <2>1. req'[r] = Holding("save", op, u.id, e, None, u, 0)
    BY <1>1, ArrivedSlot
  <2>2. Grounded(r)'
    BY <1>0, <1>1, <2>1 DEF Grounded, Holding, Chosen
  <2>3. \A p \in Requests \ {r} : req'[p] = req[p]
    BY <1>1, ArrivedSlot
  <2>4. QED
    BY <1>0, <1>1, <2>2, <2>3, UsersStay, GroundedStep DEF Accounts
<1>2. ASSUME NEW u \in users, NEW pw, Find(r, u, "setPassword", pw),
             chosen' = chosen \cup {<<u.id, pw>>}
      PROVE  Accounts'
  <2>1. Arrive(r, Holding("setPassword", "account", u.id, u.email, pw, None, 0))
    BY <1>2 DEF Find
  <2>2. req'[r] = Holding("setPassword", "account", u.id, u.email, pw, None, 0)
    BY <2>1, ArrivedSlot
  <2>3. Grounded(r)'
    BY <1>2, <2>2 DEF Grounded, Holding, Saving
  <2>4. \A p \in Requests \ {r} : req'[p] = req[p]
    BY <2>1, ArrivedSlot
  <2>5. UNCHANGED <<users, created>>
    BY <1>2 DEF Find
  <2>6. QED
    BY <1>0, <1>2, <2>3, <2>4, <2>5, UsersStay, GroundedStep DEF Accounts
<1>3. ASSUME NEW q, Arrive(r, q), q.at \notin Saving \cup {"setPassword"},
             UNCHANGED <<users, created, chosen>>
      PROVE  Accounts'
  BY <1>3, ArrivedSlot, AccountsStay
<1>4. ASSUME NEW e \in Emails, NEW pw \in Passwords, LoginFind(r, e, pw)
      PROVE  Accounts'
  BY <1>1, <1>4 DEF LoginFind, AccountsOf
<1>5. ASSUME NEW u \in users, NEW stored \in BOOLEAN, NEW fresh \in BOOLEAN,
             Refresh(r, u, stored, fresh)
      PROVE  Accounts'
  <2>1. ~Active(u)
    BY <1>0 DEF Active, Account
  <2>2. UNCHANGED <<req, users, created, chosen>>
    BY <1>5, <2>1 DEF Refresh
  <2>3. \A p \in Requests : Grounded(p)'
    BY <2>2 DEF Accounts, Grounded, Chosen
  <2>4. QED
    BY <2>2, <2>3, UsersStay DEF Accounts
<1>6. ASSUME NEW e \in Emails, ForgotFind(r, e)
      PROVE  Accounts'
  BY <1>3, <1>6 DEF ForgotFind, Holding, Saving
<1>7. ASSUME NEW link \in Links, NEW pw \in Passwords, ResetFind(r, link, pw)
      PROVE  Accounts'
  BY <1>3, <1>7 DEF ResetFind, Holding, Saving
<1>8. ASSUME NEW e \in Emails, NEW pw \in Passwords, CreateFind(r, e, pw)
      PROVE  Accounts'
  BY <1>3, <1>8 DEF CreateFind, Holding, Saving
<1>9. ASSUME NEW u \in users, NEW e \in Emails, UpdateAccount(r, u, e)
      PROVE  Accounts'
  BY <1>3, <1>9 DEF UpdateAccount, Holding, Saving
<1>10. ASSUME NEW u \in users, DeleteAccount(r, u)
       PROVE  Accounts'
  BY <1>3, <1>10 DEF DeleteAccount, Find, Holding, Saving
<1>11. ASSUME NEW u \in users, ApproveFind(r, u)
       PROVE  Accounts'
  BY <1>1, <1>11 DEF ApproveFind
<1>12. QED
  BY <1>2, <1>4, <1>5, <1>6, <1>7, <1>8, <1>9, <1>10, <1>11
  DEF Client, ChangePassword, ChangeOwnPassword, RepairOrphanedAccount

\* What slot r holds after it answered: nothing to save or set.
LEMMA AnsweredSlot ==
    ASSUME Typing, NEW r \in Requests, Answer(r)
    PROVE  /\ req'[r].at \notin Saving \cup {"setPassword"}
           /\ \A p \in Requests \ {r} : req'[p] = req[p]
  BY SlotIdle DEF Typing, Idle, Holding, Saving

\* Mapping every account to one with its id keeps what Accounts says of the
\* table, when two accounts with the same email still have the same id.
LEMMA UsersMapped ==
    ASSUME Typing, Accounts, NEW F, users' = {F[u] : u \in users},
           created' = created, chosen' = chosen,
           \A u \in users : F[u].id = u.id /\ Chosen(F[u]),
           \A u, v \in users : F[u].email = F[v].email => u.id = v.id
    PROVE  UniqueAccounts' /\ PasswordChosen' /\ \A u \in users' : u.id <= created'
<1>1. ASSUME NEW u \in users, NEW v \in users, F[u].id = F[v].id \/ F[u].email = F[v].email
      PROVE  F[u] = F[v]
  BY <1>1 DEF Accounts, UniqueAccounts
<1>2. UniqueAccounts'
  BY <1>1 DEF UniqueAccounts
<1>3. PasswordChosen'
  BY DEF PasswordChosen, Chosen
<1>4. \A u \in users' : u.id <= created'
  BY DEF Accounts
<1>5. QED
  BY <1>2, <1>3, <1>4

\* Writing a column other than email keeps accounts unique.
LEMMA ColumnAccounts ==
    ASSUME Typing, Accounts, NEW id, NEW column, NEW val, UpdateColumn(id, column, val),
           created' = created, chosen' = chosen,
           \/ column = "session"
           \/ column = "password" /\ <<id, val>> \in chosen
           \/ column = "email" /\ ~Taken(id, val)
    PROVE  UniqueAccounts' /\ PasswordChosen' /\ \A u \in users' : u.id <= created'
<1>1. DEFINE F == [u \in users |-> IF u.id = id THEN [u EXCEPT ![column] = val] ELSE u]
<1>2. \A u \in users : u \in Account /\ Chosen(u)
  BY DEF Typing, TypeOK, Accounts, PasswordChosen, Chosen
<1>3. users' = {F[u] : u \in users}
  BY DEF UpdateColumn
<1>4. ASSUME NEW u \in users
      PROVE  F[u].id = u.id /\ Chosen(F[u])
  BY <1>2 DEF Account, Chosen
<1>5. ASSUME NEW u \in users, NEW v \in users, F[u].email = F[v].email
      PROVE  u.id = v.id
  <2>1. u \in Account /\ v \in Account /\ (u.email = v.email => u.id = v.id)
    BY <1>2 DEF Accounts, UniqueAccounts
  <2>2. CASE column # "email"
    <3>1. F[u].email = u.email /\ F[v].email = v.email
      BY <2>1, <2>2 DEF Account
    <3>2. QED
      BY <1>5, <2>1, <3>1
  <2>3. CASE column = "email"
    <3>1. \A w \in users : F[w].email = IF w.id = id THEN val ELSE w.email
      BY <1>2, <2>3 DEF Account
    <3>2. CASE u.id = id \/ v.id = id
      <4>1. ~Taken(id, val) /\ WithId(id) # {}
        BY <2>3, <3>2 DEF WithId
      <4>2. \A w \in users : w.email = val => w.id = id
        BY <4>1 DEF Taken, AccountsOf
      <4>3. QED
        BY <1>5, <3>1, <3>2, <4>2
    <3>3. QED
      BY <1>5, <2>1, <3>1, <3>2
  <2>4. QED
    BY <2>2, <2>3
<1>6. QED
  <2> HIDE DEF F
  <2>1. QED
    BY <1>3, <1>4, <1>5, UsersMapped

\* What slot r holds after its save: nothing more to save or set.
LEMMA SavedSlot ==
    ASSUME Typing, NEW r \in Requests, req[r].at \in Saving,
           req' = [req EXCEPT ![r] = AfterSave(r)]
    PROVE  /\ req'[r].at \notin Saving \cup {"setPassword"}
           /\ \A p \in Requests \ {r} : req'[p] = req[p]
<1>1. req[r] \in Request /\ req[r].op \in {"login", "reset", "approve"}
  BY DEF Typing, Typed
<1>2. AfterSave(r).at \in {"respond", "rstDelete", "idle"}
  BY <1>1 DEF AfterSave, Request, Idle, Holding
<1>3. QED
  BY <1>2 DEF Typing, TypeOK, Saving

\* Overwriting columns with those of an entity of the same account, whose
\* password was chosen for it and whose email is free, keeps the accounts.
LEMMA OverwriteAccounts ==
    ASSUME Typing, Accounts, NEW id, NEW entity \in Account, NEW cols,
           entity.id = id, Chosen(entity), "email" \in cols => ~Taken(id, entity.email),
           users' = {IF u.id = id THEN Overwrite(u, entity, cols) ELSE u : u \in users},
           created' = created, chosen' = chosen
    PROVE  UniqueAccounts' /\ PasswordChosen' /\ \A u \in users' : u.id <= created'
<1>1. DEFINE F == [u \in users |-> IF u.id = id THEN Overwrite(u, entity, cols) ELSE u]
<1>2. \A u \in users : u \in Account /\ Chosen(u)
  BY DEF Typing, TypeOK, Accounts, PasswordChosen, Chosen
<1>3. users' = {F[u] : u \in users}
  OBVIOUS
<1>4. ASSUME NEW u \in users
      PROVE  F[u].id = u.id /\ Chosen(F[u])
  <2>1. u \in Account /\ Chosen(u)
    BY <1>2
  <2>2. CASE u.id # id
    BY <2>1, <2>2
  <2>3. CASE u.id = id
    <3>1. /\ Overwrite(u, entity, cols).id = id
          /\ Overwrite(u, entity, cols).password \in {u.password, entity.password}
      BY <2>1, <2>3 DEF Overwrite, Account
    <3>2. Chosen(Overwrite(u, entity, cols))
      BY <2>1, <2>3, <3>1 DEF Chosen
    <3>3. QED
      BY <2>3, <3>1, <3>2
  <2>4. QED
    BY <2>2, <2>3
<1>5. ASSUME NEW u \in users, NEW v \in users, F[u].email = F[v].email
      PROVE  u.id = v.id
  <2>1. u \in Account /\ v \in Account /\ (u.email = v.email => u.id = v.id)
    BY <1>2 DEF Accounts, UniqueAccounts
  <2>2. \A w \in users : F[w].email = IF w.id = id /\ "email" \in cols
                                      THEN entity.email ELSE w.email
    BY <1>2 DEF Overwrite, Account
  <2>3. CASE "email" \notin cols
    BY <1>5, <2>1, <2>2, <2>3
  <2>4. CASE "email" \in cols
    <3>1. CASE u.id = id \/ v.id = id
      <4>1. ~Taken(id, entity.email) /\ WithId(id) # {}
        BY <2>4, <3>1 DEF WithId
      <4>2. \A w \in users : w.email = entity.email => w.id = id
        BY <4>1 DEF Taken, AccountsOf
      <4>3. QED
        BY <1>5, <2>2, <2>4, <3>1, <4>2
    <3>2. QED
      BY <1>5, <2>1, <2>2, <3>1
  <2>5. QED
    BY <2>3, <2>4
<1>6. QED
  <2> HIDE DEF F
  <2>1. QED
    BY <1>3, <1>4, <1>5, UsersMapped

\* One more account, with an id of its own and a free email.
LEMMA InsertAccounts ==
    ASSUME Typing, Typing', Accounts, NEW u \in Account, users' = users \cup {u},
           WithId(u.id) = {}, AccountsOf(u.email) = {}, u.id <= created', created' >= created,
           chosen \subseteq chosen', Chosen(u)'
    PROVE  UniqueAccounts' /\ PasswordChosen' /\ \A v \in users' : v.id <= created'
<1>1. \A v \in users : v.id # u.id /\ v.email # u.email
  BY DEF WithId, AccountsOf
<1>2. UniqueAccounts'
  BY <1>1 DEF Accounts, UniqueAccounts
<1>3. PasswordChosen'
  BY DEF Accounts, PasswordChosen, Chosen
<1>4. \A v \in users : v.id <= created'
  <2>1. \A v \in users : v.id \in Nat /\ v.id <= created
    BY DEF Typing, TypeOK, Account, Ids, Accounts
  <2>2. created \in Nat /\ created' \in Nat
    BY CredentialsAssumption DEF Typing, TypeOK
  <2>3. QED
    BY <2>1, <2>2
<1>5. QED
  BY <1>2, <1>3, <1>4

\* The steps of userRepository.save and of generateAuthResponse: a stale
\* entity comes back only to the account it was read from.
LEMMA SavingAccounts ==
    ASSUME Typing, Typing', Accounts, NEW r \in Requests,
           SaveSelect(r) \/ SaveWrite(r) \/ SaveInsert(r) \/ Respond(r)
    PROVE  Accounts'
<1>0. /\ TypeOK /\ Typed(req[r]) /\ req[r] \in Request /\ Grounded(r)
      /\ created \in Nat /\ created' \in Nat
  BY CredentialsAssumption DEF Typing, TypeOK, Accounts
<1>1. CASE SaveSelect(r)
  <2>1. UNCHANGED <<users, created, chosen>>
    BY <1>1 DEF SaveSelect, history
  <2>2. /\ req'[r].id = req[r].id /\ req'[r].row = req[r].row
        /\ req'[r].at \in {"saveWrite", "saveInsert"}
        /\ \A p \in Requests \ {r} : req'[p] = req[p]
    BY <1>0, <1>1 DEF SaveSelect, Goto, TypeOK, Request
  <2>3. Grounded(r)'
    BY <1>0, <1>1, <2>1, <2>2 DEF SaveSelect, Grounded, Chosen, Saving
  <2>4. QED
    BY <1>0, <2>1, <2>2, <2>3, UsersStay, GroundedStep DEF Accounts
<1>2. CASE SaveWrite(r)
  <2>1. /\ req[r].row \in Account /\ req[r].row.id = req[r].id /\ Chosen(req[r].row)
        /\ req[r].at \in Saving
    BY <1>0, <1>2 DEF SaveWrite, Typed, Grounded, Saving
  <2>2. created' = created /\ chosen' = chosen
    BY <1>2 DEF SaveWrite, history
  <2>3. /\ req'[r].at \notin Saving \cup {"setPassword"}
        /\ \A p \in Requests \ {r} : req'[p] = req[p]
    <3>1. CASE Answer(r)
      BY <3>1, AnsweredSlot
    <3>2. CASE req' = [req EXCEPT ![r] = AfterSave(r)]
      BY <1>0, <2>1, <3>2, SavedSlot
    <3>3. QED
      BY <1>2, <3>1, <3>2 DEF SaveWrite
  <2>4. UniqueAccounts' /\ PasswordChosen' /\ \A u \in users' : u.id <= created'
    <3>1. CASE "email" \in req[r].dirty /\ Taken(req[r].id, req[r].row.email)
      BY <1>2, <2>2, <3>1, UsersStay DEF SaveWrite
    <3>2. CASE ~("email" \in req[r].dirty /\ Taken(req[r].id, req[r].row.email))
      <4>1. PICK id, entity, cols : id = req[r].id /\ entity = req[r].row /\ cols = req[r].dirty
        OBVIOUS
      <4>2. users' = {IF u.id = id THEN Overwrite(u, entity, cols) ELSE u : u \in users}
        BY <1>2, <3>2, <4>1 DEF SaveWrite
      <4>3. /\ entity \in Account /\ entity.id = id /\ Chosen(entity)
            /\ "email" \in cols => ~Taken(id, entity.email)
        BY <2>1, <3>2, <4>1
      <4>4. QED
        BY <2>2, <4>2, <4>3, OverwriteAccounts
    <3>3. QED
      BY <3>1, <3>2
  <2>5. Grounded(r)'
    BY <2>3 DEF Grounded
  <2>6. QED
    BY <1>0, <2>2, <2>3, <2>4, <2>5, GroundedStep DEF Accounts
<1>3. CASE SaveInsert(r)
  <2>1. /\ req[r].row \in Account /\ req[r].row.id = req[r].id /\ Chosen(req[r].row)
        /\ req[r].at \in Saving /\ req[r].id <= created
    BY <1>0, <1>3 DEF SaveInsert, Typed, Grounded, Saving
  <2>2. created' = created /\ chosen' = chosen
    BY <1>3 DEF SaveInsert, history
  <2>3. /\ req'[r].at \notin Saving \cup {"setPassword"}
        /\ \A p \in Requests \ {r} : req'[p] = req[p]
    <3>1. CASE Answer(r)
      BY <3>1, AnsweredSlot
    <3>2. CASE req' = [req EXCEPT ![r] = AfterSave(r)]
      BY <1>0, <2>1, <3>2, SavedSlot
    <3>3. QED
      BY <1>3, <3>1, <3>2 DEF SaveInsert
  <2>4. UniqueAccounts' /\ PasswordChosen' /\ \A u \in users' : u.id <= created'
    <3>1. CASE users' = users
      BY <2>2, <3>1, UsersStay
    <3>2. CASE /\ WithId(req[r].id) = {} /\ AccountsOf(req[r].row.email) = {}
               /\ users' = users \cup {req[r].row}
      <4>2. PICK u : u = req[r].row
        OBVIOUS
      <4>3. Chosen(u)'
        BY <2>1, <2>2, <4>2 DEF Chosen
      <4>4. /\ u \in Account /\ users' = users \cup {u}
            /\ WithId(u.id) = {} /\ AccountsOf(u.email) = {} /\ u.id <= created'
        BY <2>1, <2>2, <3>2, <4>2
      <4>5. created' >= created /\ chosen \subseteq chosen'
        BY <1>0, <2>2
      <4>6. QED
        BY <4>3, <4>4, <4>5, InsertAccounts
    <3>3. QED
      BY <1>3, <3>1, <3>2 DEF SaveInsert
  <2>5. Grounded(r)'
    BY <2>3 DEF Grounded
  <2>6. QED
    BY <1>0, <2>2, <2>3, <2>4, <2>5, GroundedStep DEF Accounts
<1>4. CASE Respond(r)
  <2>1. /\ UpdateColumn(req[r].id, "session", TRUE) /\ Answer(r)
        /\ created' = created /\ chosen' = chosen
    BY <1>4 DEF Respond, history
  <2>2. UniqueAccounts' /\ PasswordChosen' /\ \A u \in users' : u.id <= created'
    BY <2>1, ColumnAccounts
  <2>3. Grounded(r)'
    BY <2>1, AnsweredSlot DEF Grounded
  <2>4. QED
    BY <1>0, <2>1, <2>2, <2>3, AnsweredSlot, GroundedStep DEF Accounts
<1>5. QED
  BY <1>1, <1>2, <1>3, <1>4

\* What slot r holds when its reset found account u.
LEMMA ResetSlot ==
    ASSUME Typing, NEW r \in Requests, NEW u, ResetTo(r, u)
    PROVE  /\ req'[r].at = "save" /\ req'[r].id = u.id
           /\ req'[r].row = [u EXCEPT !.password = req[r].value]
           /\ req'[r].op = req[r].op /\ req'[r].value = req[r].value
           /\ req'[r].link = req[r].link
           /\ \A p \in Requests \ {r} : req'[p] = req[p]
<1>1. PICK q : /\ q = [req[r] EXCEPT !.at = "save", !.id = u.id,
                                     !.row = [u EXCEPT !.password = req[r].value]]
               /\ req' = [req EXCEPT ![r] = q]
  BY DEF ResetTo
<1>2. /\ q.at = "save" /\ q.id = u.id /\ q.row = [u EXCEPT !.password = req[r].value]
      /\ q.op = req[r].op /\ q.value = req[r].value /\ q.link = req[r].link
  BY <1>1 DEF Typing, TypeOK, Request
<1>3. req'[r] = q /\ \A p \in Requests \ {r} : req'[p] = req[p]
  BY <1>1 DEF Typing, TypeOK
<1>4. QED
  BY <1>2, <1>3

\* The steps of the reset of a password: the one chosen is in the entity.
LEMMA ResetAccounts ==
    ASSUME Typing, Typing', Accounts, NEW r \in Requests,
           ResetDiscard(r) \/ ResetFindUser(r) \/ ResetDelete(r)
    PROVE  Accounts'
<1>1. CASE ResetDiscard(r) \/ ResetDelete(r)
  BY <1>1, AnsweredSlot, AccountsStay DEF ResetDiscard, ResetDelete, history
<1>2. CASE ResetFindUser(r)
  <2>1. UNCHANGED <<users, created>>
    BY <1>2 DEF ResetFindUser
  <2>2. CASE Answer(r) /\ UNCHANGED chosen
    BY <2>1, <2>2, AnsweredSlot, AccountsStay
  <2>3. ASSUME NEW u \in users, ResetTo(r, u),
               chosen' = chosen \cup {<<u.id, req[r].value>>}
        PROVE  Accounts'
    <3>1. u \in Account /\ u.id <= created /\ req[r] \in Request /\ created \in Nat
      BY CredentialsAssumption DEF Typing, TypeOK, Accounts
    <3>2. /\ req'[r].at = "save" /\ req'[r].id = u.id
          /\ req'[r].row = [u EXCEPT !.password = req[r].value]
          /\ \A p \in Requests \ {r} : req'[p] = req[p]
      BY <2>3, ResetSlot
    <3>3. req'[r].row.id = u.id /\ req'[r].row.password = req[r].value
      BY <3>1, <3>2 DEF Account
    <3>4. Grounded(r)'
      BY <2>1, <2>3, <3>1, <3>2, <3>3 DEF Grounded, Chosen
    <3>5. created' >= created /\ chosen \subseteq chosen'
      BY <2>1, <2>3, <3>1
    <3>6. UniqueAccounts' /\ PasswordChosen' /\ \A v \in users' : v.id <= created'
      BY <2>1, <3>5, UsersStay
    <3>7. \A p \in Requests : Grounded(p)'
      BY <3>2, <3>4, <3>5, GroundedStep
    <3>8. QED
      BY <3>6, <3>7 DEF Accounts
  <2>4. QED
    BY <1>2, <2>2, <2>3 DEF ResetFindUser, AccountsOf
<1>3. QED
  BY <1>1, <1>2

\* Requests for a link change no account.
LEMMA ForgotAccounts ==
    ASSUME Typing, Typing', Accounts, NEW r \in Requests,
           \/ ForgotDelete(r) \/ ForgotInsert(r)
           \/ ForgotQueue(r) \/ ForgotQueueFails(r) \/ ForgotCleanup(r)
    PROVE  Accounts'
<1>1. UNCHANGED <<users, created, chosen>>
  BY DEF ForgotDelete, ForgotInsert, ForgotQueue, ForgotQueueFails, ForgotCleanup, history
<1>2. /\ req'[r].at \notin Saving \cup {"setPassword"}
      /\ \A p \in Requests \ {r} : req'[p] = req[p]
  <2>1. CASE Answer(r)
    BY <2>1, AnsweredSlot
  <2>2. CASE Goto(r, "fgtInsert") \/ Goto(r, "fgtQueue") \/ Goto(r, "fgtCleanup")
    BY <2>2, SlotMoves DEF Typing, Label, Saving
  <2>3. QED
    BY <2>1, <2>2 DEF ForgotDelete, ForgotInsert, ForgotQueue, ForgotQueueFails, ForgotCleanup
<1>3. QED
  BY <1>1, <1>2, AccountsStay

\* An account that is inserted gets the next id.
LEMMA InsertKeeps ==
    ASSUME Typing, Typing', Accounts, NEW e \in Emails, NEW pw \in Passwords \cup {None},
           AccountsOf(e) = {}, Insert(created + 1, e, pw), chosen \subseteq chosen',
           pw # None => <<created + 1, pw>> \in chosen'
    PROVE  /\ UniqueAccounts' /\ PasswordChosen' /\ \A u \in users' : u.id <= created'
           /\ created' >= created
<1>1. created \in Nat /\ created' = created + 1 /\ created + 1 \in Ids
  BY CredentialsAssumption DEF Typing, TypeOK, Insert, Ids
<1>2. PICK u : u = [id |-> created + 1, email |-> e, password |-> pw, session |-> FALSE]
  OBVIOUS
<1>3. u \in Account /\ u.id = created + 1 /\ u.email = e /\ u.password = pw
  BY <1>1, <1>2 DEF Account
<1>4. WithId(u.id) = {}
  <2>1. \A v \in users : v.id \in Nat /\ v.id <= created
    BY DEF Typing, TypeOK, Account, Ids, Accounts
  <2>2. QED
    BY <1>1, <1>3, <2>1 DEF WithId
<1>5. Chosen(u)'
  BY <1>3 DEF Chosen
<1>6. users' = users \cup {u} /\ AccountsOf(u.email) = {} /\ u.id <= created' /\ created' >= created
  BY <1>1, <1>2, <1>3 DEF Insert
<1>7. QED
  BY <1>3, <1>4, <1>5, <1>6, InsertAccounts

\* A step of UserService leaves the answer to give, or an idle slot.
LEMMA AccountSlot ==
    ASSUME Typing, NEW r \in Requests,
           \/ CreateInsert(r) \/ SetPassword(r) \/ SetEmail(r) \/ Remove(r)
           \/ Tell(r) \/ TellRemoved(r)
    PROVE  /\ req'[r].at \in Telling \cup {"idle"}
           /\ req'[r].link \in {0, req[r].link}
           /\ \A p \in Requests \ {r} : req'[p] = req[p]
<1>1. TypeOK /\ req[r] \in Request
  BY DEF Typing, TypeOK
<1>2. CASE Answer(r)
  BY <1>1, <1>2, SlotIdle DEF Idle, Holding
<1>3. CASE Goto(r, "tellPassword") \/ Goto(r, "tellEmail") \/ Goto(r, "tellRemoved")
  BY <1>1, <1>3, SlotMoves DEF Label, Telling
<1>4. CASE req' = [req EXCEPT ![r].at = "tellCreated", ![r].id = created + 1]
  BY <1>1, <1>4 DEF TypeOK, Request, Telling
<1>5. QED
  BY <1>2, <1>3, <1>4 DEF CreateInsert, SetPassword, SetEmail, Remove, Tell, TellRemoved

\* The steps of UserService.
LEMMA AccountAccounts ==
    ASSUME Typing, Typing', Accounts, NEW r \in Requests,
           \/ CreateInsert(r) \/ SetPassword(r) \/ SetEmail(r) \/ Remove(r)
           \/ Tell(r) \/ TellRemoved(r)
    PROVE  Accounts'
<1>0. /\ Typed(req[r]) /\ Grounded(r) /\ created \in Nat
  BY CredentialsAssumption DEF Typing, TypeOK, Accounts
<1>1. /\ \A p \in Requests \ {r} : req'[p] = req[p]
      /\ Grounded(r)'
  BY AccountSlot DEF Grounded, Saving, Telling
<1>2. /\ UniqueAccounts' /\ PasswordChosen' /\ \A u \in users' : u.id <= created'
      /\ created' >= created /\ chosen \subseteq chosen'
  <2>1. CASE CreateInsert(r)
    <3>1. CASE UNCHANGED <<users, created, chosen>>
      BY <1>0, <3>1, UsersStay
    <3>2. CASE /\ AccountsOf(req[r].email) = {}
               /\ Insert(created + 1, req[r].email, req[r].value)
               /\ chosen' = chosen \cup {<<created + 1, req[r].value>>}
      <4>1. PICK e \in Emails, pw \in Passwords : e = req[r].email /\ pw = req[r].value
        BY <1>0, <2>1 DEF CreateInsert, Typed
      <4>2. /\ AccountsOf(e) = {} /\ Insert(created + 1, e, pw)
            /\ chosen' = chosen \cup {<<created + 1, pw>>}
        BY <3>2, <4>1
      <4>3. /\ chosen \subseteq chosen' /\ <<created + 1, pw>> \in chosen'
            /\ pw \in Passwords \cup {None}
        BY <4>2
      <4>4. QED
        BY <4>2, <4>3, InsertKeeps
    <3>3. QED
      BY <2>1, <3>1, <3>2 DEF CreateInsert
  <2>2. CASE SetPassword(r)
    <3>1. PICK id, val : id = req[r].id /\ val = req[r].value
      OBVIOUS
    <3>2. UpdateColumn(id, "password", val) /\ <<id, val>> \in chosen
          /\ created' = created /\ chosen' = chosen
      BY <1>0, <2>2, <3>1 DEF SetPassword, Grounded, history
    <3>3. QED
      BY <1>0, <3>2, ColumnAccounts
  <2>3. CASE SetEmail(r)
    <3>1. PICK id, val : id = req[r].id /\ val = req[r].email
      OBVIOUS
    <3>2. created' = created /\ chosen' = chosen
      BY <2>3 DEF SetEmail, history
    <3>3. CASE Taken(id, val)
      BY <1>0, <2>3, <3>1, <3>2, <3>3, UsersStay DEF SetEmail
    <3>4. CASE ~Taken(id, val)
      <4>1. UpdateColumn(id, "email", val)
        BY <2>3, <3>1, <3>4 DEF SetEmail
      <4>2. UniqueAccounts' /\ PasswordChosen' /\ \A u \in users' : u.id <= created'
        BY <3>2, <3>4, <4>1, ColumnAccounts
      <4>3. QED
        BY <1>0, <3>2, <4>2
    <3>5. QED
      BY <3>3, <3>4
  <2>4. CASE Remove(r)
    BY <1>0, <2>4 DEF Remove, Accounts, UniqueAccounts, PasswordChosen, history
  <2>5. CASE Tell(r) \/ TellRemoved(r)
    BY <1>0, <2>5, UsersStay DEF Tell, TellRemoved
  <2>6. QED
    BY <2>1, <2>2, <2>3, <2>4, <2>5
<1>3. QED
  BY <1>1, <1>2, GroundedStep DEF Accounts

\* Steps that are nobody's request.
LEMMA WorldAccounts ==
    ASSUME Typing, Typing', Accounts,
           \/ \E e \in Emails : ApproveInsert(e)
           \/ \E link \in Links : Expire(link)
           \/ Crash
           \/ UNCHANGED vars
    PROVE  Accounts'
<1>1. ASSUME NEW e \in Emails, ApproveInsert(e)
      PROVE  Accounts'
  <2>1. /\ UniqueAccounts' /\ PasswordChosen' /\ \A u \in users' : u.id <= created'
        /\ created' >= created
    BY <1>1, InsertKeeps DEF ApproveInsert, history
  <2>2. \A r \in Requests : Grounded(r)'
    <3>1. created \in Nat /\ created' = created + 1 /\ req' = req /\ chosen' = chosen
      BY <1>1, CredentialsAssumption DEF ApproveInsert, Insert, Typing, TypeOK, history
    <3>2. \A r \in Requests : Grounded(r) /\ (req[r].at \in Saving => req[r].id \in Nat)
      BY DEF Accounts, Typing, Typed, Ids
    <3>3. QED
      BY <3>1, <3>2 DEF Grounded, Chosen
  <2>3. QED
    BY <2>1, <2>2 DEF Accounts
<1>2. CASE \/ \E link \in Links : Expire(link)
           \/ UNCHANGED vars
  <2>1. UNCHANGED <<users, req, created, chosen>>
    BY <1>2 DEF Expire, vars, history
  <2>2. QED
    BY <2>1 DEF Accounts, Grounded, Chosen, UniqueAccounts, PasswordChosen
<1>3. CASE Crash
  <2>1. UNCHANGED <<users, created, chosen>> /\ req' = [r \in Requests |-> Idle]
    BY <1>3 DEF Crash
  <2>2. \A r \in Requests : Grounded(r)'
    BY <2>1 DEF Grounded, Idle, Holding, Saving
  <2>3. QED
    BY <2>1, <2>2, UsersStay DEF Accounts
<1>4. QED
  BY <1>1, <1>2, <1>3

\* Accounts stay unique and their passwords chosen in every reachable state.
LEMMA AlwaysAccounts == Spec => []Accounts
<1>1. Init => Accounts
  BY DEF Init, Accounts, UniqueAccounts, PasswordChosen, Grounded, Idle, Holding, Saving
<1>2. Typing /\ Typing' /\ Accounts /\ [Next]_vars => Accounts'
  BY ClientAccounts, SavingAccounts, ForgotAccounts, ResetAccounts, AccountAccounts,
     WorldAccounts DEF Next, Step
<1>3. QED
  BY <1>1, <1>2, AlwaysTyping, PTL DEF Spec

\* An account's password is always one that was chosen for that account: stale
\* saves may undo a change but never give an account somebody else's password.
THEOREM PasswordsChosen == Spec => []PasswordChosen
<1>1. Accounts => PasswordChosen
  BY DEF Accounts
<1>2. QED
  BY <1>1, AlwaysAccounts, PTL

-----------------------------------------------------------------------------
(* Links.  A link that was generated and is not stored yet is held by the  *)
(* request that generated it and by nothing else.                          *)

Pending(r) == req[r].at \in {"fgtDelete", "fgtInsert"}

LinksNumbered ==
    /\ IsFiniteSet(generated)
    /\ \A g \in generated : g.link <= Cardinality(generated)
    /\ \A s \in resets : s.link <= Cardinality(generated)
    /\ \A l \in spent : l <= Cardinality(generated)
    /\ \A r \in Requests : req[r].link <= Cardinality(generated)

PendingAlone ==
    \A r \in Requests :
        Pending(r) => /\ req[r].link \notin spent
                      /\ \A s \in resets : s.link # req[r].link
                      /\ \A q \in Requests \ {r} : req[q].link # req[r].link

LinksGood == LinksNumbered /\ PendingAlone /\ SpentLinksGone

\* A step that stores and spends no link, and whose slot holds afterwards no
\* link, the one it held or a stored one.
LEMMA LinksStay ==
    ASSUME Typing, LinksGood, NEW r \in Requests,
           \A p \in Requests \ {r} : req'[p] = req[p],
           resets' \subseteq resets, UNCHANGED <<generated, spent>>,
           req'[r].link \in {0, req[r].link} \cup {s.link : s \in resets},
           Pending(r)' => Pending(r) /\ req'[r].link = req[r].link
    PROVE  LinksGood'
<1>1. \A p \in Requests : Pending(p) => req[p].link \in Links /\ req[p].link # 0
  BY CredentialsAssumption DEF Typing, Typed, Pending, Forgetting, Links
<1>2. Cardinality(generated) \in Nat
  BY FS_CardinalityType DEF LinksGood, LinksNumbered
<1>3. LinksNumbered'
  <2>1. req'[r].link <= Cardinality(generated)
    BY <1>2 DEF LinksGood, LinksNumbered
  <2>2. \A p \in Requests : req'[p].link <= Cardinality(generated)
    BY <2>1 DEF LinksGood, LinksNumbered
  <2>3. QED
    BY <2>2 DEF LinksGood, LinksNumbered
<1>4. PendingAlone'
  <2>1. SUFFICES ASSUME NEW p \in Requests, Pending(p)'
                 PROVE  /\ req'[p].link \notin spent
                        /\ \A s \in resets : s.link # req'[p].link
                        /\ \A q \in Requests \ {p} : req'[q].link # req'[p].link
    BY DEF PendingAlone
  <2>2. Pending(p) /\ req'[p].link = req[p].link
    BY <2>1 DEF Pending
  <2>3. /\ req[p].link \notin spent
        /\ \A s \in resets : s.link # req[p].link
        /\ \A q \in Requests \ {p} : req[q].link # req[p].link
    BY <2>2 DEF LinksGood, PendingAlone
  <2>4. ASSUME NEW q \in Requests \ {p}
        PROVE  req'[q].link # req[p].link
    BY <1>1, <2>2, <2>3
  <2>5. QED
    BY <2>2, <2>3, <2>4
<1>5. SpentLinksGone'
  BY DEF LinksGood, SpentLinksGone
<1>6. QED
  BY <1>3, <1>4, <1>5 DEF LinksGood

\* An answer holds no link.
LEMMA LinksAnswer ==
    ASSUME Typing, LinksGood, NEW r \in Requests, Answer(r),
           resets' \subseteq resets, UNCHANGED <<generated, spent>>
    PROVE  LinksGood'
<1>1. /\ req'[r].link = 0 /\ ~Pending(r)'
      /\ \A p \in Requests \ {r} : req'[p] = req[p]
  BY SlotIdle DEF Typing, Idle, Holding, Pending
<1>2. QED
  BY <1>1, LinksStay

\* An arrival without a link, or with a stored one.
LEMMA LinksArrival ==
    ASSUME Typing, LinksGood, NEW r \in Requests, NEW q, Arrive(r, q),
           q.at \notin {"fgtDelete", "fgtInsert"},
           q.link \in {0} \cup {s.link : s \in resets},
           UNCHANGED <<resets, generated, spent>>
    PROVE  LinksGood'
<1>1. req'[r] = q /\ \A p \in Requests \ {r} : req'[p] = req[p]
  BY ArrivedSlot
<1>2. ~Pending(r)'
  BY <1>1 DEF Pending
<1>3. QED
  BY <1>1, <1>2, LinksStay

\* The link that forgotPassword generates is nobody else's.
LEMMA LinksGenerated ==
    ASSUME Typing, LinksGood, NEW r \in Requests, NEW e \in Emails, ForgotFind(r, e)
    PROVE  LinksGood'
<1>1. PICK n : n = Cardinality(generated)
  OBVIOUS
<1>2. n \in Nat /\ FreshLink = n + 1
  BY <1>1, FS_CardinalityType DEF LinksGood, LinksNumbered, FreshLink
<1>3. /\ generated' = generated \cup {[link |-> n + 1, email |-> e]}
      /\ Arrive(r, Holding("fgtDelete", "forgot", 0, e, None, None, n + 1))
      /\ UNCHANGED <<resets, spent>>
  BY <1>2 DEF ForgotFind
<1>4. /\ req'[r].link = n + 1
      /\ \A p \in Requests \ {r} : req'[p] = req[p]
  BY <1>3, ArrivedSlot DEF Holding
<1>5. /\ generated \subseteq Reset /\ \A g \in generated : g.link \in Nat /\ g.link <= n
      /\ \A s \in resets : s.link \in Nat /\ s.link <= n
      /\ \A l \in spent : l \in Nat /\ l <= n
      /\ \A p \in Requests : req[p].link \in Nat /\ req[p].link <= n
  BY <1>1 DEF Typing, TypeOK, Reset, Links, Request, LinksGood, LinksNumbered
<1>6. IsFiniteSet(generated') /\ Cardinality(generated') = n + 1
  <2>1. PICK g : g = [link |-> n + 1, email |-> e]
    OBVIOUS
  <2>2. g \notin generated
    BY <1>2, <1>5, <2>1
  <2>3. IsFiniteSet(generated)
    BY DEF LinksGood, LinksNumbered
  <2>4. generated' = generated \cup {g}
    BY <1>3, <2>1
  <2>5. QED
    BY <1>1, <2>2, <2>3, <2>4, FS_AddElement
<1>7. LinksNumbered'
  <2>1. \A g \in generated' : g.link <= n + 1
    BY <1>2, <1>3, <1>5
  <2>2. \A p \in Requests : req'[p].link <= n + 1
    BY <1>2, <1>4, <1>5
  <2>3. /\ \A s \in resets' : s.link <= n + 1
        /\ \A l \in spent' : l <= n + 1
    BY <1>2, <1>3, <1>5
  <2>4. QED
    BY <1>6, <2>1, <2>2, <2>3 DEF LinksNumbered
<1>8. PendingAlone'
  <2>1. \A p \in Requests \ {r} : Pending(p)' => Pending(p)
    BY <1>4 DEF Pending
  <2>2. \A p \in Requests \ {r} : req'[p].link # n + 1
    BY <1>2, <1>4, <1>5
  <2>3. n + 1 \notin spent /\ \A s \in resets : s.link # n + 1
    BY <1>2, <1>5
  <2>4. QED
    BY <1>3, <1>4, <2>1, <2>2, <2>3 DEF LinksGood, PendingAlone
<1>9. SpentLinksGone'
  BY <1>3 DEF LinksGood, SpentLinksGone
<1>10. QED
  BY <1>7, <1>8, <1>9 DEF LinksGood

\* Requests that a client sends.
LEMMA ClientLinks ==
    ASSUME Typing, LinksGood, NEW r \in Requests, Client(r)
    PROVE  LinksGood'
<1>1. ASSUME NEW u \in users, NEW stored \in BOOLEAN, NEW fresh \in BOOLEAN,
             Refresh(r, u, stored, fresh)
      PROVE  LinksGood'
  <2>1. ~Active(u)
    BY DEF Active, Typing, TypeOK, Account
  <2>2. UNCHANGED <<req, resets, generated, spent>>
    BY <1>1, <2>1 DEF Refresh
  <2>3. QED
    BY <2>2 DEF LinksGood, LinksNumbered, PendingAlone, Pending, SpentLinksGone
<1>2. ASSUME NEW link \in Links, NEW pw \in Passwords, ResetFind(r, link, pw)
      PROVE  LinksGood'
  <2>1. PICK s \in resets :
            /\ s.link = link
            /\ Arrive(r, Holding(IF link \in expired THEN "rstDiscard" ELSE "rstFindUser",
                                 "reset", 0, s.email, pw, None, link))
            /\ UNCHANGED <<resets, generated, spent>>
    BY <1>2 DEF ResetFind
  <2>2. PICK label \in {"rstDiscard", "rstFindUser"} :
            Arrive(r, Holding(label, "reset", 0, s.email, pw, None, link))
    BY <2>1
  <2>3. QED
    BY <2>1, <2>2, LinksArrival DEF Holding
<1>3. ASSUME NEW e \in Emails, NEW pw \in Passwords, LoginFind(r, e, pw)
      PROVE  LinksGood'
  BY <1>3, LinksArrival DEF LoginFind, Holding
<1>4. ASSUME NEW e \in Emails, NEW pw \in Passwords, CreateFind(r, e, pw)
      PROVE  LinksGood'
  BY <1>4, LinksArrival DEF CreateFind, Holding
<1>5. ASSUME NEW u \in users, NEW label \in {"setPassword", "remove"}, NEW val,
             Find(r, u, label, val)
      PROVE  LinksGood'
  BY <1>5, LinksArrival DEF Find, Holding
<1>6. ASSUME NEW u \in users, NEW e \in Emails, UpdateAccount(r, u, e)
      PROVE  LinksGood'
  BY <1>6, LinksArrival DEF UpdateAccount, Holding
<1>7. ASSUME NEW u \in users, ApproveFind(r, u)
      PROVE  LinksGood'
  BY <1>7, LinksArrival DEF ApproveFind, Holding
<1>8. QED
  BY LinksGenerated, <1>1, <1>2, <1>3, <1>4, <1>5, <1>6, <1>7
  DEF Client, ChangePassword, ChangeOwnPassword, RepairOrphanedAccount, DeleteAccount

\* The steps of forgotPassword: the link is stored once, by its request.
LEMMA ForgotLinks ==
    ASSUME Typing, LinksGood, NEW r \in Requests,
           \/ ForgotDelete(r) \/ ForgotInsert(r)
           \/ ForgotQueue(r) \/ ForgotQueueFails(r) \/ ForgotCleanup(r)
    PROVE  LinksGood'
<1>1. CASE ForgotDelete(r)
  <2>1. /\ req'[r].link = req[r].link /\ Pending(r)
        /\ \A p \in Requests \ {r} : req'[p] = req[p]
    BY <1>1, SlotMoves DEF ForgotDelete, Typing, Label, Pending
  <2>2. resets' \subseteq resets /\ UNCHANGED <<generated, spent>>
    BY <1>1 DEF ForgotDelete, DeleteResets, history
  <2>3. QED
    BY <2>1, <2>2, LinksStay
<1>2. CASE ForgotInsert(r)
  <2>1. /\ req'[r].link = req[r].link /\ Pending(r) /\ ~Pending(r)'
        /\ \A p \in Requests \ {r} : req'[p] = req[p]
    BY <1>2, SlotMoves DEF ForgotInsert, Typing, Label, Pending
  <2>2. PICK s : s = [link |-> req[r].link, email |-> req[r].email]
    OBVIOUS
  <2>3. resets' = resets \cup {s} /\ s.link = req[r].link /\ UNCHANGED <<generated, spent>>
    BY <1>2, <2>2 DEF ForgotInsert, history
  <2>4. s.link \notin spent /\ \A q \in Requests \ {r} : req[q].link # s.link
    BY <2>1, <2>3 DEF LinksGood, PendingAlone
  <2>5. LinksNumbered'
    <3>1. \A p \in Requests : req'[p].link <= Cardinality(generated)
      BY <2>1 DEF LinksGood, LinksNumbered
    <3>2. \A t \in resets' : t.link <= Cardinality(generated)
      BY <2>3 DEF LinksGood, LinksNumbered
    <3>3. QED
      BY <2>3, <3>1, <3>2 DEF LinksGood, LinksNumbered
  <2>6. PendingAlone'
    <3>1. \A p \in Requests : req'[p].link = req[p].link
      BY <2>1
    <3>2. \A p \in Requests \ {r} : Pending(p)' => Pending(p)
      BY <2>1 DEF Pending
    <3>3. QED
      BY <2>1, <2>3, <2>4, <3>1, <3>2 DEF LinksGood, PendingAlone
  <2>7. SpentLinksGone'
    BY <2>3, <2>4 DEF LinksGood, SpentLinksGone
  <2>8. QED
    BY <2>5, <2>6, <2>7 DEF LinksGood
<1>3. CASE ForgotQueue(r)
  BY <1>3, LinksAnswer DEF ForgotQueue
<1>4. CASE ForgotQueueFails(r)
  <2>1. /\ req'[r].link = req[r].link /\ ~Pending(r)'
        /\ \A p \in Requests \ {r} : req'[p] = req[p]
    BY <1>4, SlotMoves DEF ForgotQueueFails, Typing, Label, Pending
  <2>2. QED
    BY <1>4, <2>1, LinksStay DEF ForgotQueueFails, history
<1>5. CASE ForgotCleanup(r)
  BY <1>5, LinksAnswer DEF ForgotCleanup, DeleteResets, history
<1>6. QED
  BY <1>1, <1>2, <1>3, <1>4, <1>5

\* The steps of resetPassword: the link that is spent is no longer stored,
\* and no request is about to store it.
LEMMA ResetLinks ==
    ASSUME Typing, LinksGood, NEW r \in Requests,
           ResetDiscard(r) \/ ResetFindUser(r) \/ ResetDelete(r)
    PROVE  LinksGood'
<1>1. CASE ResetDiscard(r)
  BY <1>1, LinksAnswer DEF ResetDiscard, DeleteLink, history
<1>2. CASE ResetFindUser(r)
  <2>1. UNCHANGED <<resets, generated, spent>>
    BY <1>2 DEF ResetFindUser
  <2>2. CASE Answer(r)
    BY <2>1, <2>2, LinksAnswer
  <2>3. ASSUME NEW u \in users, ResetTo(r, u)
        PROVE  LinksGood'
    <3>1. /\ req'[r].link = req[r].link /\ ~Pending(r)'
          /\ \A p \in Requests \ {r} : req'[p] = req[p]
      BY <2>3, ResetSlot DEF Pending
    <3>2. QED
      BY <2>1, <3>1, LinksStay
  <2>4. QED
    BY <1>2, <2>2, <2>3 DEF ResetFindUser, AccountsOf
<1>3. CASE ResetDelete(r)
  <2>1. PICK l : l = req[r].link
    OBVIOUS
  <2>2. /\ resets' = {s \in resets : s.link # l} /\ spent' = spent \cup {l}
        /\ generated' = generated /\ Answer(r) /\ ~Pending(r)
    BY <1>3, <2>1 DEF ResetDelete, DeleteLink, Pending
  <2>3. /\ req'[r].link = 0 /\ ~Pending(r)'
        /\ \A p \in Requests \ {r} : req'[p] = req[p]
    BY <2>2, SlotIdle DEF Typing, Idle, Holding, Pending
  <2>4. l <= Cardinality(generated) /\ 0 <= Cardinality(generated)
    BY <2>1, FS_CardinalityType DEF LinksGood, LinksNumbered
  <2>5. LinksNumbered'
    <3>1. \A p \in Requests : req'[p].link <= Cardinality(generated)
      BY <2>3, <2>4 DEF LinksGood, LinksNumbered
    <3>2. \A k \in spent' : k <= Cardinality(generated)
      BY <2>2, <2>4 DEF LinksGood, LinksNumbered
    <3>3. QED
      BY <2>2, <3>1, <3>2 DEF LinksGood, LinksNumbered
  <2>6. PendingAlone'
    <3>1. SUFFICES ASSUME NEW p \in Requests \ {r}, Pending(p)
                   PROVE  /\ req[p].link \notin spent'
                          /\ \A s \in resets' : s.link # req[p].link
                          /\ \A q \in Requests \ {p} : req'[q].link # req[p].link
      BY <2>3 DEF PendingAlone, Pending
    <3>2. /\ req[p].link \notin spent
          /\ \A s \in resets : s.link # req[p].link
          /\ \A q \in Requests \ {p} : req[q].link # req[p].link
      BY <3>1 DEF LinksGood, PendingAlone
    <3>3. req[p].link # 0
      BY <3>1, CredentialsAssumption DEF Typing, Typed, Pending, Forgetting, Links
    <3>4. QED
      BY <2>1, <2>2, <2>3, <3>2, <3>3
  <2>7. SpentLinksGone'
    BY <2>2 DEF LinksGood, SpentLinksGone
  <2>8. QED
    BY <2>5, <2>6, <2>7 DEF LinksGood
<1>4. QED
  BY <1>1, <1>2, <1>3

\* The other steps know of no link but the one their request holds.
LEMMA OtherLinks ==
    ASSUME Typing, LinksGood, NEW r \in Requests,
           \/ SaveSelect(r) \/ SaveWrite(r) \/ SaveInsert(r) \/ Respond(r)
           \/ CreateInsert(r) \/ SetPassword(r) \/ SetEmail(r) \/ Remove(r)
           \/ Tell(r) \/ TellRemoved(r)
    PROVE  LinksGood'
<1>1. UNCHANGED <<resets, generated, spent>>
  BY DEF SaveSelect, SaveWrite, SaveInsert, Respond, CreateInsert, SetPassword, SetEmail,
         Remove, Tell, TellRemoved, history
<1>2. CASE Answer(r)
  BY <1>1, <1>2, LinksAnswer
<1>3. CASE SaveSelect(r)
  <2>1. /\ req'[r].link = req[r].link /\ ~Pending(r)'
        /\ \A p \in Requests \ {r} : req'[p] = req[p]
    BY <1>3 DEF SaveSelect, Goto, Typing, TypeOK, Request, Pending
  <2>2. QED
    BY <1>1, <2>1, LinksStay
<1>4. CASE req[r].at \in Saving /\ req' = [req EXCEPT ![r] = AfterSave(r)]
  <2>1. req[r] \in Request /\ req[r].op \in {"login", "reset", "approve"}
    BY <1>4 DEF Typing, Typed
  <2>2. /\ AfterSave(r).link \in {0, req[r].link}
        /\ AfterSave(r).at \in {"respond", "rstDelete", "idle"}
    BY <2>1 DEF AfterSave, Request, Idle, Holding
  <2>3. /\ req'[r] = AfterSave(r)
        /\ \A p \in Requests \ {r} : req'[p] = req[p]
    BY <1>4 DEF Typing, TypeOK
  <2>4. ~Pending(r)'
    BY <2>2, <2>3 DEF Pending
  <2>5. QED
    BY <1>1, <2>2, <2>3, <2>4, LinksStay
<1>5. CASE \/ CreateInsert(r) \/ SetPassword(r) \/ SetEmail(r) \/ Remove(r)
           \/ Tell(r) \/ TellRemoved(r)
  <2>1. /\ req'[r].link \in {0, req[r].link} /\ ~Pending(r)'
        /\ \A p \in Requests \ {r} : req'[p] = req[p]
    BY <1>5, AccountSlot DEF Pending, Telling
  <2>2. QED
    BY <1>1, <2>1, LinksStay
<1>6. QED
  BY <1>2, <1>3, <1>4, <1>5 DEF SaveWrite, SaveInsert, Respond, Saving

\* Steps that are nobody's request.
LEMMA WorldLinks ==
    ASSUME Typing, LinksGood,
           \/ \E e \in Emails : ApproveInsert(e)
           \/ \E link \in Links : Expire(link)
           \/ Crash
           \/ UNCHANGED vars
    PROVE  LinksGood'
<1>1. UNCHANGED <<resets, generated, spent>>
  BY DEF ApproveInsert, Expire, Crash, vars, history
<1>2. CASE req' = req
  BY <1>1, <1>2 DEF LinksGood, LinksNumbered, PendingAlone, Pending, SpentLinksGone
<1>3. CASE req' = [r \in Requests |-> Idle]
  <2>1. \A r \in Requests : req'[r].link = 0 /\ ~Pending(r)'
    BY <1>3 DEF Idle, Holding, Pending
  <2>2. 0 <= Cardinality(generated)
    BY FS_CardinalityType DEF LinksGood, LinksNumbered
  <2>3. QED
    BY <1>1, <2>1, <2>2 DEF LinksGood, LinksNumbered, PendingAlone, SpentLinksGone
<1>4. QED
  BY <1>2, <1>3 DEF ApproveInsert, Expire, Crash, vars, history

\* The links stay good in every reachable state.
LEMMA AlwaysLinks == Spec => []LinksGood
<1>1. ASSUME Init
      PROVE  LinksGood
  <2>1. IsFiniteSet(generated) /\ Cardinality(generated) = 0
    BY <1>1, FS_EmptySet DEF Init
  <2>2. \A r \in Requests : req[r].link = 0 /\ ~Pending(r)
    BY <1>1 DEF Init, Idle, Holding, Pending
  <2>3. QED
    BY <1>1, <2>1, <2>2 DEF Init, LinksGood, LinksNumbered, PendingAlone, SpentLinksGone
<1>2. Typing /\ LinksGood /\ [Next]_vars => LinksGood'
  BY ClientLinks, OtherLinks, ForgotLinks, ResetLinks, WorldLinks DEF Next, Step
<1>3. QED
  BY <1>1, <1>2, AlwaysTyping, PTL DEF Spec

\* A link whose reset was answered with success is never stored again, so no
\* later request finds it, whatever requests for new links are in flight.
THEOREM SpentLinksStayGone == Spec => []SpentLinksGone
<1>1. LinksGood => SpentLinksGone
  BY DEF LinksGood
<1>2. QED
  BY <1>1, AlwaysLinks, PTL

-----------------------------------------------------------------------------
(* Requests that do not overlap.  Until disturbed is set, at most one      *)
(* request that saves entities or touches links is in flight, and what it  *)
(* knows of the tables is still true.                                      *)

\* The steps of administrators and owners.
AccountLabel == {"create", "setPassword", "setEmail", "remove",
                 "tellCreated", "tellPassword", "tellEmail", "tellRemoved"}

\* At most one request is in flight, or requests of administrators and owners only.
Alone ==
    \A p, q \in Requests :
        p # q /\ req[p].at # "idle" /\ req[q].at # "idle" =>
            req[p].op = "account" /\ req[q].op = "account"

\* What a request knows of the account it is about to write.
Stage(r) ==
    /\ req[r].at = "idle" => req[r] = Idle
    /\ req[r].at # "idle" => req[r].op # None
    /\ req[r].op = "account" <=> req[r].at \in AccountLabel
    /\ req[r].at # "saveInsert"
    /\ req[r].at \in {"save", "saveWrite"} =>
          \E u \in users :
              /\ u.id = req[r].id
              /\ req[r].row = IF req[r].op = "reset"
                              THEN [u EXCEPT !.password = req[r].value] ELSE u
              /\ req[r].at = "saveWrite" => req[r].dirty = DirtyColumns(req[r].row, u)

\* What a request knows of the link it generated or was sent.
LinkStage(r) ==
    /\ req[r].at \in Forgetting =>
          \E g \in generated :
              /\ g.link = req[r].link /\ g.email = req[r].email
              /\ Newest(g)
              /\ g.link \notin seen.linked
              /\ req[r].at = "fgtQueue" => g \in resets
    /\ req[r].at = "rstDiscard" => req[r].link \in expired

\* Only forgotPassword, before its delete, leaves older links stored, and only
\* a link that was not mailed, expired or was spent is missing.
Standing ==
    /\ \A s \in resets :
          Newest(s) \/ \E r \in Requests : req[r].at = "fgtDelete" /\ req[r].email = s.email
    /\ \A g \in generated :
          Newest(g) /\ g.link \in seen.linked \ (expired \cup spent) => g \in resets

LinksOwned ==
    /\ \A g, h \in generated : g.link = h.link => g = h
    /\ \A l \in seen.linked : l <= Cardinality(generated)

Solo ==
    /\ Alone
    /\ \A r \in Requests : Stage(r) /\ LinkStage(r)
    /\ LinksOwned
    /\ Standing

\* As long as the requests that touch links or save entities do not overlap.
SoloInv == ~disturbed => Solo

\* What is seen as long as nothing is disturbed.
LEMMA Recorded ==
    ASSUME NEW h, Record(h), ~disturbed'
    PROVE  seen' = h
  BY DEF Record

\* What the idle slot holds.
LEMMA IdleFields == Idle.at = "idle" /\ Idle.op = None /\ Idle.link = 0
  BY DEF Idle, Holding

\* Null is the name of no operation.
LEMMA NullOp == None \notin {"login", "refresh", "forgot", "reset", "approve", "account"}
  BY CredentialsAssumption DEF Operations

\* While a request of another kind is in flight the other slots are idle.
LEMMA OthersIdle ==
    ASSUME Solo, NEW r \in Requests, req[r].at # "idle", req[r].op # "account",
           NEW p \in Requests \ {r}
    PROVE  req[p] = Idle /\ req[p].at = "idle"
  BY DEF Solo, Alone, Stage

\* A step of a request in flight leaves it alone.
LEMMA AloneStep ==
    ASSUME Alone, NEW r \in Requests, \A p \in Requests \ {r} : req'[p] = req[p],
           req'[r].at = "idle" \/ (req[r].at # "idle" /\ req'[r].op = req[r].op)
    PROVE  Alone'
  BY DEF Alone

\* A request that arrives and disturbs nobody is alone.
LEMMA AloneArrives ==
    ASSUME Typing, Solo, NEW r \in Requests, NEW q, Arrive(r, q), ~disturbed', q.at # "idle"
    PROVE  /\ Alone'
           /\ ~disturbed
           /\ req[r] = Idle
           /\ q.op # "account" => \A p \in Requests \ {r} : req[p] = Idle
<1>1. req'[r] = q /\ \A p \in Requests \ {r} : req'[p] = req[p]
  BY ArrivedSlot
<1>2. \A p \in Requests \ {r} : req[p] # Idle => q.op = "account" /\ req[p].op = "account"
  BY DEF Arrive, Apart
<1>3. \A p \in Requests : req[p].at # "idle" => req[p] # Idle
  BY IdleFields
<1>4. Alone'
  BY <1>1, <1>2, <1>3 DEF Alone, Solo
<1>5. QED
  BY <1>2, <1>4 DEF Arrive

\* The idle slot is at its stage.
LEMMA IdleStage ==
    ASSUME NEW r \in Requests, req'[r] = Idle
    PROVE  Stage(r)' /\ LinkStage(r)'
  BY IdleFields, NullOp DEF Stage, LinkStage, AccountLabel, Forgetting

\* The other slots keep their stage when the accounts they are to save stay.
LEMMA StagesKept ==
    ASSUME Typing, Typing', Solo, NEW r \in Requests, Stage(r)',
           \A p \in Requests \ {r} : req'[p] = req[p],
           \/ users \subseteq users'
           \/ \A p \in Requests \ {r} : req[p].at \notin {"save", "saveWrite"}
    PROVE  \A p \in Requests : Stage(p)'
<1>1. SUFFICES ASSUME NEW p \in Requests \ {r}
               PROVE  Stage(p)'
  OBVIOUS
<1>2. Stage(p) /\ req'[p] = req[p]
  BY DEF Solo
<1>3. req[p].at \in {"save", "saveWrite"} =>
          \E u \in users' :
              /\ u.id = req[p].id
              /\ req[p].row = IF req[p].op = "reset"
                              THEN [u EXCEPT !.password = req[p].value] ELSE u
              /\ req[p].at = "saveWrite" => req[p].dirty = DirtyColumns(req[p].row, u)
  BY <1>2 DEF Stage
<1>4. QED
  BY <1>2, <1>3 DEF Stage

\* The links of a step that has nothing to do with them.
LEMMA LinksQuiet ==
    ASSUME Typing, Typing', Solo, NEW r \in Requests,
           \A p \in Requests \ {r} : req'[p] = req[p],
           req[r].at # "fgtDelete", req'[r].at \notin Forgetting,
           req'[r].at = "rstDiscard" => req'[r].link \in expired,
           UNCHANGED <<resets, generated, expired>>, seen'.linked = seen.linked,
           spent \subseteq spent'
    PROVE  (\A p \in Requests : LinkStage(p)') /\ LinksOwned' /\ Standing'
<1>1. \A p \in Requests : LinkStage(p)'
  BY DEF Solo, LinkStage, Newest
<1>2. LinksOwned'
  BY DEF Solo, LinksOwned
<1>3. Standing'
  BY DEF Solo, Standing, Newest
<1>4. QED
  BY <1>1, <1>2, <1>3

\* A step of a request without a link to store, beside which no other request
\* is to save an account, unless all accounts stay.
LEMMA QuietSolo ==
    ASSUME Typing, Typing', Solo, NEW r \in Requests, Alone', Stage(r)',
           \A p \in Requests \ {r} : req'[p] = req[p],
           req[r].at # "fgtDelete", req'[r].at \notin Forgetting,
           req'[r].at = "rstDiscard" => req'[r].link \in expired,
           \/ users \subseteq users'
           \/ \A p \in Requests \ {r} : req[p].at \notin {"save", "saveWrite"},
           UNCHANGED <<resets, expired, generated>>, seen'.linked = seen.linked,
           spent \subseteq spent'
    PROVE  Solo'
<1>1. \A p \in Requests : Stage(p)'
  BY StagesKept
<1>2. (\A p \in Requests : LinkStage(p)') /\ LinksOwned' /\ Standing'
  BY LinksQuiet
<1>3. QED
  BY <1>1, <1>2 DEF Solo

\* A request that begins changes nothing that is seen of links.
LEMMA BegunLinks ==
    ASSUME Typing, NEW r \in Requests, NEW q, Record(Begun(r, q)), ~disturbed'
    PROVE  seen'.linked = seen.linked
  BY Recorded DEF Begun, Typing, TypeOK, History

\* An arrival that neither writes anything nor generates a link.
LEMMA ArrivalSolo ==
    ASSUME Typing, Typing', Solo, NEW r \in Requests, NEW q, Arrive(r, q),
           ~disturbed', q.at # "idle", Stage(r)',
           q.at \notin Forgetting, q.at = "rstDiscard" => q.link \in expired,
           UNCHANGED <<users, resets, expired, generated, spent>>
    PROVE  Solo'
<1>1. req'[r] = q /\ \A p \in Requests \ {r} : req'[p] = req[p]
  BY ArrivedSlot
<1>2. req[r].at = "idle" /\ Alone'
  BY AloneArrives, IdleFields
<1>3. seen'.linked = seen.linked
  BY BegunLinks DEF Arrive
<1>4. QED
  BY <1>1, <1>2, <1>3, QuietSolo

\* A request that read an account it is to save.
LEMMA SavingSolo ==
    ASSUME Typing, Typing', Solo, NEW r \in Requests, NEW u \in users,
           NEW op \in {"login", "approve"}, NEW e,
           Arrive(r, Holding("save", op, u.id, e, None, u, 0)), ~disturbed',
           UNCHANGED <<users, resets, expired, generated, spent>>
    PROVE  Solo'
<1>1. PICK q : q = Holding("save", op, u.id, e, None, u, 0)
  OBVIOUS
<1>2. /\ q.at = "save" /\ q.op = op /\ q.id = u.id /\ q.row = u
      /\ Arrive(r, q)
  BY <1>1 DEF Holding
<1>3. req'[r] = q
  BY <1>2, ArrivedSlot
<1>4. Stage(r)'
  BY <1>2, <1>3, NullOp DEF Stage, AccountLabel
<1>5. QED
  BY <1>2, <1>4, ArrivalSolo DEF Forgetting

\* A request of an administrator or an owner.
LEMMA OwnerSolo ==
    ASSUME Typing, Typing', Solo, NEW r \in Requests, NEW label \in AccountLabel,
           NEW id, NEW e, NEW val,
           Arrive(r, Holding(label, "account", id, e, val, None, 0)), ~disturbed',
           UNCHANGED <<users, resets, expired, generated, spent>>
    PROVE  Solo'
<1>1. PICK q : q = Holding(label, "account", id, e, val, None, 0)
  OBVIOUS
<1>2. q.at \in AccountLabel /\ q.op = "account" /\ Arrive(r, q)
  BY <1>1 DEF Holding
<1>3. req'[r] = q
  BY <1>2, ArrivedSlot
<1>4. Stage(r)'
  BY <1>2, <1>3, NullOp DEF Stage, AccountLabel
<1>5. QED
  BY <1>2, <1>4, ArrivalSolo DEF Forgetting, AccountLabel

\* resetPassword finds the row of the link.
LEMMA ResetFindSolo ==
    ASSUME Typing, Typing', Solo, NEW r \in Requests, NEW link \in Links, NEW pw \in Passwords,
           ResetFind(r, link, pw), ~disturbed'
    PROVE  Solo'
<1>1. PICK label, e :
          /\ label \in {"rstDiscard", "rstFindUser"}
          /\ label = "rstDiscard" => link \in expired
          /\ Arrive(r, Holding(label, "reset", 0, e, pw, None, link))
  <2>1. PICK s \in resets :
            Arrive(r, Holding(IF link \in expired THEN "rstDiscard" ELSE "rstFindUser",
                              "reset", 0, s.email, pw, None, link))
    BY DEF ResetFind
  <2>2. QED
    BY <2>1
<1>2. PICK q : q = Holding(label, "reset", 0, e, pw, None, link)
  OBVIOUS
<1>3. q.at = label /\ q.op = "reset" /\ q.link = link /\ Arrive(r, q)
  BY <1>1, <1>2 DEF Holding
<1>4. req'[r] = q
  BY <1>3, ArrivedSlot
<1>5. Stage(r)'
  BY <1>1, <1>3, <1>4, NullOp DEF Stage, AccountLabel
<1>6. UNCHANGED <<users, resets, expired, generated, spent>>
  BY DEF ResetFind
<1>7. QED
  BY <1>1, <1>3, <1>5, <1>6, ArrivalSolo DEF Forgetting

\* A step that changes neither the accounts nor the requests nor what is stored.
LEMMA UnchangedSolo ==
    ASSUME Solo, UNCHANGED <<users, resets, req, generated, spent, seen>>,
           expired \subseteq expired'
    PROVE  Solo'
<1>1. Alone' /\ LinksOwned'
  BY DEF Solo, Alone, LinksOwned
<1>2. \A p \in Requests : Stage(p)'
  BY DEF Solo, Stage
<1>3. (\A p \in Requests : LinkStage(p)') /\ Standing'
  BY DEF Solo, LinkStage, Standing, Newest
<1>4. QED
  BY <1>1, <1>2, <1>3 DEF Solo

\* A refresh is refused: no row that was read has isActive.
LEMMA Refused ==
    ASSUME Typing, NEW r \in Requests, NEW u \in users,
           NEW stored \in BOOLEAN, NEW fresh \in BOOLEAN, Refresh(r, u, stored, fresh)
    PROVE  UNCHANGED vars
<1>1. ~Active(u)
  BY DEF Active, Typing, TypeOK, Account
<1>2. QED
  BY <1>1 DEF Refresh, vars, history

\* A link is generated: it is the newest of its email, and what is stored for
\* that email is no longer, until the request deletes it.
LEMMA ForgotFindSolo ==
    ASSUME Typing, Typing', Solo, LinksGood, NEW r \in Requests, NEW e \in Emails,
           ForgotFind(r, e), ~disturbed'
    PROVE  Solo'
<1>1. PICK n : n = Cardinality(generated)
  OBVIOUS
<1>2. n \in Nat /\ FreshLink = n + 1
  BY <1>1, FS_CardinalityType DEF LinksGood, LinksNumbered, FreshLink
<1>3. PICK g : g = [link |-> n + 1, email |-> e]
  OBVIOUS
<1>4. PICK q : q = Holding("fgtDelete", "forgot", 0, e, None, None, n + 1)
  OBVIOUS
<1>5. q.at = "fgtDelete" /\ q.op = "forgot" /\ q.email = e /\ q.link = n + 1
  BY <1>4 DEF Holding
<1>6. /\ g.link = n + 1 /\ g.email = e
      /\ generated' = generated \cup {g} /\ Arrive(r, q)
      /\ UNCHANGED <<users, resets, expired, spent>>
  BY <1>2, <1>3, <1>4 DEF ForgotFind
<1>7. seen'.linked = seen.linked
  BY <1>6, BegunLinks DEF Arrive
<1>8. req'[r] = q /\ \A p \in Requests \ {r} : req'[p] = req[p]
  BY <1>6, ArrivedSlot
<1>9. /\ Alone' /\ req[r].at = "idle"
      /\ \A p \in Requests \ {r} : req[p].at = "idle"
  BY <1>5, <1>6, AloneArrives, IdleFields
<1>10. /\ \A h \in generated : h.link \in Nat /\ h.link <= n
       /\ \A l \in seen.linked : l \in Nat /\ l <= n
       /\ \A s \in resets : s.email \in Emails
  BY <1>1 DEF Typing, TypeOK, Reset, Links, History, LinksGood, LinksNumbered, Solo, LinksOwned
<1>11. Newest(g)' /\ \A h \in generated : h.email # e /\ Newest(h) => Newest(h)'
  BY <1>2, <1>6, <1>10 DEF Newest
<1>12. \A h \in generated : Newest(h)' => h.email # e /\ Newest(h)
  BY <1>2, <1>6, <1>10 DEF Newest
<1>13. Stage(r)'
  BY <1>5, <1>8, NullOp DEF Stage, AccountLabel
<1>14. \A p \in Requests : Stage(p)'
  BY <1>6, <1>8, <1>13, StagesKept
<1>15. \A p \in Requests : LinkStage(p)'
  <2>1. LinkStage(r)'
    <3>1. g \in generated' /\ g.link \notin seen'.linked
      BY <1>2, <1>6, <1>7, <1>10
    <3>2. QED
      BY <1>5, <1>6, <1>8, <1>11, <3>1 DEF LinkStage
  <2>2. \A p \in Requests \ {r} : LinkStage(p)'
    BY <1>8, <1>9 DEF LinkStage, Forgetting
  <2>3. QED
    BY <2>1, <2>2
<1>16. LinksOwned'
  <2>1. Cardinality(generated') >= n
    <3>1. IsFiniteSet(generated') /\ Cardinality(generated') = n + 1
      <4>1. g \notin generated
        BY <1>2, <1>6, <1>10
      <4>2. IsFiniteSet(generated)
        BY DEF LinksGood, LinksNumbered
      <4>3. QED
        BY <1>1, <1>6, <4>1, <4>2, FS_AddElement
    <3>2. QED
      BY <1>2, <3>1
  <2>2. \A h, k \in generated' : h.link = k.link => h = k
    BY <1>2, <1>6, <1>10 DEF Solo, LinksOwned
  <2>3. Cardinality(generated') \in Nat
    <3>1. IsFiniteSet(generated')
      BY <1>6, FS_AddElement DEF LinksGood, LinksNumbered
    <3>2. QED
      BY <3>1, FS_CardinalityType
  <2>4. \A l \in seen'.linked : l <= Cardinality(generated')
    BY <1>2, <1>7, <1>10, <2>1, <2>3
  <2>5. QED
    BY <2>2, <2>4 DEF LinksOwned
<1>17. Standing'
  <2>1. \A s \in resets' :
            \/ Newest(s)'
            \/ \E p \in Requests : req'[p].at = "fgtDelete" /\ req'[p].email = s.email
    <3>1. SUFFICES ASSUME NEW s \in resets, s.email # e
                   PROVE  Newest(s)'
      BY <1>5, <1>6, <1>8
    <3>2. Newest(s)
      BY <1>9 DEF Solo, Standing
    <3>3. QED
      BY <1>6, <3>1, <3>2 DEF Newest
  <2>2. \A h \in generated' :
            Newest(h)' /\ h.link \in seen'.linked \ (expired' \cup spent') => h \in resets'
    <3>1. g.link \notin seen'.linked
      BY <1>2, <1>6, <1>7, <1>10
    <3>2. QED
      BY <1>6, <1>7, <1>12, <3>1 DEF Solo, Standing
  <2>3. QED
    BY <2>1, <2>2 DEF Standing
<1>18. QED
  BY <1>9, <1>14, <1>15, <1>16, <1>17 DEF Solo

\* Requests that a client sends.
LEMMA ClientSolo ==
    ASSUME Typing, Typing', Solo, LinksGood, NEW r \in Requests, Client(r), ~disturbed'
    PROVE  Solo'
<1>1. ASSUME NEW e \in Emails, NEW pw \in Passwords, LoginFind(r, e, pw)
      PROVE  Solo'
  BY <1>1, SavingSolo DEF LoginFind, AccountsOf
<1>2. ASSUME NEW e \in Emails, NEW pw \in Passwords, CreateFind(r, e, pw)
      PROVE  Solo'
  BY <1>2, OwnerSolo DEF CreateFind, AccountLabel
<1>3. ASSUME NEW u \in users, NEW label \in {"setPassword", "remove"}, NEW val,
             Find(r, u, label, val)
      PROVE  Solo'
  BY <1>3, OwnerSolo DEF Find, AccountLabel
<1>4. ASSUME NEW u \in users, NEW e \in Emails, UpdateAccount(r, u, e)
      PROVE  Solo'
  BY <1>4, OwnerSolo DEF UpdateAccount, AccountLabel
<1>5. ASSUME NEW u \in users, ApproveFind(r, u)
      PROVE  Solo'
  BY <1>5, SavingSolo DEF ApproveFind
<1>6. ASSUME NEW u \in users, NEW stored \in BOOLEAN, NEW fresh \in BOOLEAN,
             Refresh(r, u, stored, fresh)
      PROVE  Solo'
  BY <1>6, Refused, UnchangedSolo DEF vars, history
<1>7. QED
  BY ForgotFindSolo, ResetFindSolo, <1>1, <1>2, <1>3, <1>4, <1>5, <1>6
  DEF Client, ChangePassword, ChangeOwnPassword, RepairOrphanedAccount, DeleteAccount

\* The steps of UserService: no request beside them is to save an account.
LEMMA AccountSolo ==
    ASSUME Typing, Typing', Solo, NEW r \in Requests,
           \/ CreateInsert(r) \/ SetPassword(r) \/ SetEmail(r) \/ Remove(r)
           \/ Tell(r) \/ TellRemoved(r), ~disturbed'
    PROVE  Solo'
<1>1. /\ req[r].at \in AccountLabel
      /\ UNCHANGED <<resets, expired, generated, spent>>
  BY DEF CreateInsert, SetPassword, SetEmail, Remove, Tell, TellRemoved, AccountLabel, history
<1>2. /\ req[r].op = "account"
      /\ \A p \in Requests \ {r} : req[p].at \in AccountLabel \cup {"idle"}
  BY <1>1 DEF Solo, Alone, Stage, AccountLabel
<1>3. /\ req'[r] = Idle \/ (req'[r].at \in Telling /\ req'[r].op = "account")
      /\ \A p \in Requests \ {r} : req'[p] = req[p]
  <2>1. TypeOK /\ req[r] \in Request
    BY DEF Typing, TypeOK
  <2>2. CASE Answer(r)
    BY <2>1, <2>2, SlotIdle
  <2>3. CASE Goto(r, "tellPassword") \/ Goto(r, "tellEmail") \/ Goto(r, "tellRemoved")
    BY <1>2, <2>1, <2>3, SlotMoves DEF Label, Telling
  <2>4. CASE req' = [req EXCEPT ![r].at = "tellCreated", ![r].id = created + 1]
    BY <1>2, <2>1, <2>4 DEF TypeOK, Request, Telling
  <2>5. QED
    BY <2>2, <2>3, <2>4 DEF CreateInsert, SetPassword, SetEmail, Remove, Tell, TellRemoved
<1>4. seen'.linked = seen.linked
  <2>1. CASE Tell(r)
    BY <2>1, Recorded DEF Tell, ToldBy, Typing, TypeOK, History
  <2>2. CASE TellRemoved(r)
    BY <2>2, Recorded DEF TellRemoved, Typing, TypeOK, History
  <2>3. QED
    BY <2>1, <2>2 DEF CreateInsert, SetPassword, SetEmail, Remove, history
<1>5. Alone'
  BY <1>1, <1>2, <1>3, IdleFields, AloneStep DEF Solo, AccountLabel
<1>6. Stage(r)'
  <2>1. CASE req'[r] = Idle
    BY <2>1, IdleStage
  <2>2. CASE req'[r].at \in Telling /\ req'[r].op = "account"
    BY <2>2, NullOp DEF Stage, AccountLabel, Telling
  <2>3. QED
    BY <1>3, <2>1, <2>2
<1>7. QED
  BY <1>1, <1>2, <1>3, <1>4, <1>5, <1>6, IdleFields, QuietSolo
  DEF AccountLabel, Forgetting, Telling

\* The steps of save: alone, it finds the row that was read, and writes of it
\* nothing for a login or an approval and the new password for a reset.
LEMMA SaveSelectSolo ==
    ASSUME Typing, Typing', Accounts, Solo, NEW r \in Requests, SaveSelect(r), ~disturbed'
    PROVE  Solo'
<1>1. req[r].at = "save" /\ Stage(r) /\ Typed(req[r])
  BY DEF SaveSelect, Solo, Typing
<1>2. PICK u \in users :
          /\ u.id = req[r].id
          /\ req[r].row = IF req[r].op = "reset"
                          THEN [u EXCEPT !.password = req[r].value] ELSE u
  BY <1>1 DEF Stage
<1>3. PICK dirty : /\ dirty = DirtyColumns(req[r].row, u)
                   /\ req' = [req EXCEPT ![r].at = "saveWrite", ![r].dirty = dirty]
  <2>1. \A v \in WithId(req[r].id) : v = u
    BY <1>2 DEF WithId, Accounts, UniqueAccounts
  <2>2. u \in WithId(req[r].id)
    BY <1>2 DEF WithId
  <2>3. QED
    BY <2>1, <2>2 DEF SaveSelect
<1>4. /\ req'[r].at = "saveWrite" /\ req'[r].dirty = dirty
      /\ req'[r].op = req[r].op /\ req'[r].id = req[r].id
      /\ req'[r].value = req[r].value /\ req'[r].row = req[r].row
      /\ \A p \in Requests \ {r} : req'[p] = req[p]
  BY <1>3 DEF Typing, TypeOK, Request
<1>5. UNCHANGED <<users, resets, expired, created, generated, seen, spent>>
  BY DEF SaveSelect, history
<1>6. Stage(r)'
  <2>1. \E v \in users' :
            /\ v.id = req'[r].id
            /\ req'[r].row = IF req'[r].op = "reset"
                             THEN [v EXCEPT !.password = req'[r].value] ELSE v
            /\ req'[r].at = "saveWrite" => req'[r].dirty = DirtyColumns(req'[r].row, v)
    BY <1>2, <1>3, <1>4, <1>5
  <2>2. req'[r].op # "account" /\ req'[r].op # None
    BY <1>1, <1>4, NullOp DEF Typed, Saving
  <2>3. QED
    BY <1>4, <2>1, <2>2 DEF Stage, AccountLabel, DirtyColumns
<1>7. Alone'
  BY <1>1, <1>4, AloneStep DEF Solo
<1>8. QED
  BY <1>1, <1>4, <1>5, <1>6, <1>7, QuietSolo DEF Forgetting

\* A step of a request that saves leaves the links alone, and finds the other
\* slots idle.
LEMMA SavedSolo ==
    ASSUME Typing, Typing', Solo, NEW r \in Requests,
           req[r].at = "saveWrite", req' = [req EXCEPT ![r] = AfterSave(r)],
           UNCHANGED <<resets, expired, generated, spent, seen>>
    PROVE  Solo'
<1>1. req[r] \in Request /\ req[r].op \in {"login", "reset", "approve"}
  BY DEF Typing, Typed, Saving
<1>2. \A p \in Requests \ {r} : req'[p] = req[p] /\ req[p].at = "idle"
  BY <1>1, OthersIdle DEF Typing, TypeOK
<1>3. req'[r] = AfterSave(r)
  BY DEF Typing, TypeOK
<1>4. \/ AfterSave(r) = Idle
      \/ AfterSave(r).at \in {"respond", "rstDelete"} /\ AfterSave(r).op = req[r].op
  BY <1>1 DEF AfterSave, Request
<1>5. Alone'
  BY <1>2, <1>3, <1>4, IdleFields, AloneStep DEF Solo
<1>6. Stage(r)'
  <2>1. CASE AfterSave(r) = Idle
    BY <1>3, <2>1, IdleStage
  <2>2. CASE AfterSave(r).at \in {"respond", "rstDelete"} /\ AfterSave(r).op = req[r].op
    BY <1>1, <1>3, <2>2, NullOp DEF Stage, AccountLabel
  <2>3. QED
    BY <1>4, <2>1, <2>2
<1>7. QED
  BY <1>2, <1>3, <1>4, <1>5, <1>6, IdleFields, QuietSolo DEF Forgetting

\* Alone, the save of a login or an approval finds the account as it was read,
\* and that of a reset but for the password.
LEMMA SaveWritesPassword ==
    ASSUME Typing, Accounts, Solo, NEW r \in Requests, SaveWrite(r)
    PROVE  /\ req' = [req EXCEPT ![r] = AfterSave(r)]
           /\ \E u \in users : u.id = req[r].id
           /\ \/ req[r].op \in {"login", "approve"} /\ users' = users
              \/ req[r].op = "reset" /\ UpdateColumn(req[r].id, "password", req[r].value)
<1>1. /\ req[r].at = "saveWrite" /\ Stage(r) /\ req[r] \in Request
      /\ req[r].op \in {"login", "reset", "approve"}
  BY DEF SaveWrite, Solo, Typing, Typed, Saving
<1>2. PICK id, val, row, dirty :
          id = req[r].id /\ val = req[r].value /\ row = req[r].row /\ dirty = req[r].dirty
  OBVIOUS
<1>3. PICK u \in users :
          /\ u.id = id
          /\ row = IF req[r].op = "reset" THEN [u EXCEPT !.password = val] ELSE u
          /\ dirty = DirtyColumns(row, u)
  BY <1>1, <1>2 DEF Stage
<1>4. u \in Account /\ \A v \in users : v \in Account /\ (v.id = id => v = u)
  BY <1>3 DEF Typing, TypeOK, Accounts, UniqueAccounts
<1>5. "email" \notin dirty /\ "session" \notin dirty
  BY <1>3, <1>4 DEF Account, DirtyColumns
<1>6. /\ users' = {IF v.id = id THEN Overwrite(v, row, dirty) ELSE v : v \in users}
      /\ req' = [req EXCEPT ![r] = AfterSave(r)]
  BY <1>2, <1>5 DEF SaveWrite
<1>7. CASE req[r].op = "reset"
  <2>1. Overwrite(u, row, dirty) = [u EXCEPT !.password = val]
    <3>1. "password" \in dirty \/ u.password = val
      BY <1>3, <1>4, <1>7 DEF Account, DirtyColumns, Columns
    <3>2. row.password = val
      BY <1>3, <1>4, <1>7 DEF Account
    <3>3. QED
      BY <1>4, <1>5, <3>1, <3>2 DEF Overwrite, Account
  <2>2. UpdateColumn(id, "password", val)
    BY <1>4, <1>6, <2>1 DEF UpdateColumn
  <2>3. QED
    BY <1>2, <1>3, <1>6, <1>7, <2>2
<1>8. CASE req[r].op \in {"login", "approve"}
  <2>1. row = u /\ dirty = {}
    BY <1>3, <1>8 DEF DirtyColumns
  <2>2. Overwrite(u, row, dirty) = u
    BY <1>4, <2>1 DEF Overwrite, Account
  <2>3. users' = users
    BY <1>4, <1>6, <2>2
  <2>4. QED
    BY <1>2, <1>3, <1>6, <1>8, <2>3
<1>9. QED
  BY <1>1, <1>7, <1>8

\* The tokens are stored and the login answered.
LEMMA RespondSolo ==
    ASSUME Typing, Typing', Solo, NEW r \in Requests, Respond(r), ~disturbed'
    PROVE  Solo'
<1>1. req[r].at = "respond" /\ UNCHANGED <<resets, expired, generated, spent, seen>>
  BY DEF Respond, history
<1>2. req'[r] = Idle /\ \A p \in Requests \ {r} : req'[p] = req[p]
  BY SlotIdle DEF Respond, Typing
<1>3. \A p \in Requests \ {r} : req[p].at = "idle"
  BY <1>1, OthersIdle DEF Solo, Stage, AccountLabel
<1>4. Alone' /\ Stage(r)'
  BY <1>2, IdleFields, IdleStage, AloneStep DEF Solo
<1>5. QED
  BY <1>1, <1>2, <1>3, <1>4, IdleFields, QuietSolo DEF Forgetting

\* The steps of save and of the answer of a login; alone, a save never finds
\* its row gone.
LEMMA SavingStepSolo ==
    ASSUME Typing, Typing', Accounts, Solo, NEW r \in Requests,
           SaveSelect(r) \/ SaveWrite(r) \/ SaveInsert(r) \/ Respond(r), ~disturbed'
    PROVE  Solo'
<1>1. ~SaveInsert(r)
  BY DEF SaveInsert, Solo, Stage
<1>2. CASE SaveWrite(r)
  BY <1>2, SaveWritesPassword, SavedSolo DEF SaveWrite, history
<1>3. QED
  BY <1>1, <1>2, SaveSelectSolo, RespondSolo

\* The steps of a request about a link, beside which the other slots are idle:
\* only the links remain to be looked at.
LEMMA LinkStepSolo ==
    ASSUME Typing, Typing', Solo, NEW r \in Requests,
           req[r].at \in Forgetting \cup {"rstDiscard"},
           \A p \in Requests \ {r} : req'[p] = req[p],
           \/ req'[r] = Idle
           \/ req'[r].at \in Forgetting /\ req'[r].op = req[r].op,
           UNCHANGED <<users, generated>>,
           LinkStage(r)', LinksOwned', Standing'
    PROVE  Solo'
<1>1. req[r].at # "idle" /\ req[r].op # "account" /\ req[r].op # None
  BY DEF Solo, Stage, Forgetting, AccountLabel
<1>2. \A p \in Requests \ {r} : req'[p] = Idle /\ req[p].at = "idle"
  BY <1>1, OthersIdle
<1>3. Alone'
  BY <1>1, IdleFields, AloneStep DEF Solo
<1>4. Stage(r)'
  <2>1. CASE req'[r] = Idle
    BY <2>1, IdleStage
  <2>2. CASE req'[r].at \in Forgetting /\ req'[r].op = req[r].op
    BY <1>1, <2>2 DEF Stage, Forgetting, AccountLabel
  <2>3. QED
    BY <2>1, <2>2
<1>5. \A p \in Requests : Stage(p)' /\ LinkStage(p)'
  BY <1>2, <1>4, IdleStage
<1>6. QED
  BY <1>3, <1>5 DEF Solo

\* What a request for a link knows of it.
LEMMA OwnLink ==
    ASSUME Solo, NEW r \in Requests, req[r].at \in Forgetting
    PROVE  \E g \in generated :
               /\ g.link = req[r].link /\ g.email = req[r].email
               /\ Newest(g)
               /\ g.link \notin seen.linked
               /\ req[r].at = "fgtQueue" => g \in resets
               /\ \A p \in Requests \ {r} : req[p] = Idle /\ req[p].at = "idle"
<1>1. req[r].at # "idle" /\ req[r].op # "account" /\ LinkStage(r)
  BY DEF Solo, Stage, Forgetting, AccountLabel
<1>2. \A p \in Requests \ {r} : req[p] = Idle /\ req[p].at = "idle"
  BY <1>1, OthersIdle
<1>3. QED
  BY <1>1, <1>2 DEF LinkStage

\* The older links of the email are deleted: none of them was its newest.
LEMMA ForgotDeleteSolo ==
    ASSUME Typing, Typing', Solo, NEW r \in Requests, ForgotDelete(r), ~disturbed'
    PROVE  Solo'
<1>1. req[r].at = "fgtDelete" /\ req[r].at \in Forgetting /\ Goto(r, "fgtInsert")
  BY DEF ForgotDelete, Forgetting
<1>2. PICK g \in generated :
          /\ g.link = req[r].link /\ g.email = req[r].email
          /\ Newest(g)
          /\ g.link \notin seen.linked
          /\ \A p \in Requests \ {r} : req[p] = Idle /\ req[p].at = "idle"
  BY <1>1, OwnLink
<1>3. /\ req'[r].at = "fgtInsert" /\ req'[r].at \in Forgetting
      /\ req'[r].op = req[r].op /\ req'[r].link = req[r].link /\ req'[r].email = req[r].email
      /\ \A p \in Requests \ {r} : req'[p] = req[p]
  BY <1>1, SlotMoves DEF Typing, Label, Forgetting
<1>4. /\ resets' = {s \in resets : s.email # g.email}
      /\ UNCHANGED <<users, expired, created, generated, spent, seen>>
  BY <1>2 DEF ForgotDelete, DeleteResets, ResetsOf, history
<1>5. LinkStage(r)'
  BY <1>2, <1>3, <1>4 DEF LinkStage, Newest
<1>6. LinksOwned'
  BY <1>4 DEF Solo, LinksOwned
<1>7. \A h \in generated : h.link \in Nat
  BY DEF Typing, TypeOK, Reset, Links
<1>8. \A h \in generated : Newest(h) /\ h.email = g.email => h.link = g.link
  BY <1>2, <1>7 DEF Newest
<1>9. Standing'
  <2>1. \A s \in resets' : Newest(s)'
    BY <1>2, <1>4 DEF Solo, Standing, Newest
  <2>2. \A h \in generated : Newest(h)' => Newest(h)
    BY <1>4 DEF Newest
  <2>3. \A h \in generated' :
            Newest(h)' /\ h.link \in seen'.linked \ (expired' \cup spent') => h \in resets'
    BY <1>2, <1>4, <1>8, <2>2 DEF Solo, Standing
  <2>4. QED
    BY <2>1, <2>3 DEF Standing
<1>10. QED
  BY <1>1, <1>3, <1>4, <1>5, <1>6, <1>9, LinkStepSolo

\* The newest link of the email is stored.
LEMMA ForgotInsertSolo ==
    ASSUME Typing, Typing', Solo, NEW r \in Requests, ForgotInsert(r), ~disturbed'
    PROVE  Solo'
<1>1. req[r].at = "fgtInsert" /\ req[r].at \in Forgetting /\ Goto(r, "fgtQueue")
  BY DEF ForgotInsert, Forgetting
<1>2. PICK g \in generated :
          /\ g.link = req[r].link /\ g.email = req[r].email
          /\ Newest(g)
          /\ g.link \notin seen.linked
          /\ \A p \in Requests \ {r} : req[p] = Idle /\ req[p].at = "idle"
  BY <1>1, OwnLink
<1>3. /\ req'[r].at = "fgtQueue" /\ req'[r].at \in Forgetting
      /\ req'[r].op = req[r].op /\ req'[r].link = req[r].link /\ req'[r].email = req[r].email
      /\ \A p \in Requests \ {r} : req'[p] = req[p]
  BY <1>1, SlotMoves DEF Typing, Label, Forgetting
<1>4. /\ resets' = resets \cup {g}
      /\ UNCHANGED <<users, expired, created, generated, spent, seen>>
  <2>1. g = [link |-> g.link, email |-> g.email]
    BY DEF Typing, TypeOK, Reset
  <2>2. QED
    BY <1>2, <2>1 DEF ForgotInsert, history
<1>5. LinkStage(r)'
  BY <1>2, <1>3, <1>4 DEF LinkStage, Newest
<1>6. LinksOwned'
  BY <1>4 DEF Solo, LinksOwned
<1>7. Standing'
  <2>1. \A s \in resets : Newest(s)
    BY <1>1, <1>2 DEF Solo, Standing
  <2>2. QED
    BY <1>2, <1>4, <2>1 DEF Solo, Standing, Newest
<1>8. QED
  BY <1>1, <1>3, <1>4, <1>5, <1>6, <1>7, LinkStepSolo

\* The mail of the newest link is queued while the link is stored.
LEMMA ForgotQueueSolo ==
    ASSUME Typing, Typing', Solo, LinksGood, NEW r \in Requests, ForgotQueue(r), ~disturbed'
    PROVE  Solo'
<1>1. req[r].at = "fgtQueue" /\ req[r].at \in Forgetting /\ Answer(r)
  BY DEF ForgotQueue, Forgetting
<1>2. PICK g \in generated :
          /\ g.link = req[r].link /\ g.email = req[r].email
          /\ Newest(g)
          /\ g \in resets
          /\ \A p \in Requests \ {r} : req[p] = Idle /\ req[p].at = "idle"
  BY <1>1, OwnLink
<1>3. req'[r] = Idle /\ \A p \in Requests \ {r} : req'[p] = req[p]
  BY <1>1, SlotIdle DEF Typing
<1>4. UNCHANGED <<users, resets, expired, created, generated, spent>>
  BY DEF ForgotQueue
<1>5. seen'.linked = seen.linked \cup {g.link}
  <2>1. seen' = [seen EXCEPT !.linked = @ \cup {g.link}]
    BY <1>2, Recorded DEF ForgotQueue
  <2>2. QED
    BY <2>1 DEF Typing, TypeOK, History
<1>6. LinkStage(r)'
  BY <1>3, IdleStage
<1>7. LinksOwned'
  BY <1>4, <1>5 DEF Solo, LinksOwned, LinksGood, LinksNumbered
<1>8. Standing'
  <2>1. \A s \in resets : Newest(s)
    BY <1>1, <1>2 DEF Solo, Standing
  <2>2. \A h \in generated : h.link = g.link => h = g
    BY DEF Solo, LinksOwned
  <2>3. QED
    BY <1>2, <1>4, <1>5, <2>1, <2>2 DEF Solo, Standing, Newest
<1>9. QED
  BY <1>1, <1>3, <1>4, <1>5, <1>6, <1>7, <1>8, LinkStepSolo

\* The queue refuses the mail.
LEMMA ForgotQueueFailsSolo ==
    ASSUME Typing, Typing', Solo, NEW r \in Requests, ForgotQueueFails(r), ~disturbed'
    PROVE  Solo'
<1>1. req[r].at = "fgtQueue" /\ req[r].at \in Forgetting /\ Goto(r, "fgtCleanup")
  BY DEF ForgotQueueFails, Forgetting
<1>2. PICK g \in generated :
          /\ g.link = req[r].link /\ g.email = req[r].email
          /\ Newest(g)
          /\ g.link \notin seen.linked
          /\ \A p \in Requests \ {r} : req[p] = Idle /\ req[p].at = "idle"
  BY <1>1, OwnLink
<1>3. /\ req'[r].at = "fgtCleanup" /\ req'[r].at \in Forgetting
      /\ req'[r].op = req[r].op /\ req'[r].link = req[r].link /\ req'[r].email = req[r].email
      /\ \A p \in Requests \ {r} : req'[p] = req[p]
  BY <1>1, SlotMoves DEF Typing, Label, Forgetting
<1>4. UNCHANGED <<users, resets, expired, created, generated, spent, seen>>
  BY DEF ForgotQueueFails, history
<1>5. LinkStage(r)'
  BY <1>2, <1>3, <1>4 DEF LinkStage, Newest
<1>6. LinksOwned'
  BY <1>4 DEF Solo, LinksOwned
<1>7. Standing'
  <2>1. \A s \in resets : Newest(s)
    BY <1>1, <1>2 DEF Solo, Standing
  <2>2. QED
    BY <1>4, <2>1 DEF Solo, Standing, Newest
<1>8. QED
  BY <1>1, <1>3, <1>4, <1>5, <1>6, <1>7, LinkStepSolo

\* The link whose mail was refused is deleted.
LEMMA ForgotCleanupSolo ==
    ASSUME Typing, Typing', Solo, NEW r \in Requests, ForgotCleanup(r), ~disturbed'
    PROVE  Solo'
<1>1. req[r].at = "fgtCleanup" /\ req[r].at \in Forgetting /\ Answer(r)
  BY DEF ForgotCleanup, Forgetting
<1>2. PICK g \in generated :
          /\ g.link = req[r].link /\ g.email = req[r].email
          /\ Newest(g)
          /\ g.link \notin seen.linked
          /\ \A p \in Requests \ {r} : req[p] = Idle /\ req[p].at = "idle"
  BY <1>1, OwnLink
<1>3. req'[r] = Idle /\ \A p \in Requests \ {r} : req'[p] = req[p]
  BY <1>1, SlotIdle DEF Typing
<1>4. /\ resets' = {s \in resets : s.email # g.email}
      /\ UNCHANGED <<users, expired, created, generated, spent, seen>>
  BY <1>2 DEF ForgotCleanup, DeleteResets, ResetsOf, history
<1>5. LinkStage(r)'
  BY <1>3, IdleStage
<1>6. LinksOwned'
  BY <1>4 DEF Solo, LinksOwned
<1>7. \A h \in generated : h.link \in Nat
  BY DEF Typing, TypeOK, Reset, Links
<1>8. \A h \in generated : Newest(h) /\ h.email = g.email => h.link = g.link
  BY <1>2, <1>7 DEF Newest
<1>9. Standing'
  <2>1. \A s \in resets : Newest(s)
    BY <1>1, <1>2 DEF Solo, Standing
  <2>2. \A h \in generated : Newest(h)' => Newest(h)
    BY <1>4 DEF Newest
  <2>3. \A s \in resets' : Newest(s)'
    BY <1>4, <2>1 DEF Newest
  <2>4. \A h \in generated' :
            Newest(h)' /\ h.link \in seen'.linked \ (expired' \cup spent') => h \in resets'
    BY <1>2, <1>4, <1>8, <2>2 DEF Solo, Standing
  <2>5. QED
    BY <2>3, <2>4 DEF Standing
<1>10. QED
  BY <1>1, <1>3, <1>4, <1>5, <1>6, <1>9, LinkStepSolo

\* The expired link is deleted.
LEMMA ResetDiscardSolo ==
    ASSUME Typing, Typing', Solo, NEW r \in Requests, ResetDiscard(r), ~disturbed'
    PROVE  Solo'
<1>1. req[r].at = "rstDiscard" /\ Answer(r)
  BY DEF ResetDiscard
<1>2. /\ req[r].link \in expired
      /\ \A p \in Requests \ {r} : req[p].at = "idle"
  <2>1. Stage(r) /\ LinkStage(r)
    BY DEF Solo
  <2>2. req[r].op # "account"
    BY <1>1, <2>1 DEF Stage, AccountLabel
  <2>3. QED
    BY <1>1, <2>1, <2>2, OthersIdle DEF LinkStage
<1>3. req'[r] = Idle /\ \A p \in Requests \ {r} : req'[p] = req[p]
  BY <1>1, SlotIdle DEF Typing
<1>4. PICK l : l = req[r].link
  OBVIOUS
<1>5. /\ resets' = {s \in resets : s.link # l}
      /\ UNCHANGED <<users, expired, created, generated, spent, seen>>
  BY <1>4 DEF ResetDiscard, DeleteLink, history
<1>6. LinkStage(r)'
  BY <1>3, IdleStage
<1>7. LinksOwned'
  BY <1>5 DEF Solo, LinksOwned
<1>8. Standing'
  <2>1. \A s \in resets : Newest(s)
    BY <1>1, <1>2 DEF Solo, Standing
  <2>2. QED
    BY <1>2, <1>4, <1>5, <2>1 DEF Solo, Standing, Newest
<1>9. QED
  BY <1>1, <1>3, <1>5, <1>6, <1>7, <1>8, LinkStepSolo

\* The account of the link is read, with the new password in the entity.
LEMMA ResetFindUserSolo ==
    ASSUME Typing, Typing', Solo, NEW r \in Requests, ResetFindUser(r), ~disturbed'
    PROVE  Solo'
<1>1. /\ req[r].at = "rstFindUser" /\ req[r].op = "reset"
      /\ UNCHANGED <<users, resets, expired, generated, spent>>
  BY DEF ResetFindUser, Typing, Typed
<1>2. CASE Answer(r) /\ UNCHANGED seen
  <2>1. req'[r] = Idle /\ \A p \in Requests \ {r} : req'[p] = req[p]
    BY <1>2, SlotIdle DEF Typing
  <2>2. Alone' /\ Stage(r)'
    BY <2>1, IdleFields, IdleStage, AloneStep DEF Solo
  <2>3. QED
    BY <1>1, <1>2, <2>1, <2>2, IdleFields, QuietSolo DEF Forgetting
<1>3. ASSUME NEW u \in users, ResetTo(r, u)
      PROVE  Solo'
  <2>1. /\ req'[r].at = "save" /\ req'[r].id = u.id
        /\ req'[r].row = [u EXCEPT !.password = req[r].value]
        /\ req'[r].op = req[r].op /\ req'[r].value = req[r].value
        /\ \A p \in Requests \ {r} : req'[p] = req[p]
    BY <1>3, ResetSlot
  <2>2. \E v \in users' :
            /\ v.id = req'[r].id
            /\ req'[r].row = IF req'[r].op = "reset"
                             THEN [v EXCEPT !.password = req'[r].value] ELSE v
    BY <1>1, <2>1
  <2>3. Stage(r)'
    BY <1>1, <2>1, <2>2, NullOp DEF Stage, AccountLabel
  <2>4. Alone'
    BY <1>1, <2>1, AloneStep DEF Solo
  <2>5. seen'.linked = seen.linked
    BY <1>3, BegunLinks DEF ResetTo
  <2>6. QED
    BY <1>1, <2>1, <2>3, <2>4, <2>5, QuietSolo DEF Forgetting
<1>4. QED
  BY <1>2, <1>3 DEF ResetFindUser, AccountsOf

\* The used link is deleted and the reset answered.
LEMMA ResetDeleteSolo ==
    ASSUME Typing, Typing', Solo, NEW r \in Requests, ResetDelete(r), ~disturbed'
    PROVE  Solo'
<1>1. req[r].at = "rstDelete" /\ req[r].op = "reset" /\ Answer(r)
  BY DEF ResetDelete, Typing, Typed
<1>2. \A p \in Requests \ {r} : req[p].at = "idle" /\ req[p] = Idle
  BY <1>1, OthersIdle
<1>3. req'[r] = Idle /\ \A p \in Requests \ {r} : req'[p] = req[p]
  BY <1>1, SlotIdle DEF Typing
<1>4. PICK l : l = req[r].link
  OBVIOUS
<1>5. /\ resets' = {s \in resets : s.link # l} /\ spent' = spent \cup {l}
      /\ UNCHANGED <<expired, generated>>
  BY <1>4 DEF ResetDelete, DeleteLink
<1>6. seen'.linked = seen.linked
  BY Recorded DEF ResetDelete, ToldBy, Typing, TypeOK, History
<1>7. Alone'
  BY <1>3, IdleFields, AloneStep DEF Solo
<1>8. \A p \in Requests : Stage(p)' /\ LinkStage(p)'
  BY <1>2, <1>3, IdleStage
<1>9. LinksOwned'
  BY <1>5, <1>6 DEF Solo, LinksOwned
<1>10. Standing'
  <2>1. \A s \in resets : Newest(s)
    BY <1>1, <1>2 DEF Solo, Standing
  <2>2. QED
    BY <1>5, <1>6, <2>1 DEF Solo, Standing, Newest
<1>11. QED
  BY <1>7, <1>8, <1>9, <1>10 DEF Solo

\* An approval inserts an account.
LEMMA ApproveInsertSolo ==
    ASSUME Typing, Typing', Solo, NEW e \in Emails, ApproveInsert(e)
    PROVE  Solo'
<1>1. UNCHANGED <<resets, expired, req, generated, spent, seen>> /\ users \subseteq users'
  BY DEF ApproveInsert, Insert, history
<1>2. ASSUME NEW p \in Requests
      PROVE  Stage(p)'
  <2>1. Stage(p)
    BY DEF Solo
  <2>2. req[p].at \in {"save", "saveWrite"} =>
            \E u \in users' :
                /\ u.id = req[p].id
                /\ req[p].row = IF req[p].op = "reset"
                                THEN [u EXCEPT !.password = req[p].value] ELSE u
                /\ req[p].at = "saveWrite" => req[p].dirty = DirtyColumns(req[p].row, u)
    BY <1>1, <2>1 DEF Stage
  <2>3. QED
    BY <1>1, <2>1, <2>2 DEF Stage
<1>3. Alone' /\ LinksOwned'
  BY <1>1 DEF Solo, Alone, LinksOwned
<1>4. (\A p \in Requests : LinkStage(p)') /\ Standing'
  BY <1>1 DEF Solo, LinkStage, Standing, Newest
<1>5. QED
  BY <1>2, <1>3, <1>4 DEF Solo

\* A restart that disturbs nothing cuts only requests of administrators and
\* owners.
LEMMA CrashSolo ==
    ASSUME Typing, Typing', Solo, Crash, ~disturbed'
    PROVE  Solo'
<1>1. /\ \A p \in Requests : req'[p] = Idle /\ req[p].op \in {"account", None}
      /\ UNCHANGED <<users, resets, expired, created, generated, spent, seen>>
  BY Recorded DEF Crash
<1>2. \A p \in Requests : req[p].at \in AccountLabel \cup {"idle"} /\ req'[p].at = "idle"
  BY <1>1, IdleFields DEF Solo, Stage
<1>3. \A p \in Requests : Stage(p)' /\ LinkStage(p)'
  BY <1>1, IdleStage
<1>4. Alone'
  BY <1>2 DEF Alone
<1>5. LinksOwned'
  BY <1>1 DEF Solo, LinksOwned
<1>6. Standing'
  <2>1. \A s \in resets : Newest(s)
    BY <1>2 DEF Solo, Standing, AccountLabel
  <2>2. QED
    BY <1>1, <2>1 DEF Solo, Standing, Newest
<1>7. QED
  BY <1>3, <1>4, <1>5, <1>6 DEF Solo

\* Steps that are nobody's request.
LEMMA WorldSolo ==
    ASSUME Typing, Typing', Solo, ~disturbed',
           \/ \E e \in Emails : ApproveInsert(e)
           \/ \E link \in Links : Expire(link)
           \/ Crash
           \/ UNCHANGED vars
    PROVE  Solo'
<1>1. CASE (\E link \in Links : Expire(link)) \/ UNCHANGED vars
  BY <1>1, UnchangedSolo DEF Expire, vars, history
<1>2. QED
  BY <1>1, ApproveInsertSolo, CrashSolo

\* A step of a request that has arrived.
LEMMA StepSolo ==
    ASSUME Typing, Typing', Accounts, LinksGood, Solo, NEW r \in Requests, Step(r), ~disturbed'
    PROVE  Solo'
  BY SavingStepSolo, ForgotDeleteSolo, ForgotInsertSolo, ForgotQueueSolo,
     ForgotQueueFailsSolo, ForgotCleanupSolo, ResetDiscardSolo, ResetFindUserSolo,
     ResetDeleteSolo, AccountSolo
  DEF Step

\* What is disturbed stays so.
LEMMA StaysDisturbed ==
    ASSUME Next, ~disturbed'
    PROVE  ~disturbed
<1>1. ASSUME NEW r \in Requests, Client(r)
      PROVE  ~disturbed
  BY <1>1 DEF Client, LoginFind, Refresh, ForgotFind, ResetFind, CreateFind, ChangePassword,
              ChangeOwnPassword, RepairOrphanedAccount, UpdateAccount, DeleteAccount, Find,
              ApproveFind, Arrive
<1>2. ASSUME NEW r \in Requests, Step(r)
      PROVE  ~disturbed
  BY <1>2 DEF Step, SaveSelect, SaveWrite, SaveInsert, Respond, ForgotDelete, ForgotInsert,
              ForgotQueue, ForgotQueueFails, ForgotCleanup, ResetDiscard, ResetFindUser,
              ResetDelete, CreateInsert, SetPassword, SetEmail, Remove, Tell, TellRemoved,
              history
<1>3. QED
  BY <1>1, <1>2 DEF Next, ApproveInsert, Expire, Crash, history

\* As long as nothing is disturbed, requests are alone, and links are as the
\* tables say.
LEMMA SoloInvariance == Spec => []SoloInv
<1>1. ASSUME Init
      PROVE  SoloInv
  <2>1. \A r \in Requests : req[r] = Idle /\ req[r].at = "idle"
    BY <1>1, IdleFields DEF Init
  <2>2. \A r \in Requests : Stage(r) /\ LinkStage(r)
    BY <2>1, IdleFields, NullOp DEF Stage, LinkStage, AccountLabel, Forgetting
  <2>3. QED
    BY <1>1, <2>1, <2>2
    DEF Init, SoloInv, Solo, Alone, LinksOwned, Standing, NothingSeen
<1>2. Typing /\ Typing' /\ Accounts /\ LinksGood /\ SoloInv /\ [Next]_vars => SoloInv'
  <2>1. SUFFICES ASSUME Typing, Typing', Accounts, LinksGood, SoloInv, [Next]_vars, ~disturbed'
                 PROVE  Solo'
    BY DEF SoloInv
  <2>2. ~disturbed
    BY <2>1, StaysDisturbed DEF vars, history
  <2>3. Solo
    BY <2>1, <2>2 DEF SoloInv
  <2>4. QED
    BY <2>1, <2>3, ClientSolo, StepSolo, WorldSolo DEF Next
<1>3. QED
  BY <1>1, <1>2, AlwaysTyping, AlwaysAccounts, AlwaysLinks, PTL DEF Spec

\* Unless requests that touch links overlap, an email has no stored link but
\* its newest, and that one, once mailed, is stored until it expires or is spent.
THEOREM MailedLinksStand == Spec => []LinkStands
<1>1. SoloInv => LinkStands
  <2>1. SUFFICES ASSUME Solo, AllIdle, ~disturbed
                 PROVE  LinkStands
    BY DEF SoloInv, LinkStands
  <2>2. \A r \in Requests : req[r].at = "idle"
    BY <2>1, IdleFields DEF AllIdle
  <2>3. QED
    BY <2>1, <2>2 DEF Solo, Standing, LinkStands
<1>2. QED
  BY <1>1, SoloInvariance, PTL

-----------------------------------------------------------------------------
(* Answers.  What an answer told is so as long as no request touches it, a *)
(* request that has no rival finds what it wrote when it answers, and of a *)
(* request that has one nothing is told.                                   *)

Told == {"tellCreated", "tellPassword", "tellEmail", "rstDelete"}
Column == {"email", "password"}

\* An account with the id and the value in the column is stored.
Holds(id, column, val) == \E u \in users : u.id = id /\ u[column] = val

\* What a request is to write into a column of an account, or wrote.
Value(q, column) == IF column = "email" THEN q.email ELSE q.value

\* What a slot without a rival knows of the account it writes.
Own(r) ==
    /\ req[r].at \in Told /\ r \notin seen.raced =>
          \A c \in Column : Touches(req[r], c) => Holds(req[r].id, c, Value(req[r], c))
    /\ req[r].at \in {"setPassword", "setEmail"} /\ r \notin seen.raced => WithId(req[r].id) # {}
    /\ req[r].at = "tellRemoved" => WithId(req[r].id) = {}

Facts ==
    \A t \in seen.told :
        /\ t.id <= created
        /\ Holds(t.id, t.column, t.value)
        /\ \A p \in Requests : req[p].id = t.id => ~Touches(req[p], t.column)

Gone == \A id \in seen.gone : id <= created /\ WithId(id) = {}

Races ==
    \A p, q \in Requests : p # q /\ Contend(req[p], req[q]) => p \in seen.raced

Answers ==
    /\ \A r \in Requests : req[r].id <= created /\ Own(r)
    /\ Facts /\ Gone /\ Races

AnswersInv == ~disturbed => Answers

\* The idle slot touches nothing.
LEMMA IdleTouches == \A c : ~Touches(Idle, c)
  BY NullOp DEF Touches, Idle, Holding

\* What is told is of these columns.
LEMMA ToldColumns ==
    ASSUME Typing
    PROVE  /\ \A t \in seen.told : t.id \in Ids /\ t.column \in Column
           /\ \A id \in seen.gone : id \in Ids
  BY DEF Typing, TypeOK, History, Column

\* A step of slot r that tells nothing: of the accounts it changes at most the
\* columns its request touches, or inserts one with an id never used.
LEMMA AnswersKept ==
    ASSUME Typing, Typing', Answers, NEW r \in Requests,
           \A p \in Requests \ {r} : req'[p] = req[p],
           seen'.told = seen.told, seen'.gone = seen.gone, seen'.raced = seen.raced,
           created' >= created, req'[r].id <= created',
           \A u \in users, c \in Column :
               ~(u.id = req[r].id /\ Touches(req[r], c)) =>
                   \E v \in users' : v.id = u.id /\ v[c] = u[c],
           \A v \in users' : v.id > created \/ \E u \in users : v.id = u.id,
           \A c \in Column :
               Touches(req'[r], c) => \/ req'[r].id > created
                                      \/ req'[r].id = req[r].id /\ Touches(req[r], c),
           Own(r)'
    PROVE  Answers'
<1>0. /\ created \in Nat /\ created' \in Nat
      /\ \A p \in Requests : req[p].id \in Nat /\ req'[p].id \in Nat
      /\ \A id \in Ids : id \in Nat
      /\ \A v \in users' : v.id \in Nat
  BY CredentialsAssumption DEF Typing, TypeOK, Request, Ids, Account
<1>1. ASSUME NEW id, NEW c \in Column, NEW val, Holds(id, c, val),
             ~(id = req[r].id /\ Touches(req[r], c))
      PROVE  Holds(id, c, val)'
  BY <1>1 DEF Holds
<1>2. ASSUME NEW id \in Nat, id <= created, WithId(id) = {}
      PROVE  WithId(id)' = {}
  BY <1>0, <1>2 DEF WithId
<1>3. Facts'
  <2>1. SUFFICES ASSUME NEW t \in seen.told
                 PROVE  /\ t.id <= created'
                        /\ Holds(t.id, t.column, t.value)'
                        /\ \A p \in Requests : req'[p].id = t.id => ~Touches(req'[p], t.column)
    BY DEF Facts, Holds
  <2>2. /\ t.id \in Nat /\ t.column \in Column /\ t.id <= created
        /\ Holds(t.id, t.column, t.value)
        /\ \A p \in Requests : req[p].id = t.id => ~Touches(req[p], t.column)
    BY <1>0, ToldColumns DEF Answers, Facts
  <2>3. Holds(t.id, t.column, t.value)'
    <3>1. PICK id, c, val : id = t.id /\ c = t.column /\ val = t.value
      OBVIOUS
    <3>2. Holds(id, c, val)'
      BY <1>1, <2>2, <3>1
    <3>3. QED
      BY <3>1, <3>2 DEF Holds
  <2>4. req'[r].id = t.id => ~Touches(req'[r], t.column)
    BY <1>0, <2>2
  <2>5. QED
    BY <1>0, <2>2, <2>3, <2>4
<1>4. Gone'
  <2>1. SUFFICES ASSUME NEW id \in seen.gone
                 PROVE  id <= created' /\ WithId(id)' = {}
    BY DEF Gone, WithId
  <2>2. id \in Nat /\ id <= created /\ WithId(id) = {}
    BY <1>0, ToldColumns DEF Answers, Gone
  <2>3. QED
    BY <1>0, <1>2, <2>2
<1>5. Races'
  <2>1. SUFFICES ASSUME NEW p \in Requests, NEW q \in Requests, p # q,
                        Contend(req'[p], req'[q])
                 PROVE  p \in seen.raced
    BY DEF Races, Contend, Touches
  <2>2. \A o \in Requests \ {r} : req'[o].id <= created
    BY DEF Answers
  <2>3. PICK c \in Column : /\ req'[p].id = req'[q].id
                            /\ Touches(req'[p], c) /\ Touches(req'[q], c)
    BY <2>1 DEF Contend, Column
  <2>4. req[p].id = req[q].id /\ Touches(req[p], c) /\ Touches(req[q], c)
    BY <1>0, <2>1, <2>2, <2>3
  <2>5. Contend(req[p], req[q])
    BY <2>4 DEF Contend, Column
  <2>6. QED
    BY <2>1, <2>5 DEF Answers, Races
<1>6. ASSUME NEW p \in Requests
      PROVE  req'[p].id <= created' /\ Own(p)'
  <2>1. CASE p = r
    BY <2>1
  <2>2. CASE p # r
    <3>1. req'[p] = req[p] /\ req[p].id <= created /\ Own(p)
      BY <2>2 DEF Answers
    <3>2. ASSUME NEW c \in Column, p \notin seen.raced, Touches(req[p], c)
          PROVE  ~(req[p].id = req[r].id /\ Touches(req[r], c))
      BY <2>2, <3>2 DEF Answers, Races, Contend, Column
    <3>3. ASSUME req[p].at \in Told, p \notin seen.raced, NEW c \in Column, Touches(req[p], c)
          PROVE  Holds(req[p].id, c, Value(req[p], c))'
      <4>1. PICK id, val : id = req[p].id /\ val = Value(req[p], c)
        OBVIOUS
      <4>2. Holds(id, c, val)'
        BY <1>1, <3>1, <3>2, <3>3, <4>1 DEF Own
      <4>3. QED
        BY <3>1, <4>1, <4>2 DEF Holds, Value
    <3>4. ASSUME req[p].at \in {"setPassword", "setEmail"}, p \notin seen.raced
          PROVE  WithId(req[p].id)' # {}
      <4>1. PICK u \in users : u.id = req[p].id
        BY <3>1, <3>4 DEF Own, WithId
      <4>2. PICK c \in Column : Touches(req[p], c)
        BY <3>4 DEF Touches, Column
      <4>3. \E v \in users' : v.id = u.id
        BY <3>2, <3>4, <4>1, <4>2
      <4>4. QED
        BY <3>1, <4>1, <4>3 DEF WithId
    <3>5. req[p].at = "tellRemoved" => WithId(req[p].id)' = {}
      <4>1. PICK id : id = req[p].id
        OBVIOUS
      <4>2. req[p].at = "tellRemoved" => WithId(id)' = {}
        BY <1>0, <1>2, <3>1, <4>1 DEF Own
      <4>3. QED
        BY <3>1, <4>1, <4>2 DEF WithId
    <3>6. Own(p)'
      BY <3>1, <3>3, <3>4, <3>5 DEF Own
    <3>7. QED
      BY <1>0, <3>1, <3>6
  <2>3. QED
    BY <2>1, <2>2
<1>7. QED
  BY <1>3, <1>4, <1>5, <1>6 DEF Answers

\* A request begins to touch what it will write: what was told of it is taken
\* back, and its rivals are known.
LEMMA AnswersBegun ==
    ASSUME Typing, Typing', Answers, NEW r \in Requests, NEW q,
           req'[r] = q, \A p \in Requests \ {r} : req'[p] = req[p],
           Record(Begun(r, q)), ~disturbed', UNCHANGED <<users, created>>,
           q.id <= created, q.at \notin Told \cup {"tellRemoved"},
           q.at \in {"setPassword", "setEmail"} => WithId(q.id) # {}
    PROVE  Answers'
<1> DEFINE still == {t \in seen.told : ~(t.id = q.id /\ Touches(q, t.column))}
           slots == (seen.raced \ {r}) \cup Rivals(r, q)
                        \cup {p \in {r} : Rivals(r, q) # {}}
<1>1. /\ seen'.told = still /\ seen'.gone = seen.gone /\ seen'.raced = slots
  <2>1. seen' = [seen EXCEPT !.told = still, !.raced = slots]
    BY Recorded DEF Begun
  <2>2. QED
    <3> HIDE DEF still, slots
    <3>1. QED
      BY <2>1 DEF Typing, TypeOK, History
<1>2. \A p \in Requests \ {r} : p \notin slots => p \notin seen.raced
  OBVIOUS
<1>3. Facts'
  BY <1>1 DEF Answers, Facts, Holds
<1>4. Gone'
  BY <1>1 DEF Answers, Gone, WithId
<1>5. Races'
  <2>1. SUFFICES ASSUME NEW p \in Requests, NEW o \in Requests, p # o,
                        Contend(req'[p], req'[o])
                 PROVE  p \in slots
    BY <1>1 DEF Races, Contend, Touches
  <2>2. CASE p = r
    BY <2>1, <2>2 DEF Rivals
  <2>3. CASE o = r
    BY <2>1, <2>3 DEF Rivals, Contend
  <2>4. CASE p # r /\ o # r
    BY <2>1, <2>4 DEF Answers, Races
  <2>5. QED
    BY <2>2, <2>3, <2>4
<1>6. ASSUME NEW p \in Requests
      PROVE  req'[p].id <= created' /\ Own(p)'
  <2>1. CASE p = r
    BY <2>1 DEF Own, WithId
  <2>2. CASE p # r
    BY <1>1, <1>2, <2>2 DEF Answers, Own, Holds, Value, WithId
  <2>3. QED
    BY <2>1, <2>2
<1>7. QED
  BY <1>3, <1>4, <1>5, <1>6 DEF Answers

\* An answer tells what its slot, unless it has a rival, finds stored.
LEMMA AnswersTold ==
    ASSUME Typing, Typing', Answers, NEW r \in Requests, req[r].at \in Told,
           Answer(r), Record(ToldBy(r)), ~disturbed', UNCHANGED <<users, created>>
    PROVE  Answers'
<1> DEFINE new == {t \in [id : {req[r].id}, column : {"email", "password"},
                          value : {req[r].email, req[r].value}] :
                     /\ r \notin seen.raced
                     /\ Touches(req[r], t.column)
                     /\ t.value = IF t.column = "email" THEN req[r].email ELSE req[r].value}
<1>1. /\ seen'.told = seen.told \cup new
      /\ seen'.gone = seen.gone /\ seen'.raced = seen.raced
  <2>1. seen' = [seen EXCEPT !.told = @ \cup new]
    BY Recorded DEF ToldBy
  <2>2. QED
    <3> HIDE DEF new
    <3>1. QED
      BY <2>1 DEF Typing, TypeOK, History
<1>2. req'[r] = Idle /\ \A p \in Requests \ {r} : req'[p] = req[p]
  BY SlotIdle DEF Typing
<1>3. \A p \in Requests : req'[p] = req[p] \/ \A c : ~Touches(req'[p], c)
  BY <1>2, IdleTouches
<1>4. Facts'
  <2>1. SUFFICES ASSUME NEW t \in seen.told \cup new
                 PROVE  /\ t.id <= created
                        /\ Holds(t.id, t.column, t.value)
                        /\ \A p \in Requests : req'[p].id = t.id => ~Touches(req'[p], t.column)
    BY <1>1 DEF Facts, Holds
  <2>2. CASE t \in seen.told
    BY <1>3, <2>2 DEF Answers, Facts
  <2>3. CASE t \in new
    <3>1. /\ t.id = req[r].id /\ t.column \in Column /\ t.value = Value(req[r], t.column)
          /\ r \notin seen.raced /\ Touches(req[r], t.column)
      BY <2>3 DEF Column, Value
    <3>2. Holds(t.id, t.column, t.value) /\ t.id <= created
      BY <3>1 DEF Answers, Own
    <3>3. ASSUME NEW p \in Requests, req'[p].id = t.id
          PROVE  ~Touches(req'[p], t.column)
      <4>1. CASE p = r
        BY <1>2, <4>1, IdleTouches
      <4>2. CASE p # r
        <5>1. ~Contend(req[r], req[p])
          BY <3>1, <4>2 DEF Answers, Races
        <5>2. QED
          BY <1>2, <3>1, <3>3, <4>2, <5>1 DEF Contend, Column
      <4>3. QED
        BY <4>1, <4>2
    <3>4. QED
      BY <3>2, <3>3
  <2>4. QED
    BY <2>2, <2>3
<1>5. Gone'
  BY <1>1 DEF Answers, Gone, WithId
<1>6. Races'
  BY <1>1, <1>3 DEF Answers, Races, Contend
<1>7. ASSUME NEW p \in Requests
      PROVE  req'[p].id <= created' /\ Own(p)'
  <2>1. CASE p = r
    BY <1>2, <2>1, CredentialsAssumption DEF Own, Told, Idle, Holding, Typing, TypeOK
  <2>2. CASE p # r
    BY <1>1, <1>2, <2>2 DEF Answers, Own, Holds, Value, WithId
  <2>3. QED
    BY <2>1, <2>2
<1>8. QED
  BY <1>4, <1>5, <1>6, <1>7 DEF Answers

\* An answered request that tells nothing, or that its account is gone.
LEMMA AnswersLeft ==
    ASSUME Typing, Typing', Answers, NEW r \in Requests, Answer(r),
           seen'.told = seen.told, seen'.raced = seen.raced,
           seen'.gone = seen.gone \/ (req[r].at = "tellRemoved"
                                         /\ seen'.gone = seen.gone \cup {req[r].id}),
           UNCHANGED <<users, created>>
    PROVE  Answers'
<1>1. req'[r] = Idle /\ \A p \in Requests \ {r} : req'[p] = req[p]
  BY SlotIdle DEF Typing
<1>2. \A p \in Requests : req'[p] = req[p] \/ \A c : ~Touches(req'[p], c)
  BY <1>1, IdleTouches
<1>3. Facts'
  BY <1>2 DEF Answers, Facts, Holds
<1>4. Gone'
  BY DEF Answers, Gone, Own, WithId
<1>5. Races'
  BY <1>2 DEF Answers, Races, Contend
<1>6. ASSUME NEW p \in Requests
      PROVE  req'[p].id <= created' /\ Own(p)'
  <2>1. CASE p = r
    BY <1>1, <2>1, CredentialsAssumption DEF Own, Told, Idle, Holding, Typing, TypeOK
  <2>2. CASE p # r
    BY <1>1, <2>2 DEF Answers, Own, Holds, Value, WithId
  <2>3. QED
    BY <2>1, <2>2
<1>7. QED
  BY <1>3, <1>4, <1>5, <1>6 DEF Answers

\* Requests that a client sends.
LEMMA ClientAnswers ==
    ASSUME Typing, Typing', Accounts, Answers, NEW r \in Requests, Client(r), ~disturbed'
    PROVE  Answers'
<1>0. \A u \in users : u.id <= created /\ WithId(u.id) # {}
  BY DEF Accounts, WithId
<1>1. 0 <= created
  BY DEF Typing, TypeOK
<1>2. ASSUME NEW q, Arrive(r, q), UNCHANGED <<users, created>>, q.id <= created,
             q.at \notin Told \cup {"tellRemoved"},
             q.at \in {"setPassword", "setEmail"} => WithId(q.id) # {}
      PROVE  Answers'
  <2>1. req'[r] = q /\ \A p \in Requests \ {r} : req'[p] = req[p]
    BY <1>2, ArrivedSlot
  <2>2. QED
    BY <1>2, <2>1, AnswersBegun DEF Arrive
<1>3. ASSUME NEW u \in users, NEW label \in {"save", "setPassword", "setEmail", "remove"},
             NEW op, NEW e, NEW val, NEW row,
             Arrive(r, Holding(label, op, u.id, e, val, row, 0)), UNCHANGED <<users, created>>
      PROVE  Answers'
  BY <1>0, <1>2, <1>3 DEF Holding, Told
<1>4. ASSUME NEW label \in {"create", "fgtDelete", "rstDiscard", "rstFindUser"},
             NEW op, NEW e, NEW val, NEW link,
             Arrive(r, Holding(label, op, 0, e, val, None, link)), UNCHANGED <<users, created>>
      PROVE  Answers'
  BY <1>1, <1>2, <1>4 DEF Holding, Told
<1>5. ASSUME NEW e \in Emails, NEW pw \in Passwords, LoginFind(r, e, pw)
      PROVE  Answers'
  BY <1>3, <1>5 DEF LoginFind, AccountsOf
<1>6. ASSUME NEW u \in users, NEW stored \in BOOLEAN, NEW fresh \in BOOLEAN,
             Refresh(r, u, stored, fresh)
      PROVE  Answers'
  <2>1. UNCHANGED <<users, req, seen, created>>
    BY <1>6, Refused DEF vars, history
  <2>2. QED
    BY <2>1 DEF Answers, Facts, Holds, Gone, WithId, Races, Own
<1>7. ASSUME NEW e \in Emails, ForgotFind(r, e)
      PROVE  Answers'
  BY <1>4, <1>7 DEF ForgotFind
<1>8. ASSUME NEW link \in Links, NEW pw \in Passwords, ResetFind(r, link, pw)
      PROVE  Answers'
  <2>1. PICK label, e :
            /\ label \in {"rstDiscard", "rstFindUser"}
            /\ Arrive(r, Holding(label, "reset", 0, e, pw, None, link))
    BY <1>8 DEF ResetFind
  <2>2. UNCHANGED <<users, created>>
    BY <1>8 DEF ResetFind
  <2>3. QED
    BY <1>4, <2>1, <2>2
<1>9. ASSUME NEW e \in Emails, NEW pw \in Passwords, CreateFind(r, e, pw)
      PROVE  Answers'
  BY <1>4, <1>9 DEF CreateFind
<1>10. ASSUME NEW u \in users, NEW label \in {"setPassword", "remove"}, NEW val,
              Find(r, u, label, val)
       PROVE  Answers'
  BY <1>3, <1>10 DEF Find
<1>11. ASSUME NEW u \in users, NEW e \in Emails, UpdateAccount(r, u, e)
       PROVE  Answers'
  BY <1>3, <1>11 DEF UpdateAccount
<1>12. ASSUME NEW u \in users, ApproveFind(r, u)
       PROVE  Answers'
  BY <1>3, <1>12 DEF ApproveFind
<1>13. QED
  BY <1>5, <1>6, <1>7, <1>8, <1>9, <1>10, <1>11, <1>12
  DEF Client, ChangePassword, ChangeOwnPassword, RepairOrphanedAccount, DeleteAccount

\* A step that leaves the accounts and what was told as they are, and its
\* request touching what it touched or nothing.
LEMMA AnswersStill ==
    ASSUME Typing, Typing', Answers, NEW r \in Requests,
           \A p \in Requests \ {r} : req'[p] = req[p],
           UNCHANGED <<users, created>>,
           seen'.told = seen.told, seen'.gone = seen.gone, seen'.raced = seen.raced,
           req'[r].id = req[r].id, \A c \in Column : Touches(req'[r], c) => Touches(req[r], c),
           req'[r].at \notin Told \cup {"tellRemoved", "setPassword", "setEmail"}
    PROVE  Answers'
<1>1. created' >= created /\ req'[r].id <= created'
  BY CredentialsAssumption DEF Answers, Typing, TypeOK
<1>2. Own(r)'
  BY DEF Own
<1>3. QED
  BY <1>1, <1>2, AnswersKept

\* Writing a column of an account is a step that AnswersKept speaks of.
LEMMA ColumnKeeps ==
    ASSUME Typing, NEW id, NEW column, NEW val, column \in Columns,
           UpdateColumn(id, column, val)
    PROVE  /\ \A u \in users, c \in Column :
                 ~(u.id = id /\ c = column) => \E v \in users' : v.id = u.id /\ v[c] = u[c]
           /\ \A v \in users' : \E u \in users : v.id = u.id
           /\ column \in Column /\ WithId(id) # {} => Holds(id, column, val)'
<1> DEFINE F(u) == IF u.id = id THEN [u EXCEPT ![column] = val] ELSE u
<1>1. users' = {F(u) : u \in users}
  BY DEF UpdateColumn
<1>2. ASSUME NEW u \in users
      PROVE  /\ F(u).id = u.id
             /\ u.id = id => F(u)[column] = val
             /\ \A c \in Column : ~(u.id = id /\ c = column) => F(u)[c] = u[c]
  <2>1. u \in Account
    BY DEF Typing, TypeOK
  <2>2. CASE column = "email"
    BY <2>1, <2>2 DEF Account, Column
  <2>3. CASE column = "password"
    BY <2>1, <2>3 DEF Account, Column
  <2>4. CASE column = "session"
    BY <2>1, <2>4 DEF Account, Column
  <2>5. QED
    BY <2>2, <2>3, <2>4 DEF Columns
<1> HIDE DEF F
<1>3. QED
  BY <1>1, <1>2 DEF Holds, WithId

\* Writing a column that a request touches, and going on to tell of it.
LEMMA ColumnAnswers ==
    ASSUME Typing, Typing', Answers, NEW r \in Requests, NEW id, NEW column, NEW val,
           UpdateColumn(id, column, val), column \in Columns,
           id = req[r].id, column \in Column => Touches(req[r], column),
           \A p \in Requests \ {r} : req'[p] = req[p],
           UNCHANGED <<created, seen>>,
           req'[r].id <= created,
           \A c \in Column :
               Touches(req'[r], c) => req'[r].id = id /\ Touches(req[r], c) /\ c = column,
           req'[r].at \notin {"setPassword", "setEmail", "tellRemoved"},
           req'[r].at \in Told => /\ column \in Column /\ Value(req'[r], column) = val
                                  /\ r \in seen.raced \/ WithId(id) # {}
    PROVE  Answers'
<1>1. /\ \A u \in users, c \in Column :
            ~(u.id = id /\ c = column) => \E v \in users' : v.id = u.id /\ v[c] = u[c]
      /\ \A v \in users' : \E u \in users : v.id = u.id
      /\ column \in Column /\ WithId(id) # {} => Holds(id, column, val)'
  BY ColumnKeeps
<1>2. Own(r)'
  <2>1. ASSUME req'[r].at \in Told, r \notin seen.raced, NEW c \in Column, Touches(req'[r], c)
        PROVE  Holds(req[r].id, c, Value(req[r], c))'
    <3>1. c = column /\ req'[r].id = id /\ Holds(id, column, val)'
          /\ Value(req'[r], column) = val
      BY <1>1, <2>1
    <3>2. PICK i, w : i = req'[r].id /\ w = Value(req'[r], c)
      OBVIOUS
    <3>3. Holds(i, c, w)'
      BY <3>1, <3>2
    <3>4. QED
      BY <3>2, <3>3 DEF Holds, Value
  <2>2. QED
    BY <2>1 DEF Own
<1>3. created' >= created /\ req'[r].id <= created'
  BY CredentialsAssumption DEF Typing, TypeOK
<1>4. \A u \in users, c \in Column :
          ~(u.id = req[r].id /\ Touches(req[r], c)) => \E v \in users' : v.id = u.id /\ v[c] = u[c]
  BY <1>1
<1>5. QED
  BY <1>1, <1>2, <1>3, <1>4, AnswersKept

\* The steps of save and of the answer of a login.
LEMMA SavingAnswers ==
    ASSUME Typing, Typing', Accounts, Solo, Answers, NEW r \in Requests,
           SaveSelect(r) \/ SaveWrite(r) \/ SaveInsert(r) \/ Respond(r)
    PROVE  Answers'
<1>0. /\ TypeOK /\ req[r] \in Request /\ Typed(req[r])
      /\ req[r].id <= created /\ 0 <= created
  BY DEF Typing, TypeOK, Answers
<1>1. CASE SaveSelect(r)
  <2>1. /\ req'[r].at \in {"saveWrite", "saveInsert"} /\ req[r].at = "save"
        /\ req'[r].id = req[r].id /\ req'[r].op = req[r].op
        /\ \A p \in Requests \ {r} : req'[p] = req[p]
    BY <1>0, <1>1 DEF SaveSelect, Goto, TypeOK, Request
  <2>2. UNCHANGED <<users, created, seen>>
    BY <1>1 DEF SaveSelect, history
  <2>3. QED
    BY <2>1, <2>2, AnswersStill DEF Touches, Told
<1>2. CASE SaveWrite(r)
  <2>1. /\ req[r].at = "saveWrite" /\ req[r].op \in {"login", "reset", "approve"}
        /\ UNCHANGED <<created, seen>>
    BY <1>0, <1>2 DEF SaveWrite, Typed, Saving, history
  <2>2. /\ req' = [req EXCEPT ![r] = AfterSave(r)]
        /\ \E u \in users : u.id = req[r].id
        /\ \/ req[r].op \in {"login", "approve"} /\ users' = users
           \/ req[r].op = "reset" /\ UpdateColumn(req[r].id, "password", req[r].value)
    BY <1>2, SaveWritesPassword
  <2>3. req'[r] = AfterSave(r) /\ \A p \in Requests \ {r} : req'[p] = req[p]
    BY <1>0, <2>2 DEF TypeOK
  <2>4. CASE req[r].op = "approve" /\ users' = users
    BY <2>1, <2>2, <2>4, AnswersLeft DEF AfterSave, Answer
  <2>5. CASE req[r].op = "login" /\ users' = users
    <3>1. AfterSave(r).at = "respond" /\ AfterSave(r).id = req[r].id /\ AfterSave(r).op = "login"
      BY <1>0, <2>5 DEF AfterSave, Request
    <3>2. QED
      BY <2>1, <2>3, <2>5, <3>1, AnswersStill DEF Touches, Told
  <2>6. CASE req[r].op = "reset" /\ UpdateColumn(req[r].id, "password", req[r].value)
    <3>1. PICK q : q = AfterSave(r)
      OBVIOUS
    <3>2. /\ q.at = "rstDelete" /\ q.id = req[r].id /\ q.op = "reset"
          /\ q.value = req[r].value
      BY <1>0, <2>6, <3>1 DEF AfterSave, Request
    <3>3. PICK id, val : id = req[r].id /\ val = req[r].value
      OBVIOUS
    <3>4. WithId(id) # {} /\ UpdateColumn(id, "password", val)
      BY <2>2, <2>6, <3>3 DEF WithId
    <3>5. \A c \in Column : Touches(q, c) => c = "password"
      BY <3>2 DEF Touches
    <3>6. Touches(req[r], "password")
      BY <2>6 DEF Touches
    <3>7. Value(q, "password") = val
      BY <3>2, <3>3 DEF Value
    <3>8. QED
      BY <1>0, <2>1, <2>3, <3>1, <3>2, <3>3, <3>4, <3>5, <3>6, <3>7, ColumnAnswers
      DEF Column, Columns
  <2>7. QED
    BY <2>2, <2>4, <2>5, <2>6
<1>3. CASE Respond(r)
  <2>1. PICK id : id = req[r].id
    OBVIOUS
  <2>2. UpdateColumn(id, "session", TRUE) /\ UNCHANGED <<created, seen>>
    BY <1>3, <2>1 DEF Respond, history
  <2>3. req'[r] = Idle /\ \A p \in Requests \ {r} : req'[p] = req[p]
    BY <1>0, <1>3, SlotIdle DEF Respond
  <2>4. Idle.id = 0 /\ Idle.at = "idle"
    BY DEF Idle, Holding
  <2>5. QED
    BY <1>0, <2>1, <2>2, <2>3, <2>4, IdleTouches, ColumnAnswers DEF Column, Columns, Told
<1>4. CASE SaveInsert(r)
  BY <1>4 DEF SaveInsert, Solo, Stage
<1>5. QED
  BY <1>1, <1>2, <1>3, <1>4

\* The steps of UserService up to the answer.
LEMMA WritingAnswers ==
    ASSUME Typing, Typing', Accounts, Solo, Answers, NEW r \in Requests,
           CreateInsert(r) \/ SetPassword(r) \/ SetEmail(r) \/ Remove(r)
    PROVE  Answers'
<1>0. /\ TypeOK /\ req[r] \in Request /\ Typed(req[r]) /\ Own(r)
      /\ req[r].id <= created /\ created \in Nat /\ UNCHANGED seen
      /\ \A p \in Requests \ {r} : req'[p] = req[p]
  <2>1. TypeOK /\ req[r] \in Request /\ Typed(req[r]) /\ created \in Nat
    BY CredentialsAssumption DEF Typing, TypeOK
  <2>2. Own(r) /\ req[r].id <= created
    BY DEF Answers
  <2>3. UNCHANGED seen
    BY DEF CreateInsert, SetPassword, SetEmail, Remove, history
  <2>4. \A p \in Requests \ {r} : req'[p] = req[p]
    BY AccountSlot
  <2>5. QED
    BY <2>1, <2>2, <2>3, <2>4
<1>1. CASE Answer(r) /\ UNCHANGED <<users, created>>
  BY <1>0, <1>1, AnswersLeft
<1>2. CASE /\ req[r].at = "create"
           /\ Insert(created + 1, req[r].email, req[r].value)
           /\ req' = [req EXCEPT ![r].at = "tellCreated", ![r].id = created + 1]
  <2>1. PICK id, u : /\ id = created + 1
                     /\ u = [id |-> id, email |-> req[r].email, password |-> req[r].value,
                             session |-> FALSE]
    OBVIOUS
  <2>2. users' = users \cup {u} /\ created' = created + 1 /\ u.id = id
        /\ u.email = req[r].email /\ u.password = req[r].value
    BY <1>2, <2>1 DEF Insert
  <2>3. /\ req'[r].at = "tellCreated" /\ req'[r].id = id
        /\ req'[r].email = req[r].email /\ req'[r].value = req[r].value
    BY <1>0, <1>2, <2>1 DEF TypeOK, Request
  <2>4. Own(r)'
    <3>1. /\ u \in users' /\ u.id = req'[r].id /\ u["email"] = req'[r].email
          /\ u["password"] = req'[r].value
      BY <2>2, <2>3
    <3>2. \A c \in Column : \E v \in users' : v.id = req'[r].id /\ v[c] = Value(req'[r], c)
      BY <3>1 DEF Column, Value
    <3>3. QED
      BY <2>3, <3>2 DEF Own, Holds, Value
  <2>5. created' >= created /\ req'[r].id <= created' /\ req'[r].id > created
    BY <1>0, <2>1, <2>2, <2>3
  <2>6. \A v \in users' : v.id > created \/ \E w \in users : v.id = w.id
    BY <2>2, <2>3, <2>5
  <2>7. \A w \in users : w \in users'
    BY <2>2
  <2>8. QED
    BY <1>0, <2>4, <2>5, <2>6, <2>7, AnswersKept
<1>3. CASE SetPassword(r)
  <2>1. PICK id, val : id = req[r].id /\ val = req[r].value
    OBVIOUS
  <2>2. /\ req[r].at = "setPassword" /\ req[r].op = "account"
        /\ UpdateColumn(id, "password", val) /\ Goto(r, "tellPassword") /\ UNCHANGED created
    BY <1>0, <1>3, <2>1 DEF SetPassword, Typed, Writing
  <2>3. /\ req'[r].at = "tellPassword" /\ req'[r].id = id /\ req'[r].op = "account"
        /\ req'[r].value = val
    BY <1>0, <2>1, <2>2, SlotMoves DEF Label
  <2>4. \A c \in Column : Touches(req'[r], c) => c = "password"
    BY <2>3 DEF Touches
  <2>5. Touches(req[r], "password") /\ (r \in seen.raced \/ WithId(id) # {})
    BY <1>0, <2>1, <2>2 DEF Touches, Own
  <2>6. Value(req'[r], "password") = val
    BY <2>3 DEF Value
  <2>7. QED
    BY <1>0, <2>1, <2>2, <2>3, <2>4, <2>5, <2>6, ColumnAnswers DEF Column, Columns
<1>4. CASE SetEmail(r) /\ UpdateColumn(req[r].id, "email", req[r].email) /\ Goto(r, "tellEmail")
  <2>1. PICK id, val : id = req[r].id /\ val = req[r].email
    OBVIOUS
  <2>2. /\ req[r].at = "setEmail" /\ req[r].op = "account"
        /\ UpdateColumn(id, "email", val) /\ Goto(r, "tellEmail") /\ UNCHANGED created
    BY <1>0, <1>4, <2>1 DEF SetEmail, Typed, Writing
  <2>3. /\ req'[r].at = "tellEmail" /\ req'[r].id = id /\ req'[r].op = "account"
        /\ req'[r].email = val
    BY <1>0, <2>1, <2>2, SlotMoves DEF Label
  <2>4. \A c \in Column : Touches(req'[r], c) => c = "email"
    BY <2>3 DEF Touches
  <2>5. Touches(req[r], "email") /\ (r \in seen.raced \/ WithId(id) # {})
    BY <1>0, <2>1, <2>2 DEF Touches, Own
  <2>6. Value(req'[r], "email") = val
    BY <2>3 DEF Value
  <2>7. QED
    BY <1>0, <2>1, <2>2, <2>3, <2>4, <2>5, <2>6, ColumnAnswers DEF Column, Columns
<1>5. CASE Remove(r)
  <2>1. PICK id : id = req[r].id
    OBVIOUS
  <2>2. /\ req[r].at = "remove" /\ users' = {u \in users : u.id # id}
        /\ Goto(r, "tellRemoved") /\ UNCHANGED created
    BY <1>5, <2>1 DEF Remove, WithId
  <2>3. /\ req'[r].at = "tellRemoved" /\ req'[r].id = id
    BY <1>0, <2>1, <2>2, SlotMoves DEF Label
  <2>4. \A c : Touches(req[r], c)
    BY <2>2 DEF Touches
  <2>5. Own(r)'
    BY <2>1, <2>2, <2>3 DEF Own, WithId, Told
  <2>6. created' >= created /\ req'[r].id <= created'
    BY <1>0, <2>1, <2>2, <2>3
  <2>7. \A u \in users, c \in Column :
            ~(u.id = req[r].id /\ Touches(req[r], c)) => \E v \in users' : v.id = u.id /\ v[c] = u[c]
    BY <2>1, <2>2, <2>4
  <2>8. QED
    BY <1>0, <2>1, <2>2, <2>3, <2>4, <2>5, <2>6, <2>7, AnswersKept
<1>6. QED
  BY <1>1, <1>2, <1>3, <1>4, <1>5 DEF CreateInsert, SetEmail, history

\* The answers of UserService.
LEMMA TellingAnswers ==
    ASSUME Typing, Typing', Answers, NEW r \in Requests, Tell(r) \/ TellRemoved(r), ~disturbed'
    PROVE  Answers'
<1>1. CASE Tell(r)
  BY <1>1, AnswersTold DEF Tell, Told
<1>2. CASE TellRemoved(r)
  <2>1. seen' = [seen EXCEPT !.gone = @ \cup {req[r].id}]
    BY <1>2, Recorded DEF TellRemoved
  <2>2. /\ seen'.gone = seen.gone \cup {req[r].id}
        /\ seen'.told = seen.told /\ seen'.raced = seen.raced
    BY <2>1 DEF Typing, TypeOK, History
  <2>3. QED
    BY <1>2, <2>2, AnswersLeft DEF TellRemoved
<1>3. QED
  BY <1>1, <1>2

\* The steps of forgotPassword, which touches no account.
LEMMA ForgotAnswers ==
    ASSUME Typing, Typing', Solo, Answers, NEW r \in Requests,
           \/ ForgotDelete(r) \/ ForgotInsert(r)
           \/ ForgotQueue(r) \/ ForgotQueueFails(r) \/ ForgotCleanup(r), ~disturbed'
    PROVE  Answers'
<1>1. UNCHANGED <<users, created>>
  BY DEF ForgotDelete, ForgotInsert, ForgotQueue, ForgotQueueFails, ForgotCleanup, history
<1>2. /\ seen'.told = seen.told /\ seen'.gone = seen.gone /\ seen'.raced = seen.raced
  <2>1. CASE ForgotQueue(r)
    BY <2>1, Recorded DEF ForgotQueue, Typing, TypeOK, History
  <2>2. CASE ~ForgotQueue(r)
    BY <2>2 DEF ForgotDelete, ForgotInsert, ForgotQueueFails, ForgotCleanup, history
  <2>3. QED
    BY <2>1, <2>2
<1>3. CASE Answer(r)
  BY <1>1, <1>2, <1>3, AnswersLeft
<1>4. ASSUME NEW label \in {"fgtInsert", "fgtQueue", "fgtCleanup"}, Goto(r, label)
      PROVE  Answers'
  <2>1. /\ req'[r].at = label /\ req'[r].id = req[r].id /\ req'[r].op = req[r].op
        /\ \A p \in Requests \ {r} : req'[p] = req[p]
    BY <1>4, SlotMoves DEF Typing, Label
  <2>2. QED
    BY <1>1, <1>2, <2>1, AnswersStill DEF Touches, Told
<1>5. QED
  BY <1>3, <1>4 DEF ForgotDelete, ForgotInsert, ForgotQueue, ForgotQueueFails, ForgotCleanup

\* The steps of resetPassword but the save.
LEMMA ResetAnswers ==
    ASSUME Typing, Typing', Accounts, Answers, NEW r \in Requests,
           ResetDiscard(r) \/ ResetFindUser(r) \/ ResetDelete(r), ~disturbed'
    PROVE  Answers'
<1>1. CASE ResetDiscard(r)
  BY <1>1, AnswersLeft DEF ResetDiscard, history
<1>2. CASE ResetDelete(r)
  BY <1>2, AnswersTold DEF ResetDelete, Told
<1>3. CASE ResetFindUser(r)
  <2>1. UNCHANGED <<users, created>>
    BY <1>3 DEF ResetFindUser
  <2>2. CASE Answer(r) /\ UNCHANGED seen
    BY <2>1, <2>2, AnswersLeft
  <2>3. ASSUME NEW u \in users, ResetTo(r, u)
        PROVE  Answers'
    <3>1. PICK q : /\ q = [req[r] EXCEPT !.at = "save", !.id = u.id,
                                         !.row = [u EXCEPT !.password = req[r].value]]
                   /\ req' = [req EXCEPT ![r] = q] /\ Record(Begun(r, q))
      BY <2>3 DEF ResetTo
    <3>2. q.at = "save" /\ q.id = u.id
      BY <3>1 DEF Typing, TypeOK, Request
    <3>3. req'[r] = q /\ \A p \in Requests \ {r} : req'[p] = req[p]
      BY <3>1 DEF Typing, TypeOK
    <3>4. u.id <= created
      BY DEF Accounts
    <3>5. QED
      BY <2>1, <3>1, <3>2, <3>3, <3>4, AnswersBegun DEF Told
  <2>4. QED
    BY <1>3, <2>2, <2>3 DEF ResetFindUser, AccountsOf
<1>4. QED
  BY <1>1, <1>2, <1>3

\* Steps that are nobody's request.
LEMMA WorldAnswers ==
    ASSUME Typing, Typing', Accounts, Answers, ~disturbed',
           \/ \E e \in Emails : ApproveInsert(e)
           \/ \E link \in Links : Expire(link)
           \/ Crash
           \/ UNCHANGED vars
    PROVE  Answers'
<1>1. CASE (\E link \in Links : Expire(link)) \/ UNCHANGED vars
  <2>1. UNCHANGED <<users, req, seen, created>>
    BY <1>1 DEF Expire, vars, history
  <2>2. QED
    BY <2>1 DEF Answers, Facts, Holds, Gone, WithId, Races, Own
<1>2. CASE Crash
  <2>1. UNCHANGED <<users, seen, created>> /\ \A p \in Requests : req'[p] = Idle
    BY <1>2, Recorded DEF Crash
  <2>2. Idle.id = 0 /\ Idle.at = "idle" /\ 0 <= created
    BY DEF Idle, Holding, Typing, TypeOK
  <2>3. Facts' /\ Gone'
    BY <2>1, IdleTouches DEF Answers, Facts, Holds, Gone, WithId
  <2>4. Races' /\ \A p \in Requests : req'[p].id <= created' /\ Own(p)'
    BY <2>1, <2>2, IdleTouches DEF Races, Contend, Own, Told
  <2>5. QED
    BY <2>3, <2>4 DEF Answers
<1>3. ASSUME NEW e \in Emails, ApproveInsert(e)
      PROVE  Answers'
  <2>1. PICK id, n : /\ id = created + 1
                     /\ n = [id |-> id, email |-> e, password |-> None, session |-> FALSE]
    OBVIOUS
  <2>2. /\ users' = users \cup {n} /\ n.id = id /\ created' = id
        /\ UNCHANGED <<req, seen>>
    BY <1>3, <2>1 DEF ApproveInsert, Insert, history
  <2>3. /\ created \in Nat /\ \A p \in Requests : req[p].id \in Nat
        /\ \A i \in Ids : i \in Nat
    BY CredentialsAssumption DEF Typing, TypeOK, Request, Ids
  <2>4. \A i, c, val : Holds(i, c, val) => Holds(i, c, val)'
    BY <2>2 DEF Holds
  <2>5. \A i \in Nat : i <= created /\ WithId(i) = {} => WithId(i)' = {}
    BY <2>1, <2>2, <2>3 DEF WithId
  <2>6. \A i : WithId(i) # {} => WithId(i)' # {}
    BY <2>2 DEF WithId
  <2>7. Facts'
    <3>1. \A t \in seen.told : t.id <= created'
      BY <2>1, <2>2, <2>3, ToldColumns DEF Answers, Facts
    <3>2. ASSUME NEW t \in seen.told
          PROVE  \E u \in users' : u.id = t.id /\ u[t.column] = t.value
      BY <2>2 DEF Answers, Facts, Holds
    <3>3. QED
      BY <2>2, <3>1, <3>2 DEF Answers, Facts, Holds
  <2>8. Gone'
    <3>1. ASSUME NEW i \in seen.gone
          PROVE  i <= created' /\ WithId(i)' = {}
      BY <2>1, <2>2, <2>3, <2>5, ToldColumns DEF Answers, Gone
    <3>2. QED
      BY <2>2, <3>1 DEF Gone, WithId
  <2>9. Races'
    BY <2>2 DEF Answers, Races
  <2>10. ASSUME NEW p \in Requests
         PROVE  req'[p].id <= created' /\ Own(p)'
    <3>1. PICK i : i = req[p].id
      OBVIOUS
    <3>2. Own(p) /\ i <= created /\ i \in Nat
      BY <2>3, <3>1 DEF Answers
    <3>3. /\ WithId(i) # {} => WithId(i)' # {}
          /\ WithId(i) = {} => WithId(i)' = {}
      BY <2>5, <2>6, <3>2
    <3>4. \A c, val : Holds(i, c, val) => Holds(i, c, val)'
      BY <2>4
    <3>5. Own(p)'
      BY <2>2, <3>1, <3>2, <3>3, <3>4 DEF Own, Holds, Value, WithId
    <3>6. QED
      BY <2>1, <2>2, <2>3, <3>1, <3>2, <3>5
  <2>11. QED
    BY <2>7, <2>8, <2>9, <2>10 DEF Answers
<1>4. QED
  BY <1>1, <1>2, <1>3

\* As long as nothing is disturbed, what was told is so.
LEMMA AnswersInvariance == Spec => []AnswersInv
<1>1. ASSUME Init
      PROVE  AnswersInv
  <2>1. /\ \A r \in Requests : req[r] = Idle
        /\ seen.told = {} /\ seen.gone = {} /\ created = 0
    BY <1>1 DEF Init, NothingSeen
  <2>2. \A r \in Requests : req[r].id <= created /\ Own(r)
    BY <2>1 DEF Own, Told, Idle, Holding
  <2>3. Facts /\ Gone /\ Races
    BY <2>1, IdleTouches DEF Facts, Gone, Races, Contend
  <2>4. QED
    BY <2>2, <2>3 DEF AnswersInv, Answers
<1>2. Typing /\ Typing' /\ Accounts /\ SoloInv /\ AnswersInv /\ [Next]_vars => AnswersInv'
  <2>1. SUFFICES ASSUME Typing, Typing', Accounts, SoloInv, AnswersInv, [Next]_vars, ~disturbed'
                 PROVE  Answers'
    BY DEF AnswersInv
  <2>2. ~disturbed
    BY <2>1, StaysDisturbed DEF vars, history
  <2>3. Solo /\ Answers
    BY <2>1, <2>2 DEF SoloInv, AnswersInv
  <2>4. ASSUME NEW r \in Requests, Step(r)
        PROVE  Answers'
    BY <2>1, <2>3, <2>4, SavingAnswers, ForgotAnswers, ResetAnswers, WritingAnswers,
       TellingAnswers DEF Step
  <2>5. QED
    BY <2>1, <2>3, <2>4, ClientAnswers, WorldAnswers DEF Next
<1>3. QED
  BY <1>1, <1>2, AlwaysTyping, AlwaysAccounts, SoloInvariance, PTL DEF Spec

\* When no login, reset or approval overlaps another request, what an answer
\* said of an account's email or password is so until a request to change it
\* comes, and an account whose deletion was answered stays gone, however the
\* requests of administrators and owners overlap each other and wherever a
\* restart cuts them, between the write and the answer included.
THEOREM AnswersHold == Spec => []AnswersStand
<1>1. AnswersInv => AnswersStand
  BY DEF AnswersInv, Answers, Facts, Gone, Holds, WithId, AnswersStand
<1>2. QED
  BY <1>1, AnswersInvariance, PTL
=============================================================================
