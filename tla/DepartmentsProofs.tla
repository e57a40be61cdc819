--------------------------- MODULE DepartmentsProofs ---------------------------
(***************************************************************************)
(* What the runs check of the departments, for any departments, accounts,  *)
(* requests, cleanups and bounds.                                          *)
(*                                                                         *)
(* A department has its options, and an account keeps its departments: for *)
(* the accounts the invariant, IInv, follows the writes that deletions     *)
(* have yet to do: each would take its department and no other from what   *)
(* the account should have, and of an account that should have anything at *)
(* all there is one at most.  It follows the saves of whole accounts too:  *)
(* until its row is compared, one holds what its account should have.      *)
(*                                                                         *)
(* The tables hold what their types say (TypeInv): what a request read and *)
(* has yet to write is typed as well.                                      *)
(*                                                                         *)
(* What a department deleted by a request that was alone had in the tables *)
(* of the deletion is gone (EmptiedInv): what such a deletion has done     *)
(* follows from the step it is at, and no request in flight still has a    *)
(* deleted department to write.                                            *)
(*                                                                         *)
(* A cleanup that is alone deletes what its summary told (SummaryInv).     *)
(*                                                                         *)
(* The checks of access, which the code writes several times over, agree.  *)
(***************************************************************************)
EXTENDS Departments, FiniteSetTheorems, TLAPS

\* The steps of a request that works on a department.
Labels == {"createSelect", "createUpdate", "createInsert", "optionsSelect", "optionsUpdate",
           "optionsInsert", "update", "nullUsers", "readUsers", "writeUsers", "history",
           "findAnnouncements", "announcements", "devices", "options", "department"}

\* The steps that save an account whole.
Saving == {"entitySelect", "entityUpdate", "entityInsert"}
\* The steps that hold something of accounts.
Holders == {"writeUsers"} \cup Saving
USE DEF Saving, Holders

AccountShape(a) == a = [departmentId |-> a.departmentId, departmentIds |-> a.departmentIds]

\* What a slot holds has the fields its steps read.
SlotShape(q) ==
    /\ "at" \in DOMAIN q
    /\ q.at \in Labels => "dept" \in DOMAIN q
    /\ q.at = "writeUsers" =>
          /\ q = [at |-> "writeUsers", dept |-> q.dept, writes |-> q.writes]
          /\ \A w \in q.writes : w.user \in Users
    /\ q.at \in Saving =>
          /\ q = [at |-> q.at, user |-> q.user, entity |-> q.entity, columns |-> q.columns]
          /\ q.user \in Users
          /\ AccountShape(q.entity)
    /\ q.at = "entitySelect" => "departmentIds" \in q.columns

UsersShape ==
    /\ DOMAIN users \subseteq Users
    /\ \A u \in DOMAIN users :
          users[u] = [departmentId |-> users[u].departmentId,
                      departmentIds |-> users[u].departmentIds]
    /\ member = [u \in Users |-> member[u]]

Shapes ==
    /\ req = [r \in Requests |-> req[r]]
    /\ \A r \in Requests : SlotShape(req[r])
    /\ UsersShape

\* A request that answers for a department without options.
Excuses(q, d) == q.at \in {"optionsSelect", "optionsInsert", "department"} /\ q.dept = d

Pending(q) == IF q.at = "writeUsers" THEN q.writes ELSE {}

\* A deletion's write of an account leaves what the account should have but for
\* its department, and is the only one.
WritesFit ==
    /\ \A r \in Requests : \A w \in Pending(req[r]) :
          member[w.user] = None \/ w.departmentIds = member[w.user] \ {req[r].dept}
    /\ \A r, s \in Requests : \A w \in Pending(req[r]), x \in Pending(req[s]) :
          w.user = x.user => member[w.user] = None \/ (r = s /\ w = x)

\* An account to be saved whole has the departments it should have until the row
\* is compared with it; after that, departments it would write are no longer those.
EntityFits(q) ==
    /\ q.at = "entitySelect" =>
          member[q.user] = None \/ q.entity.departmentIds = member[q.user]
    /\ q.at = "entityUpdate" /\ "departmentIds" \in q.columns => member[q.user] = None
EntitiesFit == \A r \in Requests : EntityFits(req[r])

IInv == Shapes /\ DepartmentHasOptions /\ WritesFit /\ EntitiesFit /\ MembersKept

-----------------------------------------------------------------------------

\* A slot that holds no account to be saved fits, and what the others hold is
\* judged by what their accounts should have.
LEMMA FitsFree ==
    ASSUME NEW q, q.at \notin Saving PROVE EntityFits(q)
BY DEF EntityFits

LEMMA FitsKept ==
    ASSUME NEW q, EntityFits(q), q.at \in Saving => member'[q.user] \in {None, member[q.user]}
    PROVE  EntityFits(q)'
BY DEF EntityFits

LEMMA InvInit == Init => IInv
<1>1. ASSUME Init PROVE IInv
  <2>1. PICK there \in SUBSET Departments :
            /\ departments \in [there -> Names]
            /\ options = there
            /\ users = [u \in Users |-> [departmentId |-> Null, departmentIds |-> there]]
            /\ member = [u \in Users |-> there]
    BY <1>1 DEF Init
  <2>2. req = [r \in Requests |-> Idle]
    BY <1>1 DEF Init
  <2>3. Shapes
    BY <2>1, <2>2 DEF Shapes, SlotShape, UsersShape, Idle, Labels
  <2>4. DepartmentHasOptions
    BY <2>1 DEF DepartmentHasOptions
  <2>5. WritesFit
    BY <2>2 DEF WritesFit, Pending, Idle
  <2>6. MembersKept
    BY <2>1 DEF MembersKept
  <2>7. EntitiesFit
    BY <2>2, FitsFree DEF EntitiesFit, Idle
  <2>8. QED
    BY <2>3, <2>4, <2>5, <2>6, <2>7 DEF IInv
<1>2. QED
  BY <1>1

\* A request takes a step that writes no account's departments: no department
\* loses its options or comes without them unless the request, or cut, answers.
LEMMA SlotStep ==
    ASSUME IInv, NEW r \in Requests, NEW q,
           req' = [req EXCEPT ![r] = q], SlotShape(q), q.at \notin Holders,
           member' = member, cut \subseteq cut',
           UsersShape',
           \A u \in DOMAIN users' :
               u \in DOMAIN users /\ users'[u].departmentIds = users[u].departmentIds,
           \A d \in DOMAIN departments' \ options' :
               /\ d \in DOMAIN departments \ options \/ Excuses(q, d)
               /\ Excuses(req[r], d) => Excuses(q, d) \/ d \in cut'
    PROVE  IInv'
<1>1. req' = [s \in Requests |-> IF s = r THEN q ELSE req[s]]
  BY DEF IInv, Shapes
<1>2. Shapes'
  BY <1>1 DEF IInv, Shapes, SlotShape
<1>3. DepartmentHasOptions'
  <2>1. SUFFICES ASSUME NEW d \in DOMAIN departments' \ options', d \notin cut'
                 PROVE  \E s \in Requests : Excuses(req'[s], d)
    BY DEF DepartmentHasOptions, At, Excuses
  <2>2. CASE Excuses(q, d)
    BY <1>1, <2>2
  <2>3. CASE ~Excuses(q, d)
    <3>1. d \in DOMAIN departments \ options /\ ~Excuses(req[r], d) /\ d \notin cut
      BY <2>1, <2>3
    <3>2. PICK s \in Requests : Excuses(req[s], d)
      BY <3>1 DEF IInv, DepartmentHasOptions, At, Excuses
    <3>3. QED
      BY <1>1, <3>1, <3>2
  <2>4. QED
    BY <2>2, <2>3
<1>4. WritesFit'
  <2>1. \A s \in Requests : Pending(req'[s]) = IF s = r THEN {} ELSE Pending(req[s])
    BY <1>1 DEF Pending
  <2>2. \A s \in Requests : Pending(req[s])' = Pending(req'[s])
    BY DEF Pending
  <2>3. QED
    BY <1>1, <2>1, <2>2 DEF IInv, WritesFit
<1>5. MembersKept'
  BY DEF IInv, MembersKept
<1>6. EntitiesFit'
  BY <1>1 DEF IInv, EntitiesFit, EntityFits
<1>7. QED
  BY <1>2, <1>3, <1>4, <1>5, <1>6 DEF IInv

\* A request that saved an account ends: the departments of accounts that should
\* have any are what they were.
LEMMA SavedStep ==
    ASSUME IInv, NEW r \in Requests,
           req' = [req EXCEPT ![r] = Idle], UNCHANGED <<cut, options, departments>>,
           \A d \in DOMAIN departments' \ options' : ~Excuses(req[r], d),
           UsersShape',
           \A u \in Users : member'[u] \in {None, member[u]},
           \A u \in DOMAIN users' : member'[u] # None =>
               u \in DOMAIN users /\ users'[u].departmentIds = users[u].departmentIds
    PROVE  IInv'
<1>1. req' = [s \in Requests |-> IF s = r THEN Idle ELSE req[s]]
  BY DEF IInv, Shapes
<1>2. Shapes'
  BY <1>1 DEF IInv, Shapes, SlotShape, Idle, Labels
<1>3. DepartmentHasOptions'
  BY <1>1 DEF IInv, DepartmentHasOptions, At, Excuses
<1>4. WritesFit'
  <2>1. \A s \in Requests : Pending(req'[s]) = IF s = r THEN {} ELSE Pending(req[s])
    BY <1>1 DEF Pending, Idle
  <2>2. \A s \in Requests : Pending(req[s])' = Pending(req'[s])
    BY DEF Pending
  <2>3. ASSUME NEW s \in Requests, NEW w \in Pending(req[s])
        PROVE  member'[w.user] \in {None, member[w.user]}
    BY <2>3 DEF IInv, Shapes, SlotShape, Pending
  <2>4. QED
    BY <1>1, <2>1, <2>2, <2>3 DEF IInv, WritesFit
<1>5. MembersKept'
  <2>1. \A u \in DOMAIN users' : u \in Users
    BY DEF UsersShape
  <2>2. QED
    BY <2>1 DEF IInv, MembersKept
<1>6. EntitiesFit'
  <2>1. ASSUME NEW s \in Requests PROVE EntityFits(req[s])'
    <3>1. CASE s = r
      BY <1>1, <3>1 DEF EntityFits, Idle
    <3>2. CASE s # r
      <4>1. /\ EntityFits(req[s]) /\ req'[s] = req[s]
            /\ req[s].at \in Saving => req[s].user \in Users
        BY <1>1, <3>2 DEF IInv, EntitiesFit, Shapes, SlotShape
      <4>2. QED
        BY <4>1 DEF EntityFits
    <3>3. QED
      BY <3>1, <3>2
  <2>2. QED
    BY <2>1 DEF EntitiesFit
<1>7. QED
  BY <1>2, <1>3, <1>4, <1>5, <1>6 DEF IInv

\* A step of a request that is none of the options' business, and writes no account.
LEMMA QuietStep ==
    ASSUME IInv, NEW r \in Requests, NEW q,
           req' = [req EXCEPT ![r] = q], SlotShape(q), q.at \notin Holders,
           UNCHANGED <<member, cut, users, options>>,
           DOMAIN departments' \subseteq DOMAIN departments,
           req[r].at \notin {"optionsSelect", "optionsInsert", "department"}
    PROVE  IInv'
<1>1. UsersShape'
  BY DEF IInv, Shapes, UsersShape
<1>2. \A d : ~Excuses(req[r], d)
  BY DEF Excuses
<1>3. QED
  BY <1>1, <1>2, SlotStep

\* A step that the invariant does not look at.
LEMMA SameStep ==
    ASSUME IInv, UNCHANGED <<member, cut, users, options, departments, req>>
    PROVE  IInv'
<1>1. Shapes'
  BY DEF IInv, Shapes, SlotShape, UsersShape
<1>2. DepartmentHasOptions'
  BY DEF IInv, DepartmentHasOptions, At
<1>3. WritesFit'
  BY DEF IInv, WritesFit, Pending
<1>4. MembersKept'
  BY DEF IInv, MembersKept
<1>5. EntitiesFit'
  BY DEF IInv, EntitiesFit, EntityFits
<1>6. QED
  BY <1>1, <1>2, <1>3, <1>4, <1>5 DEF IInv

LEMMA IdleShape == SlotShape(Idle) /\ Idle.at = "idle"
BY DEF SlotShape, Idle, Labels

\* Goto keeps all but the label: the department and the name among it.
LEMMA GotoShape ==
    ASSUME IInv, NEW r \in Requests, NEW at, Goto(r, at), at \notin Holders,
           at \in Labels => req[r].at \in Labels
    PROVE  \E q : /\ req' = [req EXCEPT ![r] = q]
                  /\ SlotShape(q) /\ q.at = at
                  /\ req[r].at \in Labels => q.dept = req[r].dept
                  /\ "name" \in DOMAIN req[r] => "name" \in DOMAIN q /\ q.name = req[r].name
<1> DEFINE q == [req[r] EXCEPT !.at = at]
<1>1. SlotShape(req[r])
  BY DEF IInv, Shapes
<1>2. /\ SlotShape(q) /\ q.at = at
      /\ req[r].at \in Labels => q.dept = req[r].dept
      /\ "name" \in DOMAIN req[r] => "name" \in DOMAIN q /\ q.name = req[r].name
  BY <1>1 DEF SlotShape, Labels
<1>3. req' = [req EXCEPT ![r] = q]
  BY DEF Goto
<1> HIDE DEF q
<1>4. QED
  BY <1>2, <1>3

-----------------------------------------------------------------------------
(* One lemma per group of actions.                                         *)

\* A request takes a step that writes no account and no options, and may hold an
\* account to be saved.
LEMMA HoldingStep ==
    ASSUME IInv, NEW r \in Requests, NEW q,
           req' = [req EXCEPT ![r] = q], SlotShape(q), q.at \in Saving, EntityFits(q),
           req[r].at \notin {"optionsSelect", "optionsInsert", "department"},
           UNCHANGED <<member, cut, users, options, departments>>
    PROVE  IInv'
<1>1. req' = [s \in Requests |-> IF s = r THEN q ELSE req[s]]
  BY DEF IInv, Shapes
<1>2. Shapes'
  BY <1>1 DEF IInv, Shapes, SlotShape, UsersShape
<1>3. DepartmentHasOptions'
  <2>1. \A e : ~Excuses(req[r], e)
    BY DEF Excuses
  <2>2. QED
    BY <1>1, <2>1 DEF IInv, DepartmentHasOptions, At, Excuses
<1>4. WritesFit'
  <2>1. \A s \in Requests : Pending(req'[s]) = IF s = r THEN {} ELSE Pending(req[s])
    BY <1>1 DEF Pending
  <2>2. \A s \in Requests : Pending(req[s])' = Pending(req'[s])
    BY DEF Pending
  <2>3. QED
    BY <1>1, <2>1, <2>2 DEF IInv, WritesFit
<1>5. MembersKept'
  BY DEF IInv, MembersKept
<1>6. EntitiesFit'
  BY <1>1 DEF IInv, EntitiesFit, EntityFits
<1>7. QED
  BY <1>2, <1>3, <1>4, <1>5, <1>6 DEF IInv

\* What a request holds that has found an account to be saved: the account as it is
\* but for a department that somebody asked for.
Found(r, u, q, d, M) ==
    /\ Begin(r, q, M)
    /\ q.at = "entitySelect" /\ q.user = u /\ u \in DOMAIN users
    /\ q = [at |-> q.at, user |-> q.user, entity |-> q.entity, columns |-> q.columns]
    /\ "departmentIds" \in q.columns
    /\ q.entity = [departmentId |-> d, departmentIds |-> users[u].departmentIds]
    /\ \/ d = users[u].departmentId /\ M = {}
       \/ d \in applications /\ M = {d}

LEMMA FindDoes ==
    ASSUME IInv, NEW r \in Requests, NEW u \in Users, EntityFind(r, u)
    PROVE  \E q, d, M : Found(r, u, q, d, M)
<1> PICK old : old = users[u]
  OBVIOUS
<1>1. u \in DOMAIN users /\ AccountShape(old)
  BY DEF EntityFind, IInv, Shapes, UsersShape, AccountShape
<1>2. ASSUME Begin(r, ToSave(u, old, Columns), {}) PROVE \E q, d, M : Found(r, u, q, d, M)
  <2> PICK q, d : q = ToSave(u, old, Columns) /\ d = old.departmentId
    OBVIOUS
  <2>1. /\ q.at = "entitySelect" /\ q.user = u /\ q.entity = old /\ q.columns = Columns
        /\ q = [at |-> q.at, user |-> q.user, entity |-> q.entity, columns |-> q.columns]
    BY DEF ToSave
  <2>2. old = [departmentId |-> d, departmentIds |-> users[u].departmentIds]
    BY <1>1 DEF AccountShape
  <2>3. Begin(r, q, {}) /\ d = users[u].departmentId
    BY <1>2
  <2>4. Found(r, u, q, d, {})
    BY <1>1, <2>1, <2>2, <2>3 DEF Columns, Found
  <2>5. QED
    BY <2>4
<1>3. ASSUME NEW d \in applications,
             Begin(r, ToSave(u, [old EXCEPT !.departmentId = d],
                             IF d = Null THEN {"departmentIds"} ELSE Columns), {d})
      PROVE  \E q, M : Found(r, u, q, d, M)
  <2> PICK new, columns : /\ new = [old EXCEPT !.departmentId = d]
                          /\ columns = IF d = Null THEN {"departmentIds"} ELSE Columns
    OBVIOUS
  <2> PICK q : q = ToSave(u, new, columns)
    OBVIOUS
  <2>1. /\ q.at = "entitySelect" /\ q.user = u /\ q.entity = new /\ q.columns = columns
        /\ q = [at |-> q.at, user |-> q.user, entity |-> q.entity, columns |-> q.columns]
    BY DEF ToSave
  <2>2. new = [departmentId |-> d, departmentIds |-> users[u].departmentIds]
    BY <1>1 DEF AccountShape
  <2>3. Begin(r, q, {d})
    BY <1>3
  <2>4. "departmentIds" \in columns
    BY DEF Columns
  <2>5. Found(r, u, q, d, {d})
    BY <1>1, <2>1, <2>2, <2>3, <2>4 DEF Found
  <2>6. QED
    BY <2>5
<1>4. \/ Begin(r, ToSave(u, old, Columns), {})
      \/ \E d \in applications :
            Begin(r, ToSave(u, [old EXCEPT !.departmentId = d],
                            IF d = Null THEN {"departmentIds"} ELSE Columns), {d})
  BY Zenon DEF EntityFind
<1>5. QED
  BY <1>2, <1>3, <1>4

LEMMA InvFind ==
    ASSUME IInv, NEW r \in Requests, NEW u \in Users, EntityFind(r, u)
    PROVE  IInv'
<1>1. PICK q, d, M : Found(r, u, q, d, M)
  BY FindDoes
<1> PICK ids : ids = users[u].departmentIds
  OBVIOUS
<1>2. /\ q.at = "entitySelect" /\ q.user = u /\ u \in DOMAIN users
      /\ q = [at |-> q.at, user |-> q.user, entity |-> q.entity, columns |-> q.columns]
      /\ "departmentIds" \in q.columns
      /\ q.entity = [departmentId |-> d, departmentIds |-> ids]
  BY <1>1 DEF Found
<1>3. /\ req' = [req EXCEPT ![r] = q] /\ req[r].at = "idle"
      /\ UNCHANGED <<member, cut, users, options, departments>>
  BY <1>1 DEF Found, EntityFind, Begin, Idle, tables
<1>4. SlotShape(q)
  BY <1>2 DEF SlotShape, AccountShape, Labels
<1>5. EntityFits(q)
  BY <1>2 DEF EntityFits, IInv, MembersKept
<1>6. QED
  BY <1>2, <1>3, <1>4, <1>5, HoldingStep

LEMMA InvClient ==
    ASSUME IInv, NEW r \in Requests, Client(r)
    PROVE  IInv'
<1>1. ASSUME NEW d, NEW name, CreateFind(r, d, name) \/ UpdateFind(r, d, name) PROVE IInv'
  <2>1. PICK at \in {"createSelect", "update"} :
            req' = [req EXCEPT ![r] = [at |-> at, dept |-> d, name |-> name]]
    BY <1>1 DEF CreateFind, UpdateFind, Begin
  <2> PICK q : q = [at |-> at, dept |-> d, name |-> name]
    OBVIOUS
  <2>2. SlotShape(q) /\ q.at \notin Holders
    BY DEF SlotShape
  <2>3. req' = [req EXCEPT ![r] = q] /\ req[r].at = "idle"
    <3>1. req[r] = Idle
      BY <1>1 DEF CreateFind, UpdateFind, Begin
    <3>2. QED
      BY <2>1, <3>1 DEF Idle
  <2>4. UNCHANGED <<member, cut, users, options, departments>>
    BY <1>1 DEF CreateFind, UpdateFind, tables
  <2>5. QED
    BY <2>2, <2>3, <2>4, QuietStep
<1>2. ASSUME NEW d, DeleteFind(r, d) PROVE IInv'
  <2> PICK q : q = Holding("nullUsers", d)
    OBVIOUS
  <2>1. SlotShape(q) /\ q.at \notin Holders
    BY DEF SlotShape, Holding
  <2>2. req' = [req EXCEPT ![r] = q] /\ req[r].at = "idle"
    BY <1>2 DEF DeleteFind, Begin, Idle
  <2>3. UNCHANGED <<member, cut, users, options, departments>>
    BY <1>2 DEF DeleteFind, tables
  <2>4. QED
    BY <2>1, <2>2, <2>3, QuietStep
<1>3. ASSUME NEW access, NEW targets, CreateAnnouncement(r, access, targets) PROVE IInv'
  <2>1. UNCHANGED <<member, cut, users, options, departments, req>>
    BY <1>3 DEF CreateAnnouncement
  <2>2. QED
    BY <2>1, SameStep
<1>4. ASSUME NEW access, NEW d, NEW id, NEW targets, NEW q \in Changes(id, targets),
             FindAnnouncement(r, access, d, q)
      PROVE  IInv'
  <2>1. "at" \in DOMAIN q /\ q.at \notin Labels \cup Holders
    BY DEF Changes, Labels
  <2>2. SlotShape(q) /\ q.at \notin Holders
    BY <2>1 DEF SlotShape, Labels
  <2>3. req' = [req EXCEPT ![r] = q] /\ req[r].at = "idle"
    BY <1>4 DEF FindAnnouncement, Begin, Idle
  <2>4. UNCHANGED <<member, cut, users, options, departments>>
    BY <1>4 DEF FindAnnouncement, tables
  <2>5. QED
    BY <2>2, <2>3, <2>4, QuietStep
<1>a. ASSUME NEW u \in Users, EntityFind(r, u) PROVE IInv'
  BY <1>a, InvFind
<1>5. ASSUME NEW categories, NEW scope, BeginCleanup(r, categories, scope) PROVE IInv'
  <2> PICK told : told = DataSummary(scope)
    OBVIOUS
  <2> PICK q : q = [at |-> "clean", scope |-> scope, todo |-> categories, told |-> told,
                    deleted |-> <<>>, errors |-> {}]
    OBVIOUS
  <2>1. SlotShape(q) /\ q.at \notin Holders
    BY DEF SlotShape, Labels
  <2>2. req' = [req EXCEPT ![r] = q] /\ req[r].at = "idle"
    BY <1>5 DEF BeginCleanup, Begin, Idle
  <2>3. UNCHANGED <<member, cut, users, options, departments>>
    BY <1>5 DEF BeginCleanup, tables
  <2>4. QED
    BY <2>1, <2>2, <2>3, QuietStep
<1>6. QED
  BY <1>1, <1>2, <1>3, <1>4, <1>a, <1>5 DEF Client

LEMMA InvCreate ==
    ASSUME IInv, NEW r \in Requests, Create(r)
    PROVE  IInv'
<1>1. CASE CreateSelect(r)
  <2>1. PICK at \in {"createUpdate", "createInsert"} : Goto(r, at)
    BY <1>1 DEF CreateSelect, Decide
  <2>2. req[r].at = "createSelect" /\ at \in Labels /\ req[r].at \in Labels /\ at \notin Holders
    BY <1>1 DEF CreateSelect, Labels
  <2>3. PICK q : req' = [req EXCEPT ![r] = q] /\ SlotShape(q) /\ q.at = at
    BY <2>1, <2>2, GotoShape
  <2>4. UNCHANGED <<member, cut, users, options, departments>>
    BY <1>1 DEF CreateSelect, tables, record
  <2>5. QED
    BY <2>2, <2>3, <2>4, QuietStep
<1>2. CASE CreateUpdate(r)
  <2>1. Goto(r, "optionsSelect") /\ req[r].at = "createUpdate" /\ req[r].at \in Labels
    BY <1>2 DEF CreateUpdate, Labels
  <2>2. PICK q : req' = [req EXCEPT ![r] = q] /\ SlotShape(q) /\ q.at = "optionsSelect"
    BY <2>1, GotoShape
  <2>3. UNCHANGED <<member, cut, users, options>> /\ DOMAIN departments' = DOMAIN departments
    BY <1>2 DEF CreateUpdate, record
  <2>4. QED
    BY <2>1, <2>2, <2>3, QuietStep
<1>3. CASE CreateInsert(r)
  <2>1. Goto(r, "optionsSelect") /\ req[r].at = "createInsert" /\ req[r].at \in Labels
    BY <1>3 DEF CreateInsert, Labels
  <2>2. PICK q : /\ req' = [req EXCEPT ![r] = q] /\ SlotShape(q) /\ q.at = "optionsSelect"
                 /\ q.dept = req[r].dept
    BY <2>1, GotoShape
  <2>3. /\ UNCHANGED <<member, cut, users, options>>
        /\ DOMAIN departments' = DOMAIN departments \cup {req[r].dept}
    BY <1>3 DEF CreateInsert, record
  <2>4. \A d \in DOMAIN departments' \ options' :
            /\ d \in DOMAIN departments \ options \/ Excuses(q, d)
            /\ ~Excuses(req[r], d)
    BY <2>1, <2>2, <2>3 DEF Excuses
  <2>5. UsersShape'
    BY <2>3 DEF IInv, Shapes, UsersShape
  <2>6. QED
    BY <2>2, <2>3, <2>4, <2>5, SlotStep
<1>4. CASE CreateInsertRefused(r) \/ OptionsUpdate(r) \/ UpdateDepartment(r)
  <2>1. /\ req' = [req EXCEPT ![r] = Idle]
        /\ req[r].at \notin {"optionsSelect", "optionsInsert", "department"}
        /\ UNCHANGED <<member, cut, users, options>>
        /\ DOMAIN departments' = DOMAIN departments
    BY <1>4 DEF CreateInsertRefused, OptionsUpdate, UpdateDepartment, Answer, tables, record
  <2>2. QED
    BY <2>1, IdleShape, QuietStep
<1>5. CASE OptionsSelect(r)
  <2>1. /\ Goto(r, IF req[r].dept \in options THEN "optionsUpdate" ELSE "optionsInsert")
        /\ req[r].at = "optionsSelect"
        /\ UNCHANGED <<member, cut, users, options, departments>>
    BY <1>5 DEF OptionsSelect, Decide, tables, record
  <2>2. PICK at \in {"optionsUpdate", "optionsInsert"} :
            Goto(r, at) /\ (at = "optionsUpdate" => req[r].dept \in options)
    BY <2>1
  <2>3. at \in Labels /\ req[r].at \in Labels /\ at \notin Holders
    BY <2>1 DEF Labels
  <2>4. PICK q : /\ req' = [req EXCEPT ![r] = q] /\ SlotShape(q) /\ q.at = at
                 /\ q.dept = req[r].dept
    BY <2>2, <2>3, GotoShape
  <2>5. \A d \in DOMAIN departments' \ options' :
            d \in DOMAIN departments \ options /\ (Excuses(req[r], d) => Excuses(q, d))
    BY <2>1, <2>2, <2>4 DEF Excuses
  <2>6. UsersShape'
    BY <2>1 DEF IInv, Shapes, UsersShape
  <2>7. QED
    BY <2>1, <2>3, <2>4, <2>5, <2>6, SlotStep
<1>6. CASE OptionsInsert(r)
  <2>1. /\ req' = [req EXCEPT ![r] = Idle]
        /\ req[r].at = "optionsInsert"
        /\ options' = options \cup {req[r].dept}
        /\ UNCHANGED <<member, cut, users, departments>>
    BY <1>6 DEF OptionsInsert, Answer, record
  <2>2. \A d \in DOMAIN departments' \ options' :
            d \in DOMAIN departments \ options /\ ~Excuses(req[r], d)
    BY <2>1 DEF Excuses
  <2>3. UsersShape'
    BY <2>1 DEF IInv, Shapes, UsersShape
  <2>4. Idle.at \notin Holders
    BY IdleShape
  <2>5. QED
    BY <2>1, <2>2, <2>3, <2>4, IdleShape, SlotStep
<1>7. QED
  BY <1>1, <1>2, <1>3, <1>4, <1>5, <1>6 DEF Create

\* The departmentId of accounts is given up, their departmentIds stay.
LEMMA InvNull ==
    ASSUME IInv, NEW r \in Requests, NullUsers(r)
    PROVE  IInv'
<1>1. Goto(r, "readUsers") /\ req[r].at = "nullUsers" /\ req[r].at \in Labels
  BY DEF NullUsers, Labels
<1>2. PICK q : req' = [req EXCEPT ![r] = q] /\ SlotShape(q) /\ q.at = "readUsers"
  BY <1>1, GotoShape
<1>3. UNCHANGED <<member, cut, options, departments>>
  BY DEF NullUsers, record
<1>4. PICK d : users' = [u \in DOMAIN users |->
                  IF users[u].departmentId = d THEN [users[u] EXCEPT !.departmentId = Null]
                  ELSE users[u]]
  BY DEF NullUsers
<1>5. ASSUME NEW u \in DOMAIN users
      PROVE  users'[u] = [departmentId |-> users'[u].departmentId,
                          departmentIds |-> users[u].departmentIds]
  BY <1>4 DEF IInv, Shapes, UsersShape
<1>6. \A u \in DOMAIN users' :
          /\ u \in DOMAIN users
          /\ users'[u].departmentIds = users[u].departmentIds
          /\ users'[u] = [departmentId |-> users'[u].departmentId,
                          departmentIds |-> users'[u].departmentIds]
  BY <1>4, <1>5
<1>7. UsersShape'
  BY <1>3, <1>6 DEF IInv, Shapes, UsersShape
<1>8. \A e \in DOMAIN departments' \ options' :
          e \in DOMAIN departments \ options /\ ~Excuses(req[r], e)
  BY <1>1, <1>3 DEF Excuses
<1>9. QED
  BY <1>2, <1>3, <1>6, <1>7, <1>8, SlotStep

\* A deletion reads the accounts.  What it will write fits, and it is the only one
\* to write where it was the only one to have read.
LEMMA InvRead ==
    ASSUME IInv, NEW r \in Requests, ReadUsers(r)
    PROVE  IInv'
<1> PICK d : d = req[r].dept
  OBVIOUS
<1> PICK having : having = {u \in DOMAIN users : d \in users[u].departmentIds}
  OBVIOUS
<1> PICK writes : writes = {[user |-> u, departmentIds |-> users[u].departmentIds \ {d}] :
                               u \in having}
  OBVIOUS
<1> PICK q : q = [at |-> "writeUsers", dept |-> d, writes |-> writes]
  OBVIOUS
<1>1. /\ req[r].at = "readUsers"
      /\ req' = [req EXCEPT ![r] = q]
      /\ member' = [u \in Users |-> IF u \in having /\ Unwritten(u) THEN None ELSE member[u]]
      /\ UNCHANGED <<cut, users, options, departments>>
  BY DEF ReadUsers, tables
<1>2. req' = [s \in Requests |-> IF s = r THEN q ELSE req[s]]
  BY <1>1 DEF IInv, Shapes
<1>3. /\ having \subseteq DOMAIN users /\ having \subseteq Users
      /\ \A w \in writes : /\ w.user \in having
                           /\ w.departmentIds = users[w.user].departmentIds \ {d}
      /\ \A w, x \in writes : w.user = x.user => w = x
  <2>1. having \subseteq DOMAIN users /\ having \subseteq Users
    BY DEF IInv, Shapes, UsersShape
  <2>2. ASSUME NEW w \in writes
        PROVE  \E u \in having : /\ w = [user |-> u, departmentIds |-> users[u].departmentIds \ {d}]
                                  /\ w.user = u
                                  /\ w.departmentIds = users[u].departmentIds \ {d}
    BY <2>2
  <2>3. \A w \in writes : /\ w.user \in having
                          /\ w.departmentIds = users[w.user].departmentIds \ {d}
    BY <2>2
  <2>4. ASSUME NEW w \in writes, NEW x \in writes, w.user = x.user PROVE w = x
    <3>1. PICK u \in having :
              /\ w = [user |-> u, departmentIds |-> users[u].departmentIds \ {d}]
              /\ w.user = u
      BY <2>2
    <3>2. PICK v \in having :
              /\ x = [user |-> v, departmentIds |-> users[v].departmentIds \ {d}]
              /\ x.user = v
      BY <2>2
    <3>3. u = v
      BY <2>4, <3>1, <3>2
    <3>4. QED
      BY <3>1, <3>2, <3>3
  <2>5. QED
    BY <2>1, <2>3, <2>4
<1>4. SlotShape(q) /\ Pending(q) = writes /\ q.dept = d
  BY <1>3 DEF SlotShape, Pending
<1>5. Shapes'
  <2>1. UsersShape'
    BY <1>1 DEF IInv, Shapes, UsersShape
  <2>2. QED
    BY <1>2, <1>4, <2>1 DEF IInv, Shapes, SlotShape
<1>6. DepartmentHasOptions'
  <2>1. \A e : ~Excuses(req[r], e)
    BY <1>1 DEF Excuses
  <2>2. QED
    BY <1>1, <1>2, <2>1 DEF IInv, DepartmentHasOptions, At, Excuses
<1>7. ASSUME NEW s \in Requests, NEW w \in Pending(req[s])
      PROVE  /\ s # r /\ w.user \in Users
             /\ w.user \in having => member'[w.user] = None
             /\ member'[w.user] = None \/ member'[w.user] = member[w.user]
  <2>1. req[s].at = "writeUsers" /\ w \in req[s].writes
    BY <1>7 DEF Pending
  <2>2. s # r /\ w.user \in Users
    BY <1>1, <2>1 DEF IInv, Shapes, SlotShape
  <2>3. Unwritten(w.user)
    BY <2>1 DEF Unwritten
  <2>4. QED
    BY <1>1, <2>2, <2>3
<1>8. \A u \in having : member'[u] = None \/ member'[u] = users[u].departmentIds
  BY <1>1, <1>3 DEF IInv, MembersKept
<1>9. WritesFit'
  <2>1. ASSUME NEW s \in Requests, NEW w \in Pending(req'[s])
        PROVE  member'[w.user] = None \/ w.departmentIds = member'[w.user] \ {req'[s].dept}
    <3>1. CASE s = r
      BY <1>2, <1>3, <1>4, <1>8, <2>1, <3>1
    <3>2. CASE s # r
      <4>1. req'[s] = req[s] /\ w \in Pending(req[s])
        BY <1>2, <2>1, <3>2
      <4>2. QED
        BY <1>7, <4>1 DEF IInv, WritesFit
    <3>3. QED
      BY <3>1, <3>2
  <2>2. ASSUME NEW s \in Requests, NEW t \in Requests,
               NEW w \in Pending(req'[s]), NEW x \in Pending(req'[t]), w.user = x.user
        PROVE  member'[w.user] = None \/ (s = t /\ w = x)
    <3>1. CASE s = r /\ t = r
      BY <1>2, <1>3, <1>4, <2>2, <3>1
    <3>2. CASE s = r /\ t # r
      <4>1. w \in writes /\ x \in Pending(req[t])
        BY <1>2, <1>4, <2>2, <3>2
      <4>2. QED
        BY <1>3, <1>7, <2>2, <4>1
    <3>3. CASE s # r /\ t = r
      <4>1. x \in writes /\ w \in Pending(req[s])
        BY <1>2, <1>4, <2>2, <3>3
      <4>2. QED
        BY <1>3, <1>7, <2>2, <4>1
    <3>4. CASE s # r /\ t # r
      <4>1. w \in Pending(req[s]) /\ x \in Pending(req[t])
        BY <1>2, <2>2, <3>4
      <4>2. QED
        BY <1>7, <2>2, <4>1 DEF IInv, WritesFit
    <3>5. QED
      BY <3>1, <3>2, <3>3, <3>4
  <2>3. \A s \in Requests : Pending(req[s])' = Pending(req'[s])
    BY DEF Pending
  <2>4. QED
    BY <2>1, <2>2, <2>3 DEF WritesFit
<1>10. MembersKept'
  BY <1>1 DEF IInv, Shapes, UsersShape, MembersKept
<1>11. EntitiesFit'
  <2>1. ASSUME NEW s \in Requests, req[s].at \in Saving
        PROVE  member'[req[s].user] \in {None, member[req[s].user]}
    BY <1>1, <2>1 DEF IInv, Shapes, SlotShape
  <2>2. ASSUME NEW s \in Requests PROVE EntityFits(req[s])'
    <3>1. CASE s = r
      BY <1>2, <3>1 DEF EntityFits
    <3>2. CASE s # r
      <4>1. EntityFits(req[s]) /\ req'[s] = req[s]
        BY <1>2, <3>2 DEF IInv, EntitiesFit
      <4>2. QED
        BY <2>1, <4>1 DEF EntityFits
    <3>3. QED
      BY <3>1, <3>2
  <2>3. QED
    BY <2>2 DEF EntitiesFit
<1>12. QED
  BY <1>5, <1>6, <1>9, <1>10, <1>11 DEF IInv

\* A deletion writes an account: the account has what it should have, and no other
\* write of it is left that matters.
LEMMA InvWrite ==
    ASSUME IInv, NEW r \in Requests, WriteUser(r)
    PROVE  IInv'
<1> PICK d : d = req[r].dept
  OBVIOUS
<1>1. /\ req[r].at = "writeUsers"
      /\ UNCHANGED <<cut, options, departments>>
  BY DEF WriteUser
<1>2. PICK w \in req[r].writes :
          /\ users' = [u \in DOMAIN users |->
                 IF u = w.user THEN [users[u] EXCEPT !.departmentIds = w.departmentIds]
                 ELSE users[u]]
          /\ member' = [member EXCEPT ![w.user] =
                 IF @ = None \/ Held(w.user) THEN None ELSE @ \ {d}]
          /\ req' = [req EXCEPT ![r].writes = @ \ {w}]
  BY DEF WriteUser
<1> PICK user, ids : user = w.user /\ ids = w.departmentIds
  OBVIOUS
<1> PICK q : q = [at |-> "writeUsers", dept |-> d, writes |-> req[r].writes \ {w}]
  OBVIOUS
<1>3. /\ req[r] = [at |-> "writeUsers", dept |-> d, writes |-> req[r].writes]
      /\ user \in Users
      /\ \A x \in req[r].writes : x.user \in Users
  BY <1>1, <1>2 DEF IInv, Shapes, SlotShape
<1>4. req' = [s \in Requests |-> IF s = r THEN q ELSE req[s]]
  <2>1. PICK old, left : old = req[r] /\ left = req[r].writes \ {w}
    OBVIOUS
  <2>2. old = [at |-> "writeUsers", dept |-> d, writes |-> req[r].writes]
    BY <1>3, <2>1
  <2>3. [old EXCEPT !.writes = left] = [at |-> "writeUsers", dept |-> d, writes |-> left]
    BY <2>2
  <2>4. req' = [req EXCEPT ![r] = [old EXCEPT !.writes = left]]
    BY <1>2, <2>1
  <2>5. req' = [req EXCEPT ![r] = q]
    BY <2>1, <2>3, <2>4
  <2>6. QED
    BY <2>5 DEF IInv, Shapes
<1>5. member' = [u \in Users |-> IF u # user \/ member[u] = None THEN member[u]
                                  ELSE IF Held(user) THEN None ELSE member[u] \ {d}]
  <2>1. member = [u \in Users |-> member[u]]
    BY DEF IInv, Shapes, UsersShape
  <2>2. QED
    BY <1>2, <1>3, <2>1
<1>6. /\ Pending(q) = req[r].writes \ {w} /\ Pending(req[r]) = req[r].writes /\ q.dept = d
      /\ SlotShape(q)
  BY <1>1, <1>3 DEF Pending, SlotShape
<1>7. ASSUME NEW u \in DOMAIN users
      PROVE  /\ users'[u].departmentIds = IF u = user THEN ids ELSE users[u].departmentIds
             /\ users'[u] = [departmentId |-> users'[u].departmentId,
                             departmentIds |-> users'[u].departmentIds]
  <2>1. PICK old, new : old = users[u] /\ new = users'[u]
    OBVIOUS
  <2>2. old = [departmentId |-> old.departmentId, departmentIds |-> old.departmentIds]
    BY <2>1 DEF IInv, Shapes, UsersShape
  <2>3. new = IF u = user THEN [old EXCEPT !.departmentIds = ids] ELSE old
    BY <1>2, <2>1
  <2>4. /\ new.departmentIds = IF u = user THEN ids ELSE old.departmentIds
        /\ new = [departmentId |-> new.departmentId, departmentIds |-> new.departmentIds]
    BY <2>2, <2>3
  <2>5. QED
    BY <2>1, <2>4
<1>8. DOMAIN users' = DOMAIN users
  BY <1>2
<1>9. \A u \in DOMAIN users :
          users'[u].departmentIds = IF u = user THEN ids ELSE users[u].departmentIds
  BY <1>7
<1>10. UsersShape'
  <2>1. \A u \in DOMAIN users : users'[u] = [departmentId |-> users'[u].departmentId,
                                             departmentIds |-> users'[u].departmentIds]
    BY <1>7
  <2>2. QED
    BY <1>5, <1>8, <2>1 DEF IInv, Shapes, UsersShape
<1>11. Shapes'
  BY <1>4, <1>6, <1>10 DEF IInv, Shapes, SlotShape
<1>12. DepartmentHasOptions'
  <2>1. \A e : ~Excuses(req[r], e)
    BY <1>1 DEF Excuses
  <2>2. QED
    BY <1>1, <1>4, <2>1 DEF IInv, DepartmentHasOptions, At, Excuses
<1>13. member[user] = None \/ ids = member[user] \ {d}
  BY <1>2, <1>6 DEF IInv, WritesFit
<1>14. ASSUME NEW s \in Requests, NEW x \in Pending(req'[s])
       PROVE  /\ x \in Pending(req[s]) /\ req'[s].dept = req[s].dept
              /\ x.user = user => member'[user] = None
  <2>1. x \in Pending(req[s]) /\ req'[s].dept = req[s].dept /\ ~(s = r /\ x = w)
    BY <1>4, <1>6, <1>14
  <2>2. x.user = user => member[user] = None
    BY <1>2, <1>6, <2>1 DEF IInv, WritesFit
  <2>3. QED
    BY <1>3, <1>5, <2>1, <2>2
<1>15. WritesFit'
  <2>1. ASSUME NEW s \in Requests, NEW x \in Pending(req'[s])
        PROVE  x.user \in Users /\ (x.user # user => member'[x.user] = member[x.user])
    <3>1. x \in Pending(req[s])
      BY <1>14, <2>1
    <3>2. x.user \in Users
      BY <3>1 DEF IInv, Shapes, SlotShape, Pending
    <3>3. QED
      BY <1>5, <3>2
  <2>2. ASSUME NEW s \in Requests, NEW x \in Pending(req'[s])
        PROVE  member'[x.user] = None \/ x.departmentIds = member'[x.user] \ {req'[s].dept}
    BY <1>14, <2>1, <2>2 DEF IInv, WritesFit
  <2>3. ASSUME NEW s \in Requests, NEW t \in Requests,
               NEW x \in Pending(req'[s]), NEW y \in Pending(req'[t]), x.user = y.user
        PROVE  member'[x.user] = None \/ (s = t /\ x = y)
    BY <1>14, <2>1, <2>3 DEF IInv, WritesFit
  <2>4. \A s \in Requests : Pending(req[s])' = Pending(req'[s])
    BY DEF Pending
  <2>5. QED
    BY <2>2, <2>3, <2>4 DEF WritesFit
<1>16. MembersKept'
  <2>1. ASSUME NEW u \in DOMAIN users, member'[u] # None
        PROVE  users'[u].departmentIds = member'[u]
    <3>1. u \in Users
      BY DEF IInv, Shapes, UsersShape
    <3>2. CASE u = user
      BY <1>5, <1>9, <1>13, <2>1, <3>1, <3>2
    <3>3. CASE u # user
      BY <1>5, <1>9, <2>1, <3>1, <3>3 DEF IInv, MembersKept
    <3>4. QED
      BY <3>2, <3>3
  <2>2. QED
    BY <1>8, <2>1 DEF MembersKept
<1>17. EntitiesFit'
  <2>1. ASSUME NEW s \in Requests PROVE EntityFits(req[s])'
    <3>1. CASE s = r
      BY <1>4, <3>1 DEF EntityFits
    <3>2. CASE s # r
      <4>1. /\ EntityFits(req[s]) /\ req'[s] = req[s]
            /\ req[s].at \in Saving => req[s].user \in Users
            /\ req[s].at = "entitySelect" => "departmentIds" \in req[s].columns
        BY <1>4, <3>2 DEF IInv, EntitiesFit, Shapes, SlotShape
      <4>2. CASE /\ req[s].at \in {"entitySelect", "entityUpdate"} /\ req[s].user = user
                 /\ "departmentIds" \in req[s].columns
        <5>1. Held(user)
          BY <4>2 DEF Held
        <5>2. member'[user] = None
          BY <1>3, <1>5, <5>1
        <5>3. QED
          BY <4>1, <4>2, <5>2 DEF EntityFits
      <4>3. CASE req[s].at \in {"entitySelect", "entityUpdate"} /\ req[s].user # user
        <5>1. member'[req[s].user] = member[req[s].user]
          BY <1>5, <4>1, <4>3
        <5>2. QED
          BY <4>1, <5>1 DEF EntityFits
      <4>4. CASE req[s].at = "entityUpdate" /\ "departmentIds" \notin req[s].columns
        BY <4>1, <4>4 DEF EntityFits
      <4>5. CASE req[s].at \notin {"entitySelect", "entityUpdate"}
        BY <4>1, <4>5 DEF EntityFits
      <4>6. QED
        BY <4>1, <4>2, <4>3, <4>4, <4>5
    <3>3. QED
      BY <3>1, <3>2
  <2>2. QED
    BY <2>1 DEF EntitiesFit
<1>18. QED
  BY <1>11, <1>12, <1>15, <1>16, <1>17 DEF IInv

\* Steps of a deletion that touch neither accounts, departments nor options.
LEMMA InvDeleteQuiet ==
    ASSUME IInv, NEW r \in Requests,
           \/ DeleteTimetables(r) \/ DeleteHistory(r) \/ FindAnnouncements(r)
           \/ DeleteAnnouncements(r) \/ DeleteDevices(r)
    PROVE  IInv'
<1>1. /\ UNCHANGED <<member, cut, users, options, departments>>
      /\ req[r].at \in {"writeUsers", "history", "findAnnouncements", "announcements", "devices"}
  BY DEF DeleteTimetables, DeleteHistory, FindAnnouncements, DeleteAnnouncements,
         DeleteDevices, tables, record
<1>2. ASSUME NEW at \in {"findAnnouncements", "options"}, Goto(r, at) PROVE IInv'
  <2>1. req[r].at \in Labels /\ at \in Labels /\ at \notin Holders
    BY <1>1 DEF Labels
  <2>2. PICK q : req' = [req EXCEPT ![r] = q] /\ SlotShape(q) /\ q.at = at
    BY <1>2, <2>1, GotoShape
  <2>3. QED
    BY <1>1, <2>1, <2>2, QuietStep
<1>3. ASSUME NEW at \in {"history", "devices"}, NEW d, req' = [req EXCEPT ![r] = Holding(at, d)]
      PROVE  IInv'
  <2>1. SlotShape(Holding(at, d)) /\ Holding(at, d).at \notin Holders
    BY DEF SlotShape, Holding
  <2>2. QED
    BY <1>1, <1>3, <2>1, QuietStep
<1>4. ASSUME NEW d, NEW ids,
             req' = [req EXCEPT ![r] = [at |-> "announcements", dept |-> d, ids |-> ids]]
      PROVE  IInv'
  <2> PICK q : q = [at |-> "announcements", dept |-> d, ids |-> ids]
    OBVIOUS
  <2>1. SlotShape(q) /\ q.at \notin Holders
    BY DEF SlotShape
  <2>2. QED
    BY <1>1, <1>4, <2>1, QuietStep
<1>5. CASE DeleteTimetables(r) \/ DeleteAnnouncements(r)
  BY <1>3, <1>5 DEF DeleteTimetables, DeleteAnnouncements
<1>6. CASE DeleteHistory(r) \/ DeleteDevices(r)
  BY <1>2, <1>6 DEF DeleteHistory, DeleteDevices
<1>7. CASE FindAnnouncements(r)
  <2> PICK ids : ids = {a.id : a \in {a \in announcements : {req[r].dept, "all"} \cap a.targets # {}}}
    OBVIOUS
  <2>1. req' = [req EXCEPT ![r] = [at |-> "announcements", dept |-> req[r].dept, ids |-> ids]]
    BY <1>7 DEF FindAnnouncements
  <2>2. QED
    BY <1>4, <2>1
<1>8. QED
  BY <1>5, <1>6, <1>7

\* The options go just before the department does.
LEMMA InvDeleteEnd ==
    ASSUME IInv, NEW r \in Requests, DeleteOptions(r) \/ RemoveDepartment(r)
    PROVE  IInv'
<1>1. UNCHANGED <<member, cut, users>>
  BY DEF DeleteOptions, RemoveDepartment, record
<1>2. UsersShape'
  BY <1>1 DEF IInv, Shapes, UsersShape
<1>3. CASE DeleteOptions(r)
  <2>1. /\ Goto(r, "department") /\ req[r].at = "options" /\ req[r].at \in Labels
        /\ options' = options \ {req[r].dept} /\ UNCHANGED departments
    BY <1>3 DEF DeleteOptions, Labels
  <2>2. PICK q : /\ req' = [req EXCEPT ![r] = q] /\ SlotShape(q) /\ q.at = "department"
                 /\ q.dept = req[r].dept
    BY <2>1, GotoShape
  <2>3. \A d \in DOMAIN departments' \ options' :
            /\ d \in DOMAIN departments \ options \/ Excuses(q, d)
            /\ ~Excuses(req[r], d)
    BY <2>1, <2>2 DEF Excuses
  <2>4. QED
    BY <1>1, <1>2, <2>2, <2>3, SlotStep
<1>4. CASE RemoveDepartment(r)
  <2>1. /\ req' = [req EXCEPT ![r] = Idle]
        /\ DOMAIN departments' = DOMAIN departments \ {req[r].dept} /\ UNCHANGED options
    BY <1>4 DEF RemoveDepartment, Answer
  <2>2. \A d \in DOMAIN departments' \ options' :
            d \in DOMAIN departments \ options /\ ~Excuses(req[r], d)
    BY <2>1 DEF Excuses
  <2>3. Idle.at \notin Holders
    BY IdleShape
  <2>4. QED
    BY <1>1, <1>2, <2>1, <2>2, <2>3, IdleShape, SlotStep
<1>5. QED
  BY <1>3, <1>4

LEMMA InvAnnounce ==
    ASSUME IInv, NEW r \in Requests, Announce(r) \/ CleanAnswer(r)
    PROVE  IInv'
<1>1. /\ req' = [req EXCEPT ![r] = Idle]
      /\ req[r].at \notin {"optionsSelect", "optionsInsert", "department"}
      /\ UNCHANGED <<member, cut, users, options, departments>>
  BY DEF Announce, CleanAnswer, UpdateAnnouncement, PinAnnouncement, RemoveAnnouncement,
         Answer, tables, record
<1>2. QED
  BY <1>1, IdleShape, QuietStep

\* What the save of an account does next: it is compared with the row, which it may
\* change, or it comes back.
LEMMA SelectDoes ==
    ASSUME IInv, NEW r \in Requests, EntitySelect(r)
    PROVE  \E q : /\ req' = [req EXCEPT ![r] = q] /\ SlotShape(q)
                  /\ q.at \in {"entityUpdate", "entityInsert"}
                  /\ q.user = req[r].user /\ q.entity = req[r].entity
                  /\ q.at = "entityUpdate" =>
                        /\ q.user \in DOMAIN users
                        /\ \A c \in q.columns : q.entity[c] # users[q.user][c]
<1> PICK old, u, e : old = req[r] /\ u = req[r].user /\ e = req[r].entity
  OBVIOUS
<1> PICK compared : compared = req[r].columns
  OBVIOUS
<1>1. /\ old.at = "entitySelect" /\ SlotShape(old)
      /\ old = [at |-> "entitySelect", user |-> u, entity |-> e, columns |-> compared]
      /\ u \in Users /\ AccountShape(e)
  BY DEF EntitySelect, IInv, Shapes, SlotShape
<1>2. CASE u \in DOMAIN users
  <2>c. PICK differing : differing = {c \in compared : e[c] # users[u][c]}
    OBVIOUS
  <2> PICK q : q = [at |-> "entityUpdate", user |-> u, entity |-> e, columns |-> differing]
    OBVIOUS
  <2>4. req' = [req EXCEPT ![r] = q]
    BY <1>2, <2>c DEF EntitySelect
  <2>5. /\ q.at = "entityUpdate" /\ q.user = u /\ q.entity = e /\ q.columns = differing
        /\ SlotShape(q)
    BY <1>1 DEF SlotShape, Labels
  <2>6. QED
    BY <1>2, <2>4, <2>5, <2>c
<1>3. CASE u \notin DOMAIN users
  <2> PICK q : q = [at |-> "entityInsert", user |-> u, entity |-> e, columns |-> compared]
    OBVIOUS
  <2>1. [old EXCEPT !.at = "entityInsert"] = q
    BY <1>1
  <2>2. req' = [req EXCEPT ![r] = [old EXCEPT !.at = "entityInsert"]]
    BY <1>3 DEF EntitySelect, Goto
  <2>3. /\ q.at = "entityInsert" /\ q.user = u /\ q.entity = e /\ SlotShape(q)
    BY <1>1 DEF SlotShape, Labels
  <2>4. QED
    BY <2>1, <2>2, <2>3
<1>4. QED
  BY <1>2, <1>3

LEMMA UpdateDoes ==
    ASSUME IInv, NEW r \in Requests, EntityUpdate(r)
    PROVE  /\ DOMAIN users' = DOMAIN users
           /\ \A u \in DOMAIN users :
                 /\ AccountShape(users'[u])
                 /\ \/ users'[u].departmentId = users[u].departmentId
                    \/ users'[u].departmentId = req[r].entity.departmentId
                 /\ \/ users'[u].departmentIds = users[u].departmentIds
                    \/ /\ users'[u].departmentIds = req[r].entity.departmentIds
                       /\ u = req[r].user /\ "departmentIds" \in req[r].columns
<1> PICK user, e, columns : user = req[r].user /\ e = req[r].entity /\ columns = req[r].columns
  OBVIOUS
<1>1. users' = [u \in DOMAIN users |->
           IF u = user
           THEN [c \in DOMAIN users[u] |-> IF c \in columns THEN e[c] ELSE users[u][c]]
           ELSE users[u]]
  BY DEF EntityUpdate
<1>2. ASSUME NEW u \in DOMAIN users
      PROVE  /\ AccountShape(users'[u])
             /\ users'[u].departmentId \in {users[u].departmentId, e.departmentId}
             /\ \/ users'[u].departmentIds = users[u].departmentIds
                \/ /\ users'[u].departmentIds = e.departmentIds
                   /\ u = user /\ "departmentIds" \in columns
  <2> PICK old, new : old = users[u] /\ new = users'[u]
    OBVIOUS
  <2>1. old = [departmentId |-> old.departmentId, departmentIds |-> old.departmentIds]
    BY DEF IInv, Shapes, UsersShape
  <2>2. CASE u = user
    <3>1. new = [c \in DOMAIN old |-> IF c \in columns THEN e[c] ELSE old[c]]
      BY <1>1, <2>2
    <3>2. DOMAIN old = {"departmentId", "departmentIds"}
      BY <2>1
    <3>3. /\ new.departmentId = IF "departmentId" \in columns THEN e.departmentId
                                ELSE old.departmentId
          /\ new.departmentIds = IF "departmentIds" \in columns THEN e.departmentIds
                                 ELSE old.departmentIds
      BY <3>1, <3>2
    <3>4. new = [departmentId |-> new.departmentId, departmentIds |-> new.departmentIds]
      BY <3>1, <3>2
    <3>5. QED
      BY <2>2, <3>3, <3>4 DEF AccountShape
  <2>3. CASE u # user
    <3>1. new = old
      BY <1>1, <2>3
    <3>2. QED
      BY <2>1, <3>1 DEF AccountShape
  <2>4. QED
    BY <2>2, <2>3
<1>3. QED
  BY <1>1, <1>2

LEMMA InsertDoes ==
    ASSUME IInv, NEW r \in Requests, EntityInsert(r)
    PROVE  /\ DOMAIN users' = DOMAIN users \cup {req[r].user}
           /\ \A u \in DOMAIN users : users'[u] = users[u]
           /\ req[r].user \notin DOMAIN users => users'[req[r].user] = req[r].entity
           /\ member' = [u \in Users |-> IF u = req[r].user /\ u \notin DOMAIN users THEN None
                                           ELSE member[u]]
           /\ req[r].user \in Users /\ AccountShape(req[r].entity)
<1>1. req[r].user \in Users /\ AccountShape(req[r].entity) /\ member = [u \in Users |-> member[u]]
  BY DEF EntityInsert, IInv, Shapes, UsersShape, SlotShape
<1> PICK user : user = req[r].user
  OBVIOUS
<1>2. /\ users' = [v \in DOMAIN users \cup {user} |->
             IF v \in DOMAIN users THEN users[v] ELSE req[r].entity]
      /\ member' = [member EXCEPT ![user] = IF user \in DOMAIN users THEN @ ELSE None]
  BY DEF EntityInsert
<1>3. member' = [u \in Users |-> IF u = user /\ u \notin DOMAIN users THEN None ELSE member[u]]
  BY <1>1, <1>2
<1>4. QED
  BY <1>1, <1>2, <1>3

\* The save of an account: what it writes was read when it was what the account
\* should have, or nobody says any more what that is.
LEMMA InvSave ==
    ASSUME IInv, NEW r \in Requests, Save(r)
    PROVE  IInv'
<1>1. /\ UNCHANGED <<cut, options, departments>>
      /\ req[r].at \in Saving /\ SlotShape(req[r]) /\ EntityFits(req[r])
  BY DEF Save, EntitySelect, EntityUpdate, EntityInsert, tables, record, IInv, Shapes, EntitiesFit
<1>2. \A d \in DOMAIN departments' \ options' :
          d \in DOMAIN departments \ options /\ ~Excuses(req[r], d)
  BY <1>1 DEF Excuses
<1>3. CASE EntitySelect(r)
  <2>1. PICK q : /\ req' = [req EXCEPT ![r] = q] /\ SlotShape(q)
                 /\ q.at \in {"entityUpdate", "entityInsert"}
                 /\ q.user = req[r].user /\ q.entity = req[r].entity
                 /\ q.at = "entityUpdate" =>
                       /\ q.user \in DOMAIN users
                       /\ \A c \in q.columns : q.entity[c] # users[q.user][c]
    BY <1>3, SelectDoes
  <2>2. req[r].at = "entitySelect" /\ UNCHANGED <<member, users>>
    BY <1>3 DEF EntitySelect, tables, record
  <2>3. ASSUME q.at = "entityUpdate", "departmentIds" \in q.columns PROVE member[q.user] = None
    <3>1. q.entity.departmentIds # users[q.user].departmentIds /\ q.user \in DOMAIN users
      BY <2>1, <2>3
    <3>2. member[q.user] # None => users[q.user].departmentIds = member[q.user]
      BY <3>1 DEF IInv, MembersKept
    <3>3. member[q.user] = None \/ q.entity.departmentIds = member[q.user]
      BY <1>1, <2>1, <2>2 DEF EntityFits
    <3>4. QED
      BY <3>1, <3>2, <3>3
  <2>4. EntityFits(q)
    BY <2>1, <2>3 DEF EntityFits
  <2>5. QED
    BY <1>1, <2>1, <2>2, <2>4, HoldingStep
<1>4. CASE EntityUpdate(r)
  <2>1. /\ req' = [req EXCEPT ![r] = Idle] /\ req[r].at = "entityUpdate" /\ UNCHANGED member
    BY <1>4 DEF EntityUpdate, Answer, record
  <2>2. /\ DOMAIN users' = DOMAIN users
        /\ \A u \in DOMAIN users :
              /\ AccountShape(users'[u])
              /\ \/ users'[u].departmentIds = users[u].departmentIds
                 \/ u = req[r].user /\ "departmentIds" \in req[r].columns
    BY <1>4, UpdateDoes
  <2>3. UsersShape'
    BY <2>1, <2>2 DEF IInv, Shapes, UsersShape, AccountShape
  <2>4. ASSUME NEW u \in DOMAIN users, member[u] # None
        PROVE  users'[u].departmentIds = users[u].departmentIds
    BY <1>1, <2>1, <2>2, <2>4 DEF EntityFits
  <2>5. QED
    BY <1>1, <1>2, <2>1, <2>2, <2>3, <2>4, IdleShape, SavedStep
<1>5. CASE EntityInsert(r)
  <2>1. req' = [req EXCEPT ![r] = Idle]
    BY <1>5 DEF EntityInsert, Answer
  <2>2. /\ DOMAIN users' = DOMAIN users \cup {req[r].user}
        /\ \A u \in DOMAIN users : users'[u] = users[u]
        /\ req[r].user \notin DOMAIN users => users'[req[r].user] = req[r].entity
        /\ member' = [u \in Users |-> IF u = req[r].user /\ u \notin DOMAIN users THEN None
                                        ELSE member[u]]
        /\ req[r].user \in Users /\ AccountShape(req[r].entity)
    BY <1>5, InsertDoes
  <2>3. UsersShape'
    BY <2>2 DEF IInv, Shapes, UsersShape, AccountShape
  <2>4. ASSUME NEW u \in DOMAIN users', member'[u] # None
        PROVE  /\ member'[u] = member[u] /\ u \in DOMAIN users
               /\ users'[u].departmentIds = users[u].departmentIds
    <3>1. u \in Users
      BY <2>2 DEF IInv, Shapes, UsersShape
    <3>2. QED
      BY <2>2, <2>4, <3>1
  <2>5. \A u \in Users : member'[u] \in {None, member[u]}
    BY <2>2
  <2>6. QED
    BY <1>1, <1>2, <2>1, <2>3, <2>4, <2>5, IdleShape, SavedStep
<1>6. QED
  BY <1>3, <1>4, <1>5 DEF Save

\* A cleanup deletes rows and accounts whole.
LEMMA InvClean ==
    ASSUME IInv, NEW r \in Requests, Clean(r) \/ CleanFails(r)
    PROVE  IInv'
<1>1. SlotShape(req[r]) /\ req[r].at = "clean"
  BY DEF IInv, Shapes, Clean, CleanFails
<1>2. PICK q : req' = [req EXCEPT ![r] = q] /\ "at" \in DOMAIN q /\ q.at = "clean"
  <2>1. CASE Clean(r)
    <3>1. PICK todo, deleted :
              req' = [req EXCEPT ![r].todo = todo, ![r].deleted = deleted]
      BY <2>1 DEF Clean
    <3> PICK q : q = [req[r] EXCEPT !.todo = todo, !.deleted = deleted]
      OBVIOUS
    <3>2. req' = [req EXCEPT ![r] = q]
      BY <3>1 DEF IInv, Shapes
    <3>3. "at" \in DOMAIN q /\ q.at = "clean"
      BY <1>1 DEF SlotShape
    <3>4. QED
      BY <3>2, <3>3
  <2>2. CASE CleanFails(r)
    <3>1. PICK todo, errors :
              req' = [req EXCEPT ![r].todo = todo, ![r].errors = errors]
      BY <2>2 DEF CleanFails
    <3> PICK q : q = [req[r] EXCEPT !.todo = todo, !.errors = errors]
      OBVIOUS
    <3>2. req' = [req EXCEPT ![r] = q]
      BY <3>1 DEF IInv, Shapes
    <3>3. "at" \in DOMAIN q /\ q.at = "clean"
      BY <1>1 DEF SlotShape
    <3>4. QED
      BY <3>2, <3>3
  <2>3. QED
    BY <2>1, <2>2
<1>3. SlotShape(q) /\ q.at \notin Holders
  BY <1>2 DEF SlotShape, Labels
<1>4. UNCHANGED <<member, cut, options>>
  BY DEF Clean, CleanFails, tables, record
<1>5. /\ DOMAIN departments' \subseteq DOMAIN departments
      /\ \A u \in DOMAIN users' : u \in DOMAIN users /\ users'[u] = users[u]
  BY DEF Clean, CleanFails, tables
<1>6. UsersShape'
  BY <1>4, <1>5 DEF IInv, Shapes, UsersShape
<1>7. \A d \in DOMAIN departments' \ options' :
          d \in DOMAIN departments \ options /\ ~Excuses(req[r], d)
  BY <1>1, <1>4, <1>5 DEF Excuses
<1>8. QED
  BY <1>2, <1>3, <1>4, <1>5, <1>6, <1>7, SlotStep

\* A request ends early: cut answers for what it leaves.
LEMMA InvFails ==
    ASSUME IInv, NEW r \in Requests, StatementFails(r)
    PROVE  IInv'
<1>1. /\ req' = [req EXCEPT ![r] = Idle]
      /\ cut' = cut \cup Mentioned(r)
      /\ UNCHANGED <<member, users, options, departments>>
  BY DEF StatementFails, Answer, tables
<1>2. ASSUME NEW d, Excuses(req[r], d) PROVE d \in cut'
  <2>1. "dept" \in DOMAIN req[r] /\ req[r].dept = d
    BY <1>2 DEF IInv, Shapes, SlotShape, Excuses, Labels
  <2>2. QED
    BY <1>1, <2>1 DEF Mentioned
<1>3. UsersShape'
  BY <1>1 DEF IInv, Shapes, UsersShape
<1>4. Idle.at \notin Holders
  BY IdleShape
<1>5. QED
  BY <1>1, <1>2, <1>3, <1>4, IdleShape, SlotStep

LEMMA InvCrash ==
    ASSUME IInv, Crash
    PROVE  IInv'
<1>1. /\ req' = [r \in Requests |-> Idle]
      /\ cut' = cut \cup UNION {Mentioned(r) : r \in Requests}
      /\ UNCHANGED <<member, users, options, departments>>
  BY DEF Crash, tables
<1>2. Shapes'
  BY <1>1, IdleShape DEF IInv, Shapes, SlotShape, UsersShape
<1>3. DepartmentHasOptions'
  <2>1. ASSUME NEW r \in Requests, NEW d, Excuses(req[r], d) PROVE d \in cut'
    <3>1. "dept" \in DOMAIN req[r] /\ req[r].dept = d
      BY <2>1 DEF IInv, Shapes, SlotShape, Excuses, Labels
    <3>2. d \in Mentioned(r)
      BY <3>1 DEF Mentioned
    <3>3. QED
      BY <1>1, <3>2
  <2>2. QED
    BY <1>1, <2>1 DEF IInv, DepartmentHasOptions, At, Excuses
<1>4. WritesFit'
  BY <1>1 DEF WritesFit, Pending, Idle
<1>5. MembersKept'
  BY <1>1 DEF IInv, MembersKept
<1>6. EntitiesFit'
  BY <1>1 DEF EntitiesFit, EntityFits, Idle
<1>7. QED
  BY <1>2, <1>3, <1>4, <1>5, <1>6 DEF IInv

\* An update of an account by another module sets what it should have, unless a
\* deletion or the save of a whole account is about to write it.
LEMMA InvAccountUpdated ==
    ASSUME IInv, NEW u \in DOMAIN users, NEW d, NEW ids, AccountUpdated(u, d, ids)
    PROVE  IInv'
<1>1. /\ users' = [users EXCEPT ![u] = [departmentId |-> d, departmentIds |-> ids]]
      /\ member' = [member EXCEPT ![u] = IF Unwritten(u) \/ Held(u) THEN None ELSE ids]
      /\ UNCHANGED <<req, cut, options, departments>>
  BY DEF AccountUpdated, Meanwhile
<1>2. u \in Users /\ member = [v \in Users |-> member[v]]
  BY DEF IInv, Shapes, UsersShape
<1>3. UsersShape'
  <2>1. DOMAIN users' = DOMAIN users
    BY <1>1
  <2>2. ASSUME NEW v \in DOMAIN users
        PROVE  users'[v] = [departmentId |-> users'[v].departmentId,
                            departmentIds |-> users'[v].departmentIds]
    <3>1. PICK new, old : old = users[v] /\ new = [departmentId |-> d, departmentIds |-> ids]
      OBVIOUS
    <3>2. old = [departmentId |-> old.departmentId, departmentIds |-> old.departmentIds]
      BY <3>1 DEF IInv, Shapes, UsersShape
    <3>3. new = [departmentId |-> new.departmentId, departmentIds |-> new.departmentIds]
      BY <3>1
    <3>4. users'[v] = new \/ users'[v] = old
      BY <1>1, <3>1
    <3>5. QED
      BY <3>2, <3>3, <3>4
  <2>3. member' = [v \in Users |-> member'[v]]
    BY <1>1, <1>2
  <2>4. QED
    BY <2>1, <2>2, <2>3 DEF IInv, Shapes, UsersShape
<1>4. Shapes'
  BY <1>1, <1>3 DEF IInv, Shapes, SlotShape
<1>5. DepartmentHasOptions'
  BY <1>1 DEF IInv, DepartmentHasOptions, At
<1>6. ASSUME NEW r \in Requests, NEW w \in Pending(req[r])
      PROVE  member'[w.user] = None \/ (w.user # u /\ member'[w.user] = member[w.user])
  <2>1. req[r].at = "writeUsers" /\ w \in req[r].writes /\ w.user \in Users
    BY <1>6 DEF IInv, Shapes, SlotShape, Pending
  <2>2. w.user = u => Unwritten(u)
    BY <2>1 DEF Unwritten
  <2>3. QED
    BY <1>1, <1>2, <2>1, <2>2
<1>7. WritesFit'
  <2>1. \A r \in Requests : Pending(req[r])' = Pending(req[r])
    BY <1>1 DEF Pending
  <2>2. ASSUME NEW r \in Requests, NEW w \in Pending(req[r])
        PROVE  member'[w.user] = None \/ w.departmentIds = member'[w.user] \ {req[r].dept}
    BY <1>6, <2>2 DEF IInv, WritesFit
  <2>3. ASSUME NEW r \in Requests, NEW s \in Requests,
               NEW w \in Pending(req[r]), NEW x \in Pending(req[s]), w.user = x.user
        PROVE  member'[w.user] = None \/ (r = s /\ w = x)
    BY <1>6, <2>3 DEF IInv, WritesFit
  <2>4. QED
    BY <1>1, <2>1, <2>2, <2>3 DEF WritesFit
<1>8. MembersKept'
  <2>1. ASSUME NEW v \in DOMAIN users, member'[v] # None
        PROVE  users'[v].departmentIds = member'[v]
    <3>1. CASE v = u
      BY <1>1, <1>2, <2>1, <3>1
    <3>2. CASE v # u
      BY <1>1, <1>2, <2>1, <3>2 DEF IInv, MembersKept
    <3>3. QED
      BY <3>1, <3>2
  <2>2. DOMAIN users' = DOMAIN users
    BY <1>1
  <2>3. QED
    BY <2>1, <2>2 DEF MembersKept
<1>9. EntitiesFit'
  <2>1. ASSUME NEW s \in Requests PROVE EntityFits(req[s])'
    <3>1. /\ EntityFits(req[s]) /\ req'[s] = req[s]
          /\ req[s].at = "entitySelect" => "departmentIds" \in req[s].columns
          /\ req[s].at \in Saving => req[s].user \in Users
      BY <1>1 DEF IInv, EntitiesFit, Shapes, SlotShape
    <3>2. CASE req[s].at \in {"entitySelect", "entityUpdate"} /\ req[s].user # u
      <4>1. member'[req[s].user] = member[req[s].user]
        BY <1>1, <1>2, <3>1, <3>2
      <4>2. QED
        BY <3>1, <4>1 DEF EntityFits
    <3>3. CASE /\ req[s].at \in {"entitySelect", "entityUpdate"} /\ req[s].user = u
               /\ "departmentIds" \in req[s].columns
      <4>1. Held(u)
        BY <3>3 DEF Held
      <4>2. member'[u] = None
        BY <1>1, <1>2, <4>1
      <4>3. QED
        BY <3>1, <3>3, <4>2 DEF EntityFits
    <3>4. CASE req[s].at = "entityUpdate" /\ "departmentIds" \notin req[s].columns
      BY <3>1, <3>4 DEF EntityFits
    <3>5. CASE req[s].at \notin {"entitySelect", "entityUpdate"}
      BY <3>1, <3>5 DEF EntityFits
    <3>6. QED
      BY <3>1, <3>2, <3>3, <3>4, <3>5
  <2>2. QED
    BY <2>1 DEF EntitiesFit
<1>10. QED
  BY <1>4, <1>5, <1>7, <1>8, <1>9 DEF IInv

LEMMA InvElsewhere ==
    ASSUME IInv, Elsewhere
    PROVE  IInv'
<1>1. ASSUME NEW d, OptionsAdded(d) PROVE IInv'
  <2>1. /\ UNCHANGED <<member, cut, users, departments, req>>
        /\ options' = options \cup {d}
    BY <1>1 DEF OptionsAdded, Meanwhile
  <2>2. Shapes'
    BY <2>1 DEF IInv, Shapes, SlotShape, UsersShape
  <2>3. DepartmentHasOptions'
    BY <2>1 DEF IInv, DepartmentHasOptions, At
  <2>4. WritesFit'
    BY <2>1 DEF IInv, WritesFit, Pending
  <2>5. MembersKept'
    BY <2>1 DEF IInv, MembersKept
  <2>6. EntitiesFit'
    BY <2>1 DEF IInv, EntitiesFit, EntityFits
  <2>7. QED
    BY <2>2, <2>3, <2>4, <2>5, <2>6 DEF IInv
<1>2. ASSUME NEW d, ContentAdded(d) PROVE IInv'
  BY <1>2, SameStep DEF ContentAdded, Meanwhile
<1>3. ASSUME NEW d, Applied(d) PROVE IInv'
  BY <1>3, SameStep DEF Applied, Meanwhile
<1>4. ASSUME NEW u, AccountDeleted(u) PROVE IInv'
  <2>1. /\ UNCHANGED <<member, cut, options, departments, req>>
        /\ DOMAIN users' = DOMAIN users \ {u}
        /\ \A v \in DOMAIN users' : users'[v] = users[v]
    BY <1>4 DEF AccountDeleted, Meanwhile
  <2>2. Shapes'
    BY <2>1 DEF IInv, Shapes, SlotShape, UsersShape
  <2>3. DepartmentHasOptions'
    BY <2>1 DEF IInv, DepartmentHasOptions, At
  <2>4. WritesFit'
    BY <2>1 DEF IInv, WritesFit, Pending
  <2>5. MembersKept'
    BY <2>1 DEF IInv, MembersKept
  <2>6. EntitiesFit'
    BY <2>1 DEF IInv, EntitiesFit, EntityFits
  <2>7. QED
    BY <2>2, <2>3, <2>4, <2>5, <2>6 DEF IInv
<1>5. QED
  BY <1>1, <1>2, <1>3, <1>4, InvAccountUpdated DEF Elsewhere

LEMMA InvNext == IInv /\ [Next]_vars => IInv'
<1>1. ASSUME IInv, UNCHANGED vars PROVE IInv'
  BY <1>1, SameStep DEF vars, tables, record
<1>2. ASSUME IInv, NEW r \in Requests, Delete(r) PROVE IInv'
  BY <1>2, InvNull, InvRead, InvWrite, InvDeleteQuiet, InvDeleteEnd DEF Delete
<1>3. ASSUME IInv, NEW r \in Requests, Step(r) PROVE IInv'
  BY <1>2, <1>3, InvCreate, InvAnnounce, InvSave, InvClean, InvFails DEF Step
<1>4. QED
  BY <1>1, <1>3, InvClient, InvElsewhere, InvCrash DEF Next

-----------------------------------------------------------------------------
(* The types of tables and slots.                                         *)

\* What a slot holds has the types the tables ask for.
SlotTyped(q) ==
    /\ q.at = "idle" => q = Idle
    /\ q.at \in Labels => q.dept \in Departments
    /\ q.at \in {"createSelect", "createUpdate", "createInsert", "update"} =>
          "name" \in DOMAIN q /\ q.name \in Names
    /\ q.at = "writeUsers" => \A w \in q.writes : w.departmentIds \subseteq Departments
    /\ q.at = "updateAnnouncement" => q.targets \in Targets
    /\ q.at \in Saving => q.entity \in Account

\* Ids are given out once.
Posted ==
    /\ posted \in 0 .. MaxPosts
    /\ \A a \in announcements : a.id <= posted

\* TypeOK, table by table.
DepartmentsTyped ==
    /\ DOMAIN departments \subseteq Departments
    /\ \A d \in DOMAIN departments : departments[d] \in Names
ContentTyped ==
    /\ timetables \subseteq Departments
    /\ history \subseteq Departments
    /\ devices \subseteq Departments
UsersTyped ==
    /\ DOMAIN users \subseteq Users
    /\ \A u \in DOMAIN users : users[u] \in Account
AnnouncementsTyped ==
    /\ announcements \subseteq Announcement
    /\ \A a, b \in announcements : a.id = b.id => a = b
    /\ Posted

TypeInv ==
    /\ DepartmentsTyped
    /\ options \subseteq Departments
    /\ ContentTyped
    /\ UsersTyped
    /\ applications \subseteq Departments \cup {Null}
    /\ AnnouncementsTyped
    /\ \A r \in Requests : SlotTyped(req[r])

LEMMA TypesHold == TypeInv => TypeOK
<1>1. SUFFICES ASSUME TypeInv PROVE TypeOK
  OBVIOUS
<1>2. {options, timetables, history, devices} \subseteq SUBSET Departments
  BY <1>1 DEF TypeInv, ContentTyped
<1>3. QED
  BY <1>1, <1>2, Zenon DEF TypeInv, TypeOK, DepartmentsTyped, UsersTyped, AnnouncementsTyped

-----------------------------------------------------------------------------
(* What the steps do to accounts and slots.                                *)

LEMMA NullDoes ==
    ASSUME IInv, NEW r \in Requests, NullUsers(r)
    PROVE  /\ DOMAIN users' = DOMAIN users
           /\ \A u \in DOMAIN users :
                 /\ users'[u].departmentIds = users[u].departmentIds
                 /\ users'[u].departmentId =
                       IF users[u].departmentId = req[r].dept THEN Null
                       ELSE users[u].departmentId
<1>1. ASSUME NEW u \in DOMAIN users
      PROVE  /\ users'[u].departmentIds = users[u].departmentIds
             /\ users'[u].departmentId =
                   IF users[u].departmentId = req[r].dept THEN Null ELSE users[u].departmentId
  <2> PICK old, new : old = users[u] /\ new = users'[u]
    OBVIOUS
  <2>1. old = [departmentId |-> old.departmentId, departmentIds |-> old.departmentIds]
    BY DEF IInv, Shapes, UsersShape
  <2>2. new = IF old.departmentId = req[r].dept THEN [old EXCEPT !.departmentId = Null] ELSE old
    BY DEF NullUsers
  <2>3. /\ new.departmentIds = old.departmentIds
        /\ new.departmentId = IF old.departmentId = req[r].dept THEN Null ELSE old.departmentId
    BY <2>1, <2>2
  <2>4. QED
    BY <2>3
<1>2. DOMAIN users' = DOMAIN users
  BY DEF NullUsers
<1>3. QED
  BY <1>1, <1>2

LEMMA ReadDoes ==
    ASSUME IInv, NEW r \in Requests, NEW d, d = req[r].dept, ReadUsers(r)
    PROVE  \E q : /\ req' = [req EXCEPT ![r] = q]
                  /\ q.at = "writeUsers" /\ q.dept = d
                  /\ \A w \in q.writes :
                        /\ w.user \in DOMAIN users
                        /\ w.departmentIds = users[w.user].departmentIds \ {d}
                  /\ \A u \in DOMAIN users :
                        d \in users[u].departmentIds => \E w \in q.writes : w.user = u
<1> PICK having : having = {u \in DOMAIN users : d \in users[u].departmentIds}
  OBVIOUS
<1> PICK writes : writes = {[user |-> u, departmentIds |-> users[u].departmentIds \ {d}] :
                               u \in having}
  OBVIOUS
<1> PICK q : q = [at |-> "writeUsers", dept |-> d, writes |-> writes]
  OBVIOUS
<1>1. req' = [req EXCEPT ![r] = q]
  BY DEF ReadUsers
<1>2. \A w \in writes : w.user \in DOMAIN users
                        /\ w.departmentIds = users[w.user].departmentIds \ {d}
  OBVIOUS
<1>3. ASSUME NEW u \in DOMAIN users, d \in users[u].departmentIds
      PROVE  \E w \in writes : w.user = u
  <2> PICK w : w = [user |-> u, departmentIds |-> users[u].departmentIds \ {d}]
    OBVIOUS
  <2>1. u \in having
    BY <1>3
  <2>2. w \in writes /\ w.user = u
    BY <2>1
  <2>3. QED
    BY <2>2
<1>4. q.at = "writeUsers" /\ q.dept = d /\ q.writes = writes
  OBVIOUS
<1>5. QED
  BY <1>1, <1>2, <1>3, <1>4

LEMMA WriteDoes ==
    ASSUME IInv, NEW r \in Requests, NEW d, d = req[r].dept, WriteUser(r)
    PROVE  \E w \in req[r].writes : \E q :
               /\ req' = [req EXCEPT ![r] = q]
               /\ q.at = "writeUsers" /\ q.dept = d /\ q.writes = req[r].writes \ {w}
               /\ DOMAIN users' = DOMAIN users
               /\ \A u \in DOMAIN users :
                     /\ users'[u].departmentId = users[u].departmentId
                     /\ users'[u].departmentIds = IF u = w.user THEN w.departmentIds
                                                  ELSE users[u].departmentIds
<1>1. PICK w \in req[r].writes :
          /\ users' = [u \in DOMAIN users |->
                 IF u = w.user THEN [users[u] EXCEPT !.departmentIds = w.departmentIds]
                 ELSE users[u]]
          /\ req' = [req EXCEPT ![r].writes = @ \ {w}]
  BY DEF WriteUser
<1> PICK old, left, ids : old = req[r] /\ left = req[r].writes \ {w} /\ ids = w.departmentIds
  OBVIOUS
<1> PICK q : q = [at |-> "writeUsers", dept |-> d, writes |-> left]
  OBVIOUS
<1>2. old = [at |-> "writeUsers", dept |-> d, writes |-> req[r].writes]
  BY DEF WriteUser, IInv, Shapes, SlotShape
<1>3. [old EXCEPT !.writes = left] = q
  BY <1>2
<1>4. req' = [req EXCEPT ![r] = [old EXCEPT !.writes = left]]
  BY <1>1
<1>5. req' = [req EXCEPT ![r] = q]
  BY <1>3, <1>4
<1>6. ASSUME NEW u \in DOMAIN users
      PROVE  /\ users'[u].departmentId = users[u].departmentId
             /\ users'[u].departmentIds = IF u = w.user THEN ids ELSE users[u].departmentIds
  <2> PICK was, new : was = users[u] /\ new = users'[u]
    OBVIOUS
  <2>1. was = [departmentId |-> was.departmentId, departmentIds |-> was.departmentIds]
    BY DEF IInv, Shapes, UsersShape
  <2>2. new = IF u = w.user THEN [was EXCEPT !.departmentIds = ids] ELSE was
    BY <1>1
  <2>3. /\ new.departmentId = was.departmentId
        /\ new.departmentIds = IF u = w.user THEN ids ELSE was.departmentIds
    BY <2>1, <2>2
  <2>4. QED
    BY <2>3
<1>7. q.at = "writeUsers" /\ q.dept = d /\ q.writes = left /\ DOMAIN users' = DOMAIN users
  BY <1>1
<1>8. QED
  BY <1>5, <1>6, <1>7

\* What a cleanup does to the tables.
LEMMA CleanDoes ==
    ASSUME IInv, NEW r \in Requests, Clean(r) \/ CleanFails(r)
    PROVE  /\ DOMAIN departments' \subseteq DOMAIN departments
           /\ \A u \in DOMAIN users' : u \in DOMAIN users /\ users'[u] = users[u]
           /\ \A d \in DOMAIN departments' : departments'[d] = departments[d]
           /\ UNCHANGED <<options, history, posted>>
           /\ timetables' \subseteq timetables /\ devices' \subseteq devices
           /\ announcements' \subseteq announcements
           /\ UNCHANGED record
           /\ \E q : req' = [req EXCEPT ![r] = q] /\ q.at = "clean"
<1>1. SlotShape(req[r]) /\ req[r].at = "clean"
  BY DEF IInv, Shapes, Clean, CleanFails
<1>2. \E q : req' = [req EXCEPT ![r] = q] /\ q.at = "clean"
  <2> PICK old : old = req[r]
    OBVIOUS
  <2>1. PICK todo, deleted, errors :
            \/ req' = [req EXCEPT ![r].todo = todo, ![r].deleted = deleted]
            \/ req' = [req EXCEPT ![r].todo = todo, ![r].errors = errors]
    BY DEF Clean, CleanFails
  <2>2. /\ [old EXCEPT !.todo = todo, !.deleted = deleted].at = "clean"
        /\ [old EXCEPT !.todo = todo, !.errors = errors].at = "clean"
    BY <1>1 DEF SlotShape
  <2>3. QED
    BY <2>1, <2>2
<1>3. UNCHANGED record
  BY DEF Clean, CleanFails
<1>4. QED
  BY <1>2, <1>3 DEF Clean, CleanFails, tables, content, counts

\* A request takes a step.
LEMMA TypedStep ==
    ASSUME IInv, TypeInv, NEW r \in Requests, NEW q,
           req' = [req EXCEPT ![r] = q], SlotTyped(q),
           DepartmentsTyped', options' \subseteq Departments, ContentTyped', UsersTyped',
           applications' \subseteq Departments \cup {Null}, AnnouncementsTyped'
    PROVE  TypeInv'
<1>1. \A s \in Requests : req'[s] = IF s = r THEN q ELSE req[s]
  BY DEF IInv, Shapes
<1>2. \A s \in Requests : SlotTyped(req[s])
  BY DEF TypeInv
<1>3. \A s \in Requests : SlotTyped(req'[s])
  BY <1>1, <1>2
<1>4. QED
  BY <1>3 DEF TypeInv

\* A step that leaves the slots alone.
LEMMA TypedSame ==
    ASSUME TypeInv, UNCHANGED req,
           DepartmentsTyped', options' \subseteq Departments, ContentTyped', UsersTyped',
           applications' \subseteq Departments \cup {Null}, AnnouncementsTyped'
    PROVE  TypeInv'
<1>1. QED
  BY DEF TypeInv

\* The tables of a type, one by one.
LEMMA DepartmentsSame ==
    ASSUME DepartmentsTyped, UNCHANGED departments PROVE DepartmentsTyped'
BY DEF DepartmentsTyped

LEMMA ContentSame ==
    ASSUME ContentTyped, UNCHANGED content PROVE ContentTyped'
BY DEF ContentTyped, content

LEMMA UsersSame ==
    ASSUME UsersTyped, UNCHANGED users PROVE UsersTyped'
BY DEF UsersTyped

LEMMA AnnouncementsSame ==
    ASSUME AnnouncementsTyped, UNCHANGED <<announcements, posted>> PROVE AnnouncementsTyped'
BY DEF AnnouncementsTyped, Posted

LEMMA TablesSame ==
    ASSUME TypeInv, UNCHANGED <<tables, posted>>
    PROVE  /\ DepartmentsTyped' /\ options' \subseteq Departments /\ ContentTyped'
           /\ UsersTyped' /\ applications' \subseteq Departments \cup {Null} /\ AnnouncementsTyped'
BY DepartmentsSame, ContentSame, UsersSame, AnnouncementsSame DEF TypeInv, tables

LEMMA IdleTyped == SlotTyped(Idle)
BY DEF SlotTyped, Idle, Labels

-----------------------------------------------------------------------------

LEMMA TypedInit == Init => TypeInv
<1>1. ASSUME Init PROVE TypeInv
  <2>1. PICK there \in SUBSET Departments :
            /\ departments \in [there -> Names]
            /\ options = there
            /\ timetables = there /\ history = there /\ devices = there
            /\ users = [u \in Users |-> [departmentId |-> Null, departmentIds |-> there]]
            /\ applications = there \cup {Null}
    BY <1>1 DEF Init
  <2>2. DepartmentsTyped /\ options \subseteq Departments /\ ContentTyped
    BY <2>1 DEF DepartmentsTyped, ContentTyped
  <2>3. UsersTyped
    BY <2>1 DEF UsersTyped, Account
  <2>4. AnnouncementsTyped
    BY <1>1, DepartmentsAssumption DEF Init, AnnouncementsTyped, Posted
  <2>5. \A r \in Requests : SlotTyped(req[r])
    BY <1>1, IdleTyped DEF Init
  <2>6. applications \subseteq Departments \cup {Null}
    BY <2>1
  <2>7. QED
    BY <2>2, <2>3, <2>4, <2>5, <2>6 DEF TypeInv
<1>2. QED
  BY <1>1

\* What a client brings has been validated.
LEMMA TypedClient ==
    ASSUME IInv, TypeInv, NEW r \in Requests, Client(r)
    PROVE  TypeInv'
<1>1. ASSUME NEW q, req' = [req EXCEPT ![r] = q], SlotTyped(q), UNCHANGED <<tables, posted>>
      PROVE  TypeInv'
  BY <1>1, TablesSame, TypedStep
<1>2. ASSUME NEW d \in Departments, NEW name \in Names,
             CreateFind(r, d, name) \/ UpdateFind(r, d, name)
      PROVE  TypeInv'
  <2>1. PICK at \in {"createSelect", "update"} :
            req' = [req EXCEPT ![r] = [at |-> at, dept |-> d, name |-> name]]
    BY <1>2 DEF CreateFind, UpdateFind, Begin
  <2> PICK q : q = [at |-> at, dept |-> d, name |-> name]
    OBVIOUS
  <2>2. SlotTyped(q)
    BY DEF SlotTyped
  <2>3. UNCHANGED <<tables, posted>>
    BY <1>2 DEF CreateFind, UpdateFind
  <2>4. QED
    BY <1>1, <2>1, <2>2, <2>3
<1>3. ASSUME NEW d \in Departments, DeleteFind(r, d) PROVE TypeInv'
  <2> PICK q : q = Holding("nullUsers", d)
    OBVIOUS
  <2>1. SlotTyped(q)
    BY DEF SlotTyped, Holding
  <2>2. req' = [req EXCEPT ![r] = q] /\ UNCHANGED <<tables, posted>>
    BY <1>3 DEF DeleteFind, Begin
  <2>3. QED
    BY <1>1, <2>1, <2>2
<1>4. ASSUME NEW access, NEW targets \in Targets, CreateAnnouncement(r, access, targets)
      PROVE  TypeInv'
  <2> PICK new : new = [id |-> posted + 1, targets |-> targets, pinned |-> FALSE]
    OBVIOUS
  <2>1. /\ UNCHANGED <<departments, options, content, users, applications, req>>
        /\ posted < MaxPosts /\ posted' = posted + 1
        /\ announcements' = announcements \cup {new}
    BY <1>4 DEF CreateAnnouncement
  <2>2. posted + 1 \in Posts /\ posted' \in 0 .. MaxPosts /\ posted \in Nat /\ new.id = posted + 1
    BY <2>1, DepartmentsAssumption DEF TypeInv, AnnouncementsTyped, Posted, Posts
  <2>3. announcements' \subseteq Announcement
    <3>1. new \in Announcement
      BY <2>2 DEF Announcement
    <3>2. QED
      BY <2>1, <3>1 DEF TypeInv, AnnouncementsTyped
  <2>4. \A a \in announcements : a.id \in Nat /\ a.id <= posted
    BY DEF TypeInv, AnnouncementsTyped, Posted, Announcement, Posts
  <2>5. \A a \in announcements' : a.id <= posted'
    BY <2>1, <2>2, <2>4
  <2>6. \A a, b \in announcements' : a.id = b.id => a = b
    <3>1. \A a \in announcements : a.id # new.id
      BY <2>2, <2>4
    <3>2. QED
      BY <2>1, <3>1 DEF TypeInv, AnnouncementsTyped
  <2>7. AnnouncementsTyped'
    BY <2>2, <2>3, <2>5, <2>6 DEF AnnouncementsTyped, Posted
  <2>8. QED
    BY <2>1, <2>7, DepartmentsSame, ContentSame, UsersSame, TypedSame DEF TypeInv
<1>5. ASSUME NEW access, NEW d, NEW id, NEW targets \in Targets, NEW q \in Changes(id, targets),
             FindAnnouncement(r, access, d, q)
      PROVE  TypeInv'
  <2>1. SlotTyped(q)
    BY DEF Changes, SlotTyped, Labels
  <2>2. req' = [req EXCEPT ![r] = q] /\ UNCHANGED <<tables, posted>>
    BY <1>5 DEF FindAnnouncement, Begin
  <2>3. QED
    BY <1>1, <2>1, <2>2
<1>6. ASSUME NEW categories, NEW scope, BeginCleanup(r, categories, scope) PROVE TypeInv'
  <2> PICK told : told = DataSummary(scope)
    OBVIOUS
  <2> PICK q : q = [at |-> "clean", scope |-> scope, todo |-> categories, told |-> told,
                    deleted |-> <<>>, errors |-> {}]
    OBVIOUS
  <2>1. SlotTyped(q)
    BY DEF SlotTyped, Labels
  <2>2. req' = [req EXCEPT ![r] = q] /\ UNCHANGED <<tables, posted>>
    BY <1>6 DEF BeginCleanup, Begin
  <2>3. QED
    BY <1>1, <2>1, <2>2
<1>7. ASSUME NEW u \in Users, EntityFind(r, u) PROVE TypeInv'
  <2>1. PICK q, d, M : Found(r, u, q, d, M)
    BY <1>7, FindDoes
  <2> PICK ids : ids = users[u].departmentIds
    OBVIOUS
  <2>2. /\ q.at = "entitySelect" /\ q.entity = [departmentId |-> d, departmentIds |-> ids]
        /\ u \in DOMAIN users /\ req' = [req EXCEPT ![r] = q]
        /\ d = users[u].departmentId \/ d \in applications
    BY <2>1 DEF Found, Begin
  <2>3. d \in Departments \cup {Null} /\ ids \in SUBSET Departments
    BY <2>2 DEF TypeInv, UsersTyped, Account
  <2>4. SlotTyped(q)
    BY <2>2, <2>3 DEF SlotTyped, Account, Labels
  <2>5. UNCHANGED <<tables, posted>>
    BY <1>7 DEF EntityFind
  <2>6. QED
    BY <1>1, <2>2, <2>4, <2>5
<1>8. QED
  BY <1>2, <1>3, <1>4, <1>5, <1>6, <1>7 DEF Client

-----------------------------------------------------------------------------

LEMMA TypedCreate ==
    ASSUME IInv, TypeInv, NEW r \in Requests, Create(r)
    PROVE  TypeInv'
<1> PICK d, name : d = req[r].dept /\ name = req[r].name
  OBVIOUS
<1>1. SlotShape(req[r]) /\ SlotTyped(req[r]) /\ DepartmentsTyped
  BY DEF IInv, Shapes, TypeInv
<1>2. ASSUME NEW at \in Labels, Goto(r, at), req[r].at \in Labels,
             at \notin {"writeUsers", "createSelect", "update"},
             at \in {"createUpdate", "createInsert"} => req[r].at = "createSelect"
      PROVE  \E q : req' = [req EXCEPT ![r] = q] /\ SlotTyped(q)
  <2>1. PICK q : /\ req' = [req EXCEPT ![r] = q]
                 /\ SlotShape(q) /\ q.at = at /\ q.dept = req[r].dept
                 /\ "name" \in DOMAIN req[r] => "name" \in DOMAIN q /\ q.name = req[r].name
    BY <1>2, GotoShape DEF Labels
  <2>2. SlotTyped(q)
    BY <1>1, <1>2, <2>1 DEF SlotTyped, Labels
  <2>3. QED
    BY <2>1, <2>2
<1>3. CASE CreateSelect(r) \/ OptionsSelect(r)
  <2>1. PICK at \in {"createUpdate", "createInsert", "optionsUpdate", "optionsInsert"} :
            /\ Goto(r, at) /\ req[r].at \in {"createSelect", "optionsSelect"}
            /\ at \in {"createUpdate", "createInsert"} => req[r].at = "createSelect"
            /\ UNCHANGED <<tables, posted>>
    BY <1>3 DEF CreateSelect, OptionsSelect, Decide, counts
  <2>2. PICK q : req' = [req EXCEPT ![r] = q] /\ SlotTyped(q)
    BY <1>2, <2>1 DEF Labels
  <2>3. QED
    BY <2>1, <2>2, TablesSame, TypedStep
<1>4. CASE CreateUpdate(r) \/ CreateInsert(r)
  <2>1. /\ Goto(r, "optionsSelect") /\ req[r].at \in {"createUpdate", "createInsert"}
        /\ UNCHANGED <<options, content, users, applications, announcements, posted>>
        /\ \/ departments' = [e \in DOMAIN departments |-> IF e = d THEN name ELSE departments[e]]
           \/ departments' = [e \in DOMAIN departments \cup {d} |->
                                 IF e = d THEN name ELSE departments[e]]
    BY <1>4 DEF CreateUpdate, CreateInsert, counts
  <2>2. PICK q : req' = [req EXCEPT ![r] = q] /\ SlotTyped(q)
    BY <1>2, <2>1 DEF Labels
  <2>3. d \in Departments /\ name \in Names
    BY <1>1, <2>1 DEF SlotTyped, Labels
  <2>4. DepartmentsTyped'
    BY <1>1, <2>1, <2>3 DEF DepartmentsTyped
  <2>5. QED
    BY <2>1, <2>2, <2>4, ContentSame, UsersSame, AnnouncementsSame, TypedStep DEF TypeInv
<1>5. CASE CreateInsertRefused(r) \/ OptionsUpdate(r)
  <2>1. req' = [req EXCEPT ![r] = Idle] /\ UNCHANGED <<tables, posted>>
    BY <1>5 DEF CreateInsertRefused, OptionsUpdate, Answer, counts
  <2>2. QED
    BY <2>1, IdleTyped, TablesSame, TypedStep
<1>6. CASE OptionsInsert(r)
  <2>1. /\ req' = [req EXCEPT ![r] = Idle] /\ req[r].at = "optionsInsert"
        /\ options' = options \cup {d}
        /\ UNCHANGED <<departments, content, users, applications, announcements, posted>>
    BY <1>6 DEF OptionsInsert, Answer, counts
  <2>2. d \in Departments
    BY <1>1, <2>1 DEF SlotTyped, Labels
  <2>3. options' \subseteq Departments
    BY <2>1, <2>2 DEF TypeInv
  <2>4. QED
    BY <2>1, <2>3, IdleTyped, DepartmentsSame, ContentSame, UsersSame, AnnouncementsSame,
       TypedStep DEF TypeInv
<1>7. CASE UpdateDepartment(r)
  <2>1. /\ req' = [req EXCEPT ![r] = Idle] /\ req[r].at = "update"
        /\ departments' = [e \in DOMAIN departments |-> IF e = d THEN name ELSE departments[e]]
        /\ UNCHANGED <<options, content, users, applications, announcements, posted>>
    BY <1>7 DEF UpdateDepartment, Answer, counts
  <2>2. name \in Names
    BY <1>1, <2>1 DEF SlotTyped
  <2>3. DepartmentsTyped'
    BY <1>1, <2>1, <2>2 DEF DepartmentsTyped
  <2>4. QED
    BY <2>1, <2>3, IdleTyped, ContentSame, UsersSame, AnnouncementsSame, TypedStep DEF TypeInv
<1>8. QED
  BY <1>3, <1>4, <1>5, <1>6, <1>7 DEF Create

\* A deletion only takes away.
LEMMA TypedDelete ==
    ASSUME IInv, TypeInv, NEW r \in Requests, Delete(r)
    PROVE  TypeInv'
<1> PICK d : d = req[r].dept
  OBVIOUS
<1>1. SlotShape(req[r]) /\ SlotTyped(req[r])
  BY DEF IInv, Shapes, TypeInv
<1>2. req[r].at \in Labels \ {"createSelect", "createUpdate", "createInsert", "update"}
  BY DEF Delete, NullUsers, ReadUsers, WriteUser, DeleteTimetables, DeleteHistory,
         FindAnnouncements, DeleteAnnouncements, DeleteDevices, DeleteOptions,
         RemoveDepartment, Labels
<1>3. d \in Departments
  BY <1>1, <1>2 DEF SlotTyped
<1>4. ASSUME NEW at \in Labels, Goto(r, at),
             at \notin {"writeUsers", "createSelect", "createUpdate", "createInsert", "update"}
      PROVE  \E q : req' = [req EXCEPT ![r] = q] /\ SlotTyped(q)
  <2>1. PICK q : req' = [req EXCEPT ![r] = q] /\ q.at = at /\ q.dept = d
    BY <1>2, <1>4, GotoShape DEF Labels
  <2>2. SlotTyped(q)
    BY <1>3, <1>4, <2>1 DEF SlotTyped, Labels
  <2>3. QED
    BY <2>1, <2>2
<1>5. CASE NullUsers(r)
  <2>1. /\ Goto(r, "readUsers")
        /\ UNCHANGED <<departments, options, content, applications, announcements, posted>>
    BY <1>5 DEF NullUsers, counts
  <2>2. PICK q : req' = [req EXCEPT ![r] = q] /\ SlotTyped(q)
    BY <1>4, <2>1 DEF Labels
  <2>3. /\ DOMAIN users' = DOMAIN users
        /\ \A u \in DOMAIN users :
              /\ users'[u].departmentIds = users[u].departmentIds
              /\ users'[u].departmentId \in {users[u].departmentId, Null}
    BY <1>5, NullDoes
  <2>4. \A u \in DOMAIN users : users'[u] = [departmentId |-> users'[u].departmentId,
                                             departmentIds |-> users'[u].departmentIds]
    BY <1>5, <2>3, InvNull DEF IInv, Shapes, UsersShape
  <2>5. UsersTyped'
    BY <2>3, <2>4 DEF TypeInv, UsersTyped, Account
  <2>6. QED
    BY <2>1, <2>2, <2>5, DepartmentsSame, ContentSame, AnnouncementsSame, TypedStep DEF TypeInv
<1>6. CASE ReadUsers(r)
  <2>1. PICK q : /\ req' = [req EXCEPT ![r] = q] /\ q.at = "writeUsers" /\ q.dept = d
                 /\ \A w \in q.writes : /\ w.user \in DOMAIN users
                                        /\ w.departmentIds = users[w.user].departmentIds \ {d}
    BY <1>6, ReadDoes
  <2>2. SlotTyped(q)
    BY <1>3, <2>1 DEF SlotTyped, TypeInv, UsersTyped, Account
  <2>3. UNCHANGED <<tables, posted>>
    BY <1>6 DEF ReadUsers, counts
  <2>4. QED
    BY <2>1, <2>2, <2>3, TablesSame, TypedStep
<1>7. CASE WriteUser(r)
  <2>1. PICK w \in req[r].writes, q \in {req'[r]} :
            /\ req' = [req EXCEPT ![r] = q]
            /\ q.at = "writeUsers" /\ q.dept = d /\ q.writes = req[r].writes \ {w}
            /\ DOMAIN users' = DOMAIN users
            /\ \A u \in DOMAIN users :
                  /\ users'[u].departmentId = users[u].departmentId
                  /\ users'[u].departmentIds = IF u = w.user THEN w.departmentIds
                                               ELSE users[u].departmentIds
    <3>1. PICK w \in req[r].writes : \E q :
               /\ req' = [req EXCEPT ![r] = q]
               /\ q.at = "writeUsers" /\ q.dept = d /\ q.writes = req[r].writes \ {w}
               /\ DOMAIN users' = DOMAIN users
               /\ \A u \in DOMAIN users :
                     /\ users'[u].departmentId = users[u].departmentId
                     /\ users'[u].departmentIds = IF u = w.user THEN w.departmentIds
                                                  ELSE users[u].departmentIds
      BY <1>7, WriteDoes
    <3>2. QED
      BY <3>1 DEF IInv, Shapes
  <2>2. req[r].at = "writeUsers"
    BY <1>7 DEF WriteUser
  <2>3. SlotTyped(q)
    BY <1>1, <1>3, <2>1, <2>2 DEF SlotTyped
  <2>4. \A u \in DOMAIN users : users'[u] = [departmentId |-> users'[u].departmentId,
                                             departmentIds |-> users'[u].departmentIds]
    BY <1>7, <2>1, InvWrite DEF IInv, Shapes, UsersShape
  <2>5. w.departmentIds \in SUBSET Departments
    BY <1>1, <2>1, <2>2 DEF SlotTyped
  <2>6. UsersTyped'
    BY <2>1, <2>4, <2>5 DEF TypeInv, UsersTyped, Account
  <2>7. UNCHANGED <<departments, options, content, applications, announcements, posted>>
    BY <1>7 DEF WriteUser, counts
  <2>8. QED
    BY <2>1, <2>3, <2>6, <2>7, DepartmentsSame, ContentSame, AnnouncementsSame, TypedStep
    DEF TypeInv
<1>8. ASSUME NEW at \in {"history", "devices"}, req' = [req EXCEPT ![r] = Holding(at, d)]
      PROVE  \E q : req' = [req EXCEPT ![r] = q] /\ SlotTyped(q)
  <2>1. SlotTyped(Holding(at, d))
    BY <1>3 DEF SlotTyped, Holding
  <2>2. QED
    BY <1>8, <2>1
<1>9. CASE DeleteTimetables(r) \/ DeleteHistory(r) \/ DeleteDevices(r)
  <2>1. PICK q : req' = [req EXCEPT ![r] = q] /\ SlotTyped(q)
    <3>1. CASE DeleteTimetables(r)
      BY <1>8, <3>1 DEF DeleteTimetables
    <3>2. CASE DeleteHistory(r) \/ DeleteDevices(r)
      BY <1>4, <3>2 DEF DeleteHistory, DeleteDevices, Labels
    <3>3. QED
      BY <1>9, <3>1, <3>2
  <2>2. UNCHANGED <<departments, options, users, applications, announcements, posted>>
    BY <1>9 DEF DeleteTimetables, DeleteHistory, DeleteDevices, counts
  <2>3. ContentTyped'
    BY <1>9 DEF DeleteTimetables, DeleteHistory, DeleteDevices, TypeInv, ContentTyped
  <2>4. QED
    BY <2>1, <2>2, <2>3, DepartmentsSame, UsersSame, AnnouncementsSame, TypedStep DEF TypeInv
<1>10. CASE FindAnnouncements(r)
  <2> PICK ids : ids = {a.id : a \in {a \in announcements : {d, "all"} \cap a.targets # {}}}
    OBVIOUS
  <2> PICK q : q = [at |-> "announcements", dept |-> d, ids |-> ids]
    OBVIOUS
  <2>1. req' = [req EXCEPT ![r] = q] /\ UNCHANGED <<tables, posted>>
    BY <1>10 DEF FindAnnouncements, counts
  <2>2. SlotTyped(q)
    BY <1>3 DEF SlotTyped
  <2>3. QED
    BY <2>1, <2>2, TablesSame, TypedStep
<1>11. CASE DeleteAnnouncements(r)
  <2>1. /\ req' = [req EXCEPT ![r] = Holding("devices", d)]
        /\ announcements' \subseteq announcements
        /\ UNCHANGED <<departments, options, content, users, applications, posted>>
    BY <1>11 DEF DeleteAnnouncements, counts
  <2>2. PICK q : req' = [req EXCEPT ![r] = q] /\ SlotTyped(q)
    BY <1>8, <2>1
  <2>3. AnnouncementsTyped'
    BY <2>1 DEF TypeInv, AnnouncementsTyped, Posted
  <2>4. QED
    BY <2>1, <2>2, <2>3, DepartmentsSame, ContentSame, UsersSame, TypedStep DEF TypeInv
<1>12. CASE DeleteOptions(r)
  <2>1. /\ Goto(r, "department") /\ options' \subseteq options
        /\ UNCHANGED <<departments, content, users, applications, announcements, posted>>
    BY <1>12 DEF DeleteOptions, counts
  <2>2. PICK q : req' = [req EXCEPT ![r] = q] /\ SlotTyped(q)
    BY <1>4, <2>1 DEF Labels
  <2>3. options' \subseteq Departments
    BY <2>1 DEF TypeInv
  <2>4. QED
    BY <2>1, <2>2, <2>3, DepartmentsSame, ContentSame, UsersSame, AnnouncementsSame, TypedStep
    DEF TypeInv
<1>13. CASE RemoveDepartment(r)
  <2>1. /\ req' = [req EXCEPT ![r] = Idle]
        /\ departments' = [e \in DOMAIN departments \ {d} |-> departments[e]]
        /\ UNCHANGED <<options, content, users, applications, announcements, posted>>
    BY <1>13 DEF RemoveDepartment, Answer, counts
  <2>2. DepartmentsTyped'
    BY <2>1 DEF TypeInv, DepartmentsTyped
  <2>3. QED
    BY <2>1, <2>2, IdleTyped, ContentSame, UsersSame, AnnouncementsSame, TypedStep DEF TypeInv
<1>14. QED
  BY <1>5, <1>6, <1>7, <1>9, <1>10, <1>11, <1>12, <1>13 DEF Delete

LEMMA Retargeted ==
    ASSUME NEW a \in Announcement, NEW targets \in Targets
    PROVE  /\ [a EXCEPT !.targets = targets] \in Announcement
           /\ [a EXCEPT !.targets = targets].id = a.id
BY DEF Announcement

LEMMA Repinned ==
    ASSUME NEW a \in Announcement, NEW pin \in BOOLEAN
    PROVE  /\ [a EXCEPT !.pinned = pin] \in Announcement
           /\ [a EXCEPT !.pinned = pin].id = a.id
BY DEF Announcement

\* The announcements a request changes keep their ids.
LEMMA TypedAnnounce ==
    ASSUME IInv, TypeInv, NEW r \in Requests, Announce(r)
    PROVE  TypeInv'
<1>1. SlotTyped(req[r]) /\ AnnouncementsTyped
  BY DEF TypeInv
<1>2. /\ req' = [req EXCEPT ![r] = Idle]
      /\ UNCHANGED <<departments, options, content, users, applications, posted>>
  BY DEF Announce, UpdateAnnouncement, PinAnnouncement, RemoveAnnouncement, Answer, counts
<1>3. ASSUME NEW id, NEW other,
             \A b \in announcements' :
                 \E a \in announcements : b = IF a.id = id THEN other[a] ELSE a,
             \A a \in announcements : other[a] \in Announcement /\ other[a].id = a.id
      PROVE  AnnouncementsTyped'
  <2>1. ASSUME NEW b \in announcements'
        PROVE  \E a \in announcements :
                   b \in Announcement /\ b.id = a.id /\ b = IF a.id = id THEN other[a] ELSE a
    BY <1>1, <1>3, <2>1 DEF AnnouncementsTyped
  <2>2. announcements' \subseteq Announcement
    BY <2>1
  <2>3. ASSUME NEW b \in announcements', NEW c \in announcements', b.id = c.id
        PROVE  b = c
    <3>1. PICK x \in announcements : b.id = x.id /\ b = IF x.id = id THEN other[x] ELSE x
      BY <2>1
    <3>2. PICK y \in announcements : c.id = y.id /\ c = IF y.id = id THEN other[y] ELSE y
      BY <2>1
    <3>3. x = y
      BY <1>1, <2>3, <3>1, <3>2 DEF AnnouncementsTyped
    <3>4. QED
      BY <3>1, <3>2, <3>3
  <2>4. \A b \in announcements' : b.id <= posted'
    BY <1>1, <1>2, <2>1 DEF AnnouncementsTyped, Posted
  <2>5. QED
    BY <1>1, <1>2, <2>2, <2>3, <2>4 DEF AnnouncementsTyped, Posted
<1>4. ASSUME UpdateAnnouncement(r) PROVE AnnouncementsTyped'
  <2> PICK id : id = req[r].id
    OBVIOUS
  <2> PICK targets : targets = req[r].targets
    OBVIOUS
  <2>a. PICK other : other = [a \in announcements |-> [a EXCEPT !.targets = targets]]
    OBVIOUS
  <2>1. targets \in Targets
    BY <1>1, <1>4 DEF UpdateAnnouncement, SlotTyped
  <2>2. ASSUME NEW a \in announcements PROVE other[a] \in Announcement /\ other[a].id = a.id
    <3>1. other[a] = [a EXCEPT !.targets = targets] /\ a \in Announcement
      BY <1>1, <2>a DEF AnnouncementsTyped
    <3>2. QED
      BY <2>1, <3>1, Retargeted
  <2>3. \A b \in announcements' : \E a \in announcements : b = IF a.id = id THEN other[a] ELSE a
    BY <1>4, <2>a DEF UpdateAnnouncement
  <2>4. QED
    BY <1>3, <2>2, <2>3
<1>5. ASSUME PinAnnouncement(r) PROVE AnnouncementsTyped'
  <2> PICK id : id = req[r].id
    OBVIOUS
  <2>a. \E pin \in BOOLEAN : pin = (req[r].at = "pin")
    <3>1. CASE req[r].at = "pin"
      BY <3>1, Zenon
    <3>2. CASE req[r].at # "pin"
      BY <3>2, Zenon
    <3>3. QED
      BY <3>1, <3>2
  <2>b. PICK pin \in BOOLEAN : pin = (req[r].at = "pin")
    BY <2>a, Zenon
  <2>c. PICK other : other = [a \in announcements |-> [a EXCEPT !.pinned = pin]]
    OBVIOUS
  <2>1. ASSUME NEW a \in announcements PROVE other[a] \in Announcement /\ other[a].id = a.id
    <3>1. other[a] = [a EXCEPT !.pinned = pin] /\ a \in Announcement
      BY <1>1, <2>c DEF AnnouncementsTyped
    <3>2. QED
      BY <3>1, Repinned
  <2>2. \A b \in announcements' : \E a \in announcements : b = IF a.id = id THEN other[a] ELSE a
    <3>1. announcements' = {IF a.id = id THEN [a EXCEPT !.pinned = req[r].at = "pin"] ELSE a :
                               a \in announcements}
      BY <1>5, Zenon DEF PinAnnouncement
    <3>2. announcements' = {IF a.id = id THEN [a EXCEPT !.pinned = pin] ELSE a :
                               a \in announcements}
      BY <2>b, <3>1, Zenon
    <3>3. \A a \in announcements : other[a] = [a EXCEPT !.pinned = pin]
      BY <2>c
    <3>4. ASSUME NEW b \in announcements'
          PROVE  \E a \in announcements : b = IF a.id = id THEN other[a] ELSE a
      <4>1. PICK a \in announcements : b = IF a.id = id THEN [a EXCEPT !.pinned = pin] ELSE a
        BY <3>2, <3>4, Zenon
      <4>2. b = IF a.id = id THEN other[a] ELSE a
        <5>1. CASE a.id = id
          BY <3>3, <4>1, <5>1, Zenon
        <5>2. CASE a.id # id
          BY <4>1, <5>2, Zenon
        <5>3. QED
          BY <5>1, <5>2
      <4>3. QED
        BY <4>2
    <3>5. QED
      BY <3>4
  <2>3. QED
    BY <1>3, <2>1, <2>2
<1>6. ASSUME RemoveAnnouncement(r) PROVE AnnouncementsTyped'
  <2>1. announcements' \subseteq announcements
    BY <1>6 DEF RemoveAnnouncement
  <2>2. QED
    BY <1>1, <1>2, <2>1 DEF AnnouncementsTyped, Posted
<1>7. AnnouncementsTyped'
  BY <1>4, <1>5, <1>6 DEF Announce
<1>8. QED
  BY <1>2, <1>7, IdleTyped, DepartmentsSame, ContentSame, UsersSame, TypedStep DEF TypeInv

\* What the save of an account writes was read from an account, or asked for.
LEMMA TypedSave ==
    ASSUME IInv, TypeInv, NEW r \in Requests, Save(r)
    PROVE  TypeInv'
<1>1. /\ req[r].at \in Saving /\ SlotTyped(req[r]) /\ UsersTyped
      /\ UNCHANGED <<departments, options, content, applications, announcements, posted>>
  BY DEF Save, EntitySelect, EntityUpdate, EntityInsert, TypeInv, tables, counts
<1> PICK e : e = req[r].entity
  OBVIOUS
<1>2. e \in Account /\ e.departmentId \in Departments \cup {Null} /\ e.departmentIds \subseteq Departments
  BY <1>1 DEF SlotTyped, Account
<1>3. CASE EntitySelect(r)
  <2>1. PICK q : /\ req' = [req EXCEPT ![r] = q]
                 /\ q.at \in {"entityUpdate", "entityInsert"} /\ q.entity = e
    BY <1>3, SelectDoes
  <2>2. SlotTyped(q)
    BY <1>2, <2>1 DEF SlotTyped, Labels
  <2>3. UNCHANGED <<tables, posted>>
    BY <1>3 DEF EntitySelect, counts
  <2>4. QED
    BY <2>1, <2>2, <2>3, TablesSame, TypedStep
<1>4. CASE EntityUpdate(r)
  <2>1. req' = [req EXCEPT ![r] = Idle]
    BY <1>4 DEF EntityUpdate, Answer
  <2>2. /\ DOMAIN users' = DOMAIN users
        /\ \A u \in DOMAIN users :
              /\ AccountShape(users'[u])
              /\ users'[u].departmentId \in {users[u].departmentId, e.departmentId}
              /\ users'[u].departmentIds \in {users[u].departmentIds, e.departmentIds}
    BY <1>4, UpdateDoes
  <2>3. UsersTyped'
    BY <1>1, <1>2, <2>2 DEF UsersTyped, Account, AccountShape
  <2>4. QED
    BY <1>1, <2>1, <2>3, IdleTyped, DepartmentsSame, ContentSame, AnnouncementsSame, TypedStep
    DEF TypeInv
<1>5. CASE EntityInsert(r)
  <2>1. req' = [req EXCEPT ![r] = Idle]
    BY <1>5 DEF EntityInsert, Answer
  <2>2. /\ DOMAIN users' = DOMAIN users \cup {req[r].user}
        /\ \A u \in DOMAIN users : users'[u] = users[u]
        /\ req[r].user \notin DOMAIN users => users'[req[r].user] = e
        /\ req[r].user \in Users
    BY <1>5, InsertDoes
  <2>3. UsersTyped'
    BY <1>1, <1>2, <2>2 DEF UsersTyped
  <2>4. QED
    BY <1>1, <2>1, <2>3, IdleTyped, DepartmentsSame, ContentSame, AnnouncementsSame, TypedStep
    DEF TypeInv
<1>6. QED
  BY <1>3, <1>4, <1>5 DEF Save

LEMMA TypedClean ==
    ASSUME IInv, TypeInv, NEW r \in Requests, Clean(r) \/ CleanFails(r)
    PROVE  TypeInv'
<1>1. PICK q : req' = [req EXCEPT ![r] = q] /\ q.at = "clean"
  BY CleanDoes
<1>2. SlotTyped(q)
  BY <1>1 DEF SlotTyped, Labels
<1>3. /\ DOMAIN departments' \subseteq DOMAIN departments
      /\ \A d \in DOMAIN departments' : departments'[d] = departments[d]
      /\ \A u \in DOMAIN users' : u \in DOMAIN users /\ users'[u] = users[u]
      /\ UNCHANGED <<options, history, posted>>
      /\ timetables' \subseteq timetables /\ devices' \subseteq devices
      /\ announcements' \subseteq announcements
  BY CleanDoes
<1>4. applications' \subseteq Departments \cup {Null}
  <2>1. applications' \subseteq applications
    BY DEF Clean, CleanFails, tables
  <2>2. QED
    BY <2>1 DEF TypeInv
<1>5. DepartmentsTyped' /\ UsersTyped'
  BY <1>3 DEF TypeInv, DepartmentsTyped, UsersTyped
<1>6. ContentTyped' /\ AnnouncementsTyped'
  BY <1>3 DEF TypeInv, ContentTyped, AnnouncementsTyped, Posted
<1>7. QED
  BY <1>1, <1>2, <1>3, <1>4, <1>5, <1>6, TypedStep DEF TypeInv

LEMMA TypedElsewhere ==
    ASSUME IInv, TypeInv, Elsewhere
    PROVE  TypeInv'
<1>1. UNCHANGED <<req, departments, announcements, posted>>
  BY DEF Elsewhere, AccountUpdated, AccountDeleted, ContentAdded, OptionsAdded, Applied, Meanwhile
<1>2. ASSUME NEW u \in DOMAIN users, NEW d \in Departments \cup {Null},
             NEW ids \in SUBSET Departments, AccountUpdated(u, d, ids)
      PROVE  TypeInv'
  <2> PICK new : new = [departmentId |-> d, departmentIds |-> ids]
    OBVIOUS
  <2>1. users' = [users EXCEPT ![u] = new] /\ UNCHANGED <<options, content, applications>>
    BY <1>2 DEF AccountUpdated
  <2>2. new \in Account
    BY DEF Account
  <2>3. UsersTyped'
    BY <2>1, <2>2 DEF TypeInv, UsersTyped
  <2>4. QED
    BY <1>1, <2>1, <2>3, DepartmentsSame, ContentSame, AnnouncementsSame, TypedSame DEF TypeInv
<1>3. ASSUME NEW d \in Departments, ContentAdded(d) \/ OptionsAdded(d) PROVE TypeInv'
  <2>1. options' \subseteq Departments /\ UNCHANGED <<users, applications>>
    BY <1>3 DEF ContentAdded, OptionsAdded, TypeInv
  <2>2. ContentTyped'
    BY <1>3 DEF ContentAdded, OptionsAdded, TypeInv, ContentTyped, content
  <2>3. QED
    BY <1>1, <2>1, <2>2, DepartmentsSame, UsersSame, AnnouncementsSame, TypedSame DEF TypeInv
<1>4. ASSUME NEW d \in Departments \cup {Null}, Applied(d) PROVE TypeInv'
  <2>1. applications' \subseteq Departments \cup {Null} /\ UNCHANGED <<options, content, users>>
    BY <1>4 DEF Applied, TypeInv
  <2>2. QED
    BY <1>1, <2>1, DepartmentsSame, ContentSame, UsersSame, AnnouncementsSame, TypedSame
    DEF TypeInv
<1>5. ASSUME NEW u, AccountDeleted(u) PROVE TypeInv'
  <2>1. /\ DOMAIN users' \subseteq DOMAIN users
        /\ \A v \in DOMAIN users' : users'[v] = users[v]
        /\ UNCHANGED <<options, content, applications>>
    BY <1>5 DEF AccountDeleted
  <2>2. UsersTyped'
    BY <2>1 DEF TypeInv, UsersTyped
  <2>3. QED
    BY <1>1, <2>1, <2>2, DepartmentsSame, ContentSame, AnnouncementsSame, TypedSame DEF TypeInv
<1>6. QED
  BY <1>2, <1>3, <1>4, <1>5 DEF Elsewhere

LEMMA TypedNext == IInv /\ TypeInv /\ [Next]_vars => TypeInv'
<1> SUFFICES ASSUME IInv, TypeInv, [Next]_vars PROVE TypeInv'
  OBVIOUS
<1>1. CASE UNCHANGED vars
  <2>1. UNCHANGED <<tables, posted>> /\ UNCHANGED req
    BY <1>1 DEF vars, counts
  <2>2. QED
    BY <2>1, TablesSame, TypedSame
<1>2. ASSUME NEW r \in Requests, CleanAnswer(r) \/ StatementFails(r) PROVE TypeInv'
  <2>1. req' = [req EXCEPT ![r] = Idle] /\ UNCHANGED <<tables, posted>>
    BY <1>2 DEF CleanAnswer, StatementFails, Answer, counts
  <2>2. QED
    BY <2>1, IdleTyped, TablesSame, TypedStep
<1>3. CASE Crash
  <2>1. req' = [r \in Requests |-> Idle] /\ UNCHANGED <<tables, posted>>
    BY <1>3 DEF Crash
  <2>2. QED
    BY <2>1, IdleTyped, TablesSame DEF TypeInv
<1>4. ASSUME NEW r \in Requests, Step(r) PROVE TypeInv'
  BY <1>2, <1>4, TypedCreate, TypedDelete, TypedAnnounce, TypedSave, TypedClean DEF Step
<1>5. QED
  BY <1>1, <1>3, <1>4, TypedClient, TypedElsewhere DEF Next

-----------------------------------------------------------------------------
(* What deletions leave behind.                                            *)

\* The departments that a request may yet put into a table.
Mentions(q) ==
    IF q.at \in {"createSelect", "createUpdate", "createInsert", "optionsSelect", "optionsInsert"}
    THEN {q.dept}
    ELSE IF q.at = "updateAnnouncement" THEN q.targets
    ELSE IF q.at = "writeUsers" THEN UNION {w.departmentIds : w \in q.writes}
    ELSE IF q.at \in Saving THEN {q.entity.departmentId} \cup q.entity.departmentIds
    ELSE {}

\* The steps of a deletion, from one on.
FromOptions == {"options", "department"}
FromDevices == {"devices"} \cup FromOptions
FromFind == {"findAnnouncements", "announcements"} \cup FromDevices
FromHistory == {"history"} \cup FromFind
FromRead == {"readUsers", "writeUsers"} \cup FromHistory

\* What a deletion has done so far, while nothing else happens.
Progress(q) ==
    /\ q.at \in FromRead => \A u \in DOMAIN users : users[u].departmentId # q.dept
    /\ q.at = "writeUsers" =>
          /\ \A u \in DOMAIN users :
                q.dept \in users[u].departmentIds => \E w \in q.writes : w.user = u
          /\ \A w \in q.writes : q.dept \notin w.departmentIds
    /\ q.at \in FromHistory =>
          /\ \A u \in DOMAIN users : q.dept \notin users[u].departmentIds
          /\ q.dept \notin timetables
    /\ q.at \in FromFind => q.dept \notin history
    /\ q.at = "announcements" =>
          \A a \in announcements : q.dept \in a.targets => a.id \in q.ids
    /\ q.at \in FromDevices => \A a \in announcements : q.dept \notin a.targets
    /\ q.at \in FromOptions => q.dept \notin devices
    /\ q.at = "department" => q.dept \notin options

OneBusy == \A r, s \in Requests : req[r] # Idle /\ req[s] # Idle => r = s

EmptiedInv ==
    /\ emptied \subseteq Departments
    /\ \A r \in Requests : Mentions(req[r]) \cap emptied = {}
    /\ DeletedIsCleared
    /\ alone => OneBusy /\ \A r \in Requests : Progress(req[r])

-----------------------------------------------------------------------------

LEMMA IdleQuiet == Mentions(Idle) = {} /\ Progress(Idle)
BY DEF Mentions, Progress, Idle, FromRead, FromHistory, FromFind, FromDevices, FromOptions

LEMMA EmptiedInit == Init => EmptiedInv
<1>1. ASSUME Init PROVE EmptiedInv
  <2>1. emptied = {} /\ alone = FALSE /\ \A r \in Requests : req[r] = Idle
    BY <1>1 DEF Init
  <2>2. QED
    BY <2>1, IdleQuiet DEF EmptiedInv, DeletedIsCleared
<1>2. QED
  BY <1>1

\* A request in flight takes a step: what it may yet bring back was not deleted,
\* and if it is alone it has done what its label says.
LEMMA BusyStep ==
    ASSUME IInv, EmptiedInv, NEW r \in Requests, NEW q,
           req' = [req EXCEPT ![r] = q], req[r] # Idle, alone' = alone,
           emptied' \subseteq Departments,
           Mentions(q) \cap emptied' = {},
           \A s \in Requests : req[s] = Idle \/ s = r \/ emptied' = emptied,
           DeletedIsCleared', alone => Progress(q)'
    PROVE  EmptiedInv'
<1>1. \A s \in Requests : req'[s] = IF s = r THEN q ELSE req[s]
  BY DEF IInv, Shapes
<1>2. \A s \in Requests : Mentions(req'[s]) \cap emptied' = {}
  BY <1>1, IdleQuiet DEF EmptiedInv
<1>3. ASSUME alone, NEW s \in Requests, s # r PROVE req[s] = Idle
  BY <1>3 DEF EmptiedInv, OneBusy
<1>4. ASSUME alone, NEW s \in Requests PROVE Progress(req[s])'
  <2>1. CASE s = r
    <3>1. req'[s] = q
      BY <1>1, <2>1
    <3>2. QED
      BY <1>4, <3>1 DEF Progress
  <2>2. CASE s # r
    <3>1. req'[s] = Idle
      BY <1>1, <1>3, <1>4, <2>2
    <3>2. QED
      BY <3>1 DEF Progress, Idle, FromRead, FromHistory, FromFind, FromDevices, FromOptions
  <2>3. QED
    BY <2>1, <2>2
<1>5. alone => OneBusy'
  BY <1>1, <1>3 DEF OneBusy, Idle
<1>6. \A s \in Requests : Mentions(req[s])' = Mentions(req'[s])
  BY DEF Mentions
<1>7. QED
  BY <1>2, <1>4, <1>5, <1>6 DEF EmptiedInv

\* Where no table changes nothing comes back.
LEMMA NothingSame ==
    ASSUME EmptiedInv, emptied' \subseteq emptied, UNCHANGED tables
    PROVE  DeletedIsCleared'
BY DEF tables, content, EmptiedInv, DeletedIsCleared

\* The labels whose requests say nothing of a deletion.
Quiet == {"idle", "createSelect", "createUpdate", "createInsert", "optionsSelect",
          "optionsUpdate", "optionsInsert", "update", "nullUsers", "updateAnnouncement",
          "pin", "unpin", "removeAnnouncement", "clean"} \cup Saving

LEMMA QuietProgress ==
    ASSUME NEW q, q.at \in Quiet PROVE Progress(q)'
BY DEF Progress, Quiet, FromRead, FromHistory, FromFind, FromDevices, FromOptions

\* A request begins: if it is alone no other is there, and what it mentions no
\* longer counts as deleted.
LEMMA Begun ==
    ASSUME IInv, EmptiedInv, NEW r \in Requests, NEW q, NEW M,
           Begin(r, q, M), q.at \in Quiet, Mentions(q) \cap emptied \subseteq M,
           UNCHANGED tables
    PROVE  EmptiedInv'
<1>1. \A s \in Requests : req'[s] = IF s = r THEN q ELSE req[s]
  BY DEF Begin, IInv, Shapes
<1>2. emptied' = emptied \ M
  BY DEF Begin
<1>3. \A s \in Requests : Mentions(req[s])' = Mentions(req'[s])
  BY DEF Mentions
<1>4. \A s \in Requests : Mentions(req[s])' \cap emptied' = {}
  BY <1>1, <1>2, <1>3 DEF EmptiedInv
<1>5. DeletedIsCleared' /\ emptied' \subseteq Departments
  BY <1>2, NothingSame DEF EmptiedInv
<1>6. alone' => \A s \in Requests : req[s] = Idle
  BY DEF Begin
<1>7. alone' => OneBusy'
  BY <1>1, <1>6 DEF OneBusy
<1>8. ASSUME alone', NEW s \in Requests PROVE Progress(req[s])'
  <2>1. req'[s].at \in Quiet
    BY <1>1, <1>6, <1>8 DEF Idle, Quiet
  <2>2. QED
    BY <2>1 DEF Progress, Quiet, FromRead, FromHistory, FromFind, FromDevices, FromOptions
<1>9. QED
  BY <1>4, <1>5, <1>7, <1>8 DEF EmptiedInv

LEMMA EmptiedClient ==
    ASSUME IInv, TypeInv, EmptiedInv, NEW r \in Requests, Client(r)
    PROVE  EmptiedInv'
<1>1. ASSUME NEW d \in Departments, NEW name \in Names,
             CreateFind(r, d, name) \/ UpdateFind(r, d, name)
      PROVE  EmptiedInv'
  <2> PICK create, update : /\ create = [at |-> "createSelect", dept |-> d, name |-> name]
                            /\ update = [at |-> "update", dept |-> d, name |-> name]
    OBVIOUS
  <2>1. Begin(r, create, {d}) \/ Begin(r, update, {})
    BY <1>1 DEF CreateFind, UpdateFind
  <2>2. create.at \in Quiet /\ update.at \in Quiet /\ UNCHANGED tables
    BY <1>1 DEF Quiet, CreateFind, UpdateFind
  <2>3. Mentions(create) \subseteq {d} /\ Mentions(update) \subseteq {}
    BY DEF Mentions
  <2>4. QED
    BY <2>1, <2>2, <2>3, Begun
<1>2. ASSUME NEW d \in Departments, DeleteFind(r, d) PROVE EmptiedInv'
  <2> PICK q : q = Holding("nullUsers", d)
    OBVIOUS
  <2>1. Begin(r, q, {d}) /\ UNCHANGED tables
    BY <1>2 DEF DeleteFind
  <2>2. q.at \in Quiet /\ Mentions(q) \subseteq {d}
    BY DEF Quiet, Mentions, Holding
  <2>3. QED
    BY <2>1, <2>2, Begun
<1>3. ASSUME NEW access, NEW targets \in Targets, CreateAnnouncement(r, access, targets)
      PROVE  EmptiedInv'
  <2> PICK new : new = [id |-> posted + 1, targets |-> targets, pinned |-> FALSE]
    OBVIOUS
  <2>1. /\ announcements' = announcements \cup {new} /\ new.targets = targets
        /\ alone' = FALSE /\ emptied' = emptied \ targets
        /\ UNCHANGED <<departments, options, content, users, req>>
    BY <1>3 DEF CreateAnnouncement
  <2>2. DeletedIsCleared'
    BY <2>1 DEF EmptiedInv, DeletedIsCleared, content
  <2>3. \A s \in Requests : Mentions(req[s])' \cap emptied' = {}
    BY <2>1 DEF EmptiedInv, Mentions
  <2>4. QED
    BY <2>1, <2>2, <2>3 DEF EmptiedInv
<1>4. ASSUME NEW access, NEW d, NEW id, NEW targets \in Targets, NEW q \in Changes(id, targets),
             FindAnnouncement(r, access, d, q)
      PROVE  EmptiedInv'
  <2>1. Begin(r, q, q.targets) /\ UNCHANGED tables
    BY <1>4 DEF FindAnnouncement
  <2>2. q.at \in Quiet /\ Mentions(q) \subseteq q.targets
    BY DEF Changes, Quiet, Mentions
  <2>3. QED
    BY <2>1, <2>2, Begun
<1>5. ASSUME NEW categories, NEW scope, BeginCleanup(r, categories, scope) PROVE EmptiedInv'
  <2> PICK told : told = DataSummary(scope)
    OBVIOUS
  <2> PICK q : q = [at |-> "clean", scope |-> scope, todo |-> categories, told |-> told,
                    deleted |-> <<>>, errors |-> {}]
    OBVIOUS
  <2>1. Begin(r, q, {}) /\ UNCHANGED tables
    BY <1>5 DEF BeginCleanup
  <2>2. q.at \in Quiet /\ Mentions(q) \subseteq {}
    BY DEF Quiet, Mentions
  <2>3. QED
    BY <2>1, <2>2, Begun
<1>6. ASSUME NEW u \in Users, EntityFind(r, u) PROVE EmptiedInv'
  <2>1. PICK q, d, M : Found(r, u, q, d, M)
    BY <1>6, FindDoes
  <2> PICK ids : ids = users[u].departmentIds
    OBVIOUS
  <2>2. /\ q.at = "entitySelect" /\ q.entity = [departmentId |-> d, departmentIds |-> ids]
        /\ u \in DOMAIN users /\ Begin(r, q, M)
        /\ \/ d = users[u].departmentId /\ M = {}
           \/ M = {d}
    BY <2>1 DEF Found
  <2>3. ids \cap emptied = {} /\ (d = users[u].departmentId => d \notin emptied)
    BY <2>2 DEF EmptiedInv, DeletedIsCleared
  <2>4. Mentions(q) = {d} \cup ids
    BY <2>2 DEF Mentions
  <2>5. Mentions(q) \cap emptied \subseteq M /\ q.at \in Quiet
    BY <2>2, <2>3, <2>4 DEF Quiet
  <2>6. UNCHANGED tables
    BY <1>6 DEF EntityFind
  <2>7. QED
    BY <2>2, <2>5, <2>6, Begun
<1>7. QED
  BY <1>1, <1>2, <1>3, <1>4, <1>5, <1>6 DEF Client

\* A request that is no deletion takes a step or ends.
LEMMA QuietBusy ==
    ASSUME IInv, EmptiedInv, NEW r \in Requests, NEW q,
           req' = [req EXCEPT ![r] = q], req[r] # Idle, UNCHANGED <<alone, emptied>>,
           q.at \in Quiet, Mentions(q) \subseteq Mentions(req[r]), DeletedIsCleared'
    PROVE  EmptiedInv'
<1>1. Mentions(q) \cap emptied' = {} /\ emptied' \subseteq Departments
  BY DEF EmptiedInv
<1>2. QED
  BY <1>1, QuietProgress, BusyStep

LEMMA IdleMentions == Mentions(Idle) = {} /\ Idle.at \in Quiet
BY DEF Mentions, Idle, Quiet

LEMMA EmptiedCreate ==
    ASSUME IInv, TypeInv, EmptiedInv, NEW r \in Requests, Create(r)
    PROVE  EmptiedInv'
<1> PICK d : d = req[r].dept
  OBVIOUS
<1>1. /\ req[r].at \in {"createSelect", "createUpdate", "createInsert", "optionsSelect",
                        "optionsUpdate", "optionsInsert", "update"}
      /\ UNCHANGED <<alone, emptied>>
  BY DEF Create, CreateSelect, CreateUpdate, CreateInsert, CreateInsertRefused, OptionsSelect,
         OptionsUpdate, OptionsInsert, UpdateDepartment, record
<1>2. req[r] # Idle
  BY <1>1 DEF Idle
<1>3. ASSUME NEW q, req' = [req EXCEPT ![r] = q], q.at \in Quiet,
             Mentions(q) \subseteq Mentions(req[r]),
             DOMAIN departments' \subseteq DOMAIN departments \cup Mentions(req[r]),
             options' \subseteq options \cup Mentions(req[r]),
             UNCHANGED <<content, users, announcements>>
      PROVE  EmptiedInv'
  <2>1. Mentions(req[r]) \cap emptied' = {}
    BY <1>1 DEF EmptiedInv
  <2>2. DeletedIsCleared'
    BY <1>1, <1>3, <2>1 DEF EmptiedInv, DeletedIsCleared, content
  <2>3. QED
    BY <1>1, <1>2, <1>3, <2>2, QuietBusy
<1>4. ASSUME NEW at \in {"createUpdate", "createInsert", "optionsSelect", "optionsUpdate",
                         "optionsInsert"},
             Goto(r, at), req[r].at \in {"createSelect", "createUpdate", "createInsert",
                                         "optionsSelect"}
      PROVE  \E q : /\ req' = [req EXCEPT ![r] = q] /\ q.at \in Quiet
                    /\ Mentions(q) \subseteq Mentions(req[r])
  <2>1. PICK q : /\ req' = [req EXCEPT ![r] = q] /\ q.at = at /\ q.dept = req[r].dept
    BY <1>4, GotoShape DEF Labels
  <2>2. q.at \in Quiet /\ Mentions(q) \subseteq Mentions(req[r])
    BY <1>4, <2>1 DEF Mentions, Quiet
  <2>3. QED
    BY <2>1, <2>2
<1>5. CASE CreateSelect(r) \/ OptionsSelect(r)
  <2>1. PICK at \in {"createUpdate", "createInsert", "optionsUpdate", "optionsInsert"} :
            /\ Goto(r, at) /\ req[r].at \in {"createSelect", "optionsSelect"}
            /\ UNCHANGED tables
    BY <1>5 DEF CreateSelect, OptionsSelect, Decide
  <2>2. PICK q : /\ req' = [req EXCEPT ![r] = q] /\ q.at \in Quiet
                 /\ Mentions(q) \subseteq Mentions(req[r])
    BY <1>4, <2>1
  <2>3. QED
    BY <1>3, <2>1, <2>2 DEF tables
<1>6. CASE CreateUpdate(r) \/ CreateInsert(r)
  <2>1. /\ Goto(r, "optionsSelect") /\ req[r].at \in {"createUpdate", "createInsert"}
        /\ DOMAIN departments' \subseteq DOMAIN departments \cup {d}
        /\ UNCHANGED <<options, content, users, announcements>>
    BY <1>6 DEF CreateUpdate, CreateInsert
  <2>2. PICK q : /\ req' = [req EXCEPT ![r] = q] /\ q.at \in Quiet
                 /\ Mentions(q) \subseteq Mentions(req[r])
    BY <1>4, <2>1
  <2>3. Mentions(req[r]) = {d}
    BY <2>1 DEF Mentions
  <2>4. QED
    BY <1>3, <2>1, <2>2, <2>3
<1>7. CASE CreateInsertRefused(r) \/ OptionsUpdate(r)
  <2>1. req' = [req EXCEPT ![r] = Idle] /\ UNCHANGED tables
    BY <1>7 DEF CreateInsertRefused, OptionsUpdate, Answer
  <2>2. QED
    BY <1>3, <2>1, IdleMentions DEF tables
<1>8. CASE OptionsInsert(r)
  <2>1. /\ req' = [req EXCEPT ![r] = Idle] /\ req[r].at = "optionsInsert"
        /\ options' = options \cup {d}
        /\ UNCHANGED <<departments, content, users, announcements>>
    BY <1>8 DEF OptionsInsert, Answer
  <2>2. Mentions(req[r]) = {d}
    BY <2>1 DEF Mentions
  <2>3. QED
    BY <1>3, <2>1, <2>2, IdleMentions
<1>9. CASE UpdateDepartment(r)
  <2>1. /\ req' = [req EXCEPT ![r] = Idle] /\ DOMAIN departments' = DOMAIN departments
        /\ UNCHANGED <<options, content, users, announcements>>
    BY <1>9 DEF UpdateDepartment, Answer
  <2>2. QED
    BY <1>3, <2>1, IdleMentions
<1>10. QED
  BY <1>5, <1>6, <1>7, <1>8, <1>9 DEF Create

\* A deletion takes a step before its last.
LEMMA DeletionStep ==
    ASSUME IInv, EmptiedInv, NEW r \in Requests, NEW q,
           req' = [req EXCEPT ![r] = q], req[r] # Idle, UNCHANGED <<alone, emptied>>,
           Mentions(q) \cap emptied = {}, DeletedIsCleared', alone => Progress(q)'
    PROVE  EmptiedInv'
<1>1. Mentions(q) \cap emptied' = {} /\ emptied' \subseteq Departments
  BY DEF EmptiedInv
<1>2. QED
  BY <1>1, BusyStep

\* The labels from which a deletion mentions nothing it could bring back.
LEMMA DeletionMentions ==
    ASSUME NEW q, q.at \in {"readUsers"} \cup FromHistory PROVE Mentions(q) = {}
BY DEF Mentions, FromHistory, FromFind, FromDevices, FromOptions

LEMMA EmptiedUsers ==
    ASSUME IInv, TypeInv, EmptiedInv, NEW r \in Requests,
           NullUsers(r) \/ ReadUsers(r) \/ WriteUser(r)
    PROVE  EmptiedInv'
<1> PICK d : d = req[r].dept
  OBVIOUS
<1>1. /\ req[r].at \in {"nullUsers", "readUsers", "writeUsers"}
      /\ UNCHANGED <<alone, emptied>>
  BY DEF NullUsers, ReadUsers, WriteUser, record
<1>2. req[r] # Idle
  BY <1>1 DEF Idle
<1>3. d \in Departments
  BY <1>1 DEF TypeInv, SlotTyped, Labels
<1>4. alone => Progress(req[r])
  BY DEF EmptiedInv
<1>5. emptied \subseteq Departments /\ Null \notin Departments
  BY DepartmentsAssumption DEF EmptiedInv
<1>6. CASE NullUsers(r)
  <2>1. /\ DOMAIN users' = DOMAIN users
        /\ \A u \in DOMAIN users :
              /\ users'[u].departmentIds = users[u].departmentIds
              /\ users'[u].departmentId =
                    IF users[u].departmentId = d THEN Null ELSE users[u].departmentId
    BY <1>6, NullDoes
  <2>2. /\ Goto(r, "readUsers") /\ req[r].at = "nullUsers"
        /\ UNCHANGED <<departments, options, content, announcements>>
    BY <1>6 DEF NullUsers
  <2>3. PICK q : req' = [req EXCEPT ![r] = q] /\ q.at = "readUsers" /\ q.dept = d
    BY <2>2, GotoShape DEF Labels
  <2>4. Progress(q)'
    BY <1>3, <1>5, <2>1, <2>3
    DEF Progress, FromRead, FromHistory, FromFind, FromDevices, FromOptions
  <2>5. DeletedIsCleared'
    BY <1>1, <1>5, <2>1, <2>2 DEF EmptiedInv, DeletedIsCleared, content
  <2>6. QED
    BY <1>1, <1>2, <2>3, <2>4, <2>5, DeletionMentions, DeletionStep
<1>7. CASE ReadUsers(r)
  <2>1. PICK q : /\ req' = [req EXCEPT ![r] = q] /\ q.at = "writeUsers" /\ q.dept = d
                 /\ \A w \in q.writes : /\ w.user \in DOMAIN users
                                        /\ w.departmentIds = users[w.user].departmentIds \ {d}
                 /\ \A u \in DOMAIN users :
                       d \in users[u].departmentIds => \E w \in q.writes : w.user = u
    BY <1>7, ReadDoes
  <2>2. UNCHANGED tables /\ req[r].at = "readUsers"
    BY <1>7 DEF ReadUsers
  <2>3. alone => Progress(q)'
    BY <1>4, <2>1, <2>2
    DEF Progress, tables, FromRead, FromHistory, FromFind, FromDevices, FromOptions
  <2>4. Mentions(q) \cap emptied = {}
    <3>1. \A w \in q.writes : w.departmentIds \cap emptied = {}
      BY <2>1 DEF EmptiedInv, DeletedIsCleared
    <3>2. QED
      BY <2>1, <3>1 DEF Mentions
  <2>5. DeletedIsCleared'
    BY <1>1, <2>2, NothingSame
  <2>6. QED
    BY <1>1, <1>2, <2>1, <2>3, <2>4, <2>5, DeletionStep
<1>8. CASE WriteUser(r)
  <2>1. PICK w \in req[r].writes : \E q :
               /\ req' = [req EXCEPT ![r] = q]
               /\ q.at = "writeUsers" /\ q.dept = d /\ q.writes = req[r].writes \ {w}
               /\ DOMAIN users' = DOMAIN users
               /\ \A u \in DOMAIN users :
                     /\ users'[u].departmentId = users[u].departmentId
                     /\ users'[u].departmentIds = IF u = w.user THEN w.departmentIds
                                                  ELSE users[u].departmentIds
    BY <1>8, WriteDoes
  <2>2. PICK q :
               /\ req' = [req EXCEPT ![r] = q]
               /\ q.at = "writeUsers" /\ q.dept = d /\ q.writes = req[r].writes \ {w}
    BY <2>1
  <2>3. /\ req[r].at = "writeUsers"
        /\ UNCHANGED <<departments, options, content, announcements>>
    BY <1>8 DEF WriteUser
  <2>a. Mentions(req[r]) \cap emptied = {}
    BY DEF EmptiedInv
  <2>b. \A x \in req[r].writes : x.departmentIds \subseteq Mentions(req[r])
    BY <2>3 DEF Mentions
  <2>4. w.departmentIds \cap emptied = {}
    BY <2>1, <2>a, <2>b
  <2>5. Mentions(q) \cap emptied = {}
    <3>1. \A x \in q.writes : x.departmentIds \cap emptied = {}
      BY <2>2, <2>a, <2>b
    <3>2. QED
      BY <2>2, <3>1 DEF Mentions
  <2>6. alone => Progress(q)'
    BY <1>4, <2>1, <2>2, <2>3
    DEF Progress, FromRead, FromHistory, FromFind, FromDevices, FromOptions
  <2>7. DeletedIsCleared'
    BY <1>1, <2>1, <2>3, <2>4 DEF EmptiedInv, DeletedIsCleared, content
  <2>8. QED
    BY <1>1, <1>2, <2>2, <2>5, <2>6, <2>7, DeletionStep
<1>9. QED
  BY <1>6, <1>7, <1>8

LEMMA EmptiedDelete ==
    ASSUME IInv, TypeInv, EmptiedInv, NEW r \in Requests, Delete(r)
    PROVE  EmptiedInv'
<1> PICK d : d = req[r].dept
  OBVIOUS
<1>1. req[r].at \in Labels /\ req[r] # Idle
  BY DEF Delete, NullUsers, ReadUsers, WriteUser, DeleteTimetables, DeleteHistory,
         FindAnnouncements, DeleteAnnouncements, DeleteDevices, DeleteOptions,
         RemoveDepartment, Labels, Idle
<1>2. alone => Progress(req[r])
  BY DEF EmptiedInv
<1>3. ASSUME NEW q, req' = [req EXCEPT ![r] = q], q.at \in FromHistory,
             UNCHANGED <<alone, emptied>>,
             DOMAIN departments' \subseteq DOMAIN departments, options' \subseteq options,
             timetables' \subseteq timetables, history' \subseteq history,
             devices' \subseteq devices, announcements' \subseteq announcements,
             UNCHANGED users, alone => Progress(q)'
      PROVE  EmptiedInv'
  <2>1. DeletedIsCleared'
    BY <1>3 DEF EmptiedInv, DeletedIsCleared
  <2>2. QED
    BY <1>1, <1>3, <2>1, DeletionMentions, DeletionStep
<1>4. CASE DeleteTimetables(r)
  <2> PICK q : q = Holding("history", d)
    OBVIOUS
  <2>1. q.at = "history" /\ q.dept = d
    BY DEF Holding
  <2>2. /\ req' = [req EXCEPT ![r] = q] /\ req[r].at = "writeUsers" /\ req[r].writes = {}
        /\ timetables' = timetables \ {d}
        /\ UNCHANGED <<alone, emptied, departments, options, history, devices, users,
                       announcements>>
    BY <1>4 DEF DeleteTimetables, record
  <2>3. alone => Progress(q)'
    BY <1>2, <2>1, <2>2
    DEF Progress, FromRead, FromHistory, FromFind, FromDevices, FromOptions
  <2>4. QED
    BY <1>3, <2>1, <2>2, <2>3 DEF FromHistory
<1>5. CASE DeleteHistory(r)
  <2>1. /\ Goto(r, "findAnnouncements") /\ req[r].at = "history"
        /\ history' = history \ {d}
        /\ UNCHANGED <<alone, emptied, departments, options, timetables, devices, users,
                       announcements>>
    BY <1>5 DEF DeleteHistory, record
  <2>2. PICK q : req' = [req EXCEPT ![r] = q] /\ q.at = "findAnnouncements" /\ q.dept = d
    BY <1>1, <2>1, GotoShape DEF Labels
  <2>3. alone => Progress(q)'
    BY <1>2, <2>1, <2>2
    DEF Progress, FromRead, FromHistory, FromFind, FromDevices, FromOptions
  <2>4. QED
    BY <1>3, <2>1, <2>2, <2>3 DEF FromHistory, FromFind
<1>6. CASE FindAnnouncements(r)
  <2> PICK ids : ids = {a.id : a \in {a \in announcements : {d, "all"} \cap a.targets # {}}}
    OBVIOUS
  <2> PICK q : q = [at |-> "announcements", dept |-> d, ids |-> ids]
    OBVIOUS
  <2>1. /\ req' = [req EXCEPT ![r] = q] /\ req[r].at = "findAnnouncements"
        /\ UNCHANGED <<alone, emptied, tables>>
    BY <1>6 DEF FindAnnouncements, record
  <2>2. \A a \in announcements : d \in a.targets => a.id \in ids
    OBVIOUS
  <2>3. q.at = "announcements" /\ q.dept = d /\ q.ids = ids
    OBVIOUS
  <2>4. alone => Progress(q)'
    BY <1>2, <2>1, <2>2, <2>3
    DEF Progress, FromRead, FromHistory, FromFind, FromDevices, FromOptions, tables, content
  <2>5. QED
    BY <1>3, <2>1, <2>3, <2>4 DEF FromHistory, FromFind, tables, content
<1>7. CASE DeleteAnnouncements(r)
  <2> PICK q : q = Holding("devices", d)
    OBVIOUS
  <2>1. q.at = "devices" /\ q.dept = d
    BY DEF Holding
  <2>2. /\ req' = [req EXCEPT ![r] = q] /\ req[r].at = "announcements"
        /\ announcements' = {a \in announcements : a.id \notin req[r].ids}
        /\ UNCHANGED <<alone, emptied, departments, options, timetables, history, devices,
                       users>>
    BY <1>7 DEF DeleteAnnouncements, record, content
  <2>3. alone => Progress(q)'
    BY <1>2, <2>1, <2>2
    DEF Progress, FromRead, FromHistory, FromFind, FromDevices, FromOptions
  <2>4. QED
    BY <1>3, <2>1, <2>2, <2>3 DEF FromHistory, FromFind, FromDevices
<1>8. CASE DeleteDevices(r)
  <2>1. /\ Goto(r, "options") /\ req[r].at = "devices"
        /\ devices' = devices \ {d}
        /\ UNCHANGED <<alone, emptied, departments, options, timetables, history, users,
                       announcements>>
    BY <1>8 DEF DeleteDevices, record
  <2>2. PICK q : req' = [req EXCEPT ![r] = q] /\ q.at = "options" /\ q.dept = d
    BY <1>1, <2>1, GotoShape DEF Labels
  <2>3. alone => Progress(q)'
    BY <1>2, <2>1, <2>2
    DEF Progress, FromRead, FromHistory, FromFind, FromDevices, FromOptions
  <2>4. QED
    BY <1>3, <2>1, <2>2, <2>3 DEF FromHistory, FromFind, FromDevices, FromOptions
<1>9. CASE DeleteOptions(r)
  <2>1. /\ Goto(r, "department") /\ req[r].at = "options"
        /\ options' = options \ {d}
        /\ UNCHANGED <<alone, emptied, departments, timetables, history, devices, users,
                       announcements>>
    BY <1>9 DEF DeleteOptions, record, content
  <2>2. PICK q : req' = [req EXCEPT ![r] = q] /\ q.at = "department" /\ q.dept = d
    BY <1>1, <2>1, GotoShape DEF Labels
  <2>3. alone => Progress(q)'
    BY <1>2, <2>1, <2>2
    DEF Progress, FromRead, FromHistory, FromFind, FromDevices, FromOptions
  <2>4. QED
    BY <1>3, <2>1, <2>2, <2>3 DEF FromHistory, FromFind, FromDevices, FromOptions
<1>10. CASE RemoveDepartment(r)
  <2>1. /\ req' = [req EXCEPT ![r] = Idle] /\ req[r].at = "department"
        /\ DOMAIN departments' = DOMAIN departments \ {d}
        /\ emptied' = IF alone THEN emptied \cup {d} ELSE emptied
        /\ UNCHANGED <<alone, options, timetables, history, devices, users, announcements>>
    BY <1>10 DEF RemoveDepartment, Answer, content
  <2>2. d \in Departments
    BY <1>1 DEF TypeInv, SlotTyped
  <2>3. emptied' \subseteq Departments
    BY <2>1, <2>2 DEF EmptiedInv
  <2>4. DeletedIsCleared'
    BY <1>2, <2>1 DEF EmptiedInv, DeletedIsCleared, Progress, FromRead, FromHistory,
                      FromFind, FromDevices, FromOptions
  <2>5. \A s \in Requests : req[s] = Idle \/ s = r \/ emptied' = emptied
    BY <1>1, <2>1 DEF EmptiedInv, OneBusy
  <2>6. Mentions(Idle) = {} /\ Progress(Idle)'
    BY IdleMentions, QuietProgress
  <2>7. QED
    BY <1>1, <2>1, <2>3, <2>4, <2>5, <2>6, BusyStep
<1>11. QED
  BY <1>4, <1>5, <1>6, <1>7, <1>8, <1>9, <1>10, EmptiedUsers DEF Delete

LEMMA EmptiedAnnounce ==
    ASSUME IInv, EmptiedInv, NEW r \in Requests, Announce(r)
    PROVE  EmptiedInv'
<1>1. /\ req' = [req EXCEPT ![r] = Idle] /\ req[r] # Idle
      /\ UNCHANGED <<alone, emptied, departments, options, content, users>>
  BY DEF Announce, UpdateAnnouncement, PinAnnouncement, RemoveAnnouncement, Answer, record, Idle
<1>2. ASSUME NEW a \in announcements'
      PROVE  \/ a.targets \subseteq Mentions(req[r])
             \/ \E b \in announcements : a.targets = b.targets
  <2>1. CASE UpdateAnnouncement(r)
    <3>1. PICK b \in announcements :
              a = IF b.id = req[r].id THEN [b EXCEPT !.targets = req[r].targets] ELSE b
      BY <1>2, <2>1 DEF UpdateAnnouncement
    <3>2. req[r].at = "updateAnnouncement"
      BY <2>1 DEF UpdateAnnouncement
    <3>3. a.targets = b.targets \/ a.targets = req[r].targets
      BY <3>1
    <3>4. QED
      BY <3>2, <3>3 DEF Mentions
  <2>2. CASE PinAnnouncement(r)
    <3>1. PICK b \in announcements :
              a = IF b.id = req[r].id THEN [b EXCEPT !.pinned = req[r].at = "pin"] ELSE b
      BY <1>2, <2>2, Zenon DEF PinAnnouncement
    <3>2. a.targets = b.targets
      BY <3>1
    <3>3. QED
      BY <3>2
  <2>3. CASE RemoveAnnouncement(r)
    BY <1>2, <2>3 DEF RemoveAnnouncement
  <2>4. QED
    BY <2>1, <2>2, <2>3 DEF Announce
<1>3. Mentions(req[r]) \cap emptied' = {}
  BY <1>1 DEF EmptiedInv
<1>4. DeletedIsCleared'
  BY <1>1, <1>2, <1>3 DEF EmptiedInv, DeletedIsCleared, content
<1>5. QED
  BY <1>1, <1>4, IdleMentions, QuietBusy

\* The save of an account writes what it mentions.
LEMMA EmptiedSave ==
    ASSUME IInv, TypeInv, EmptiedInv, NEW r \in Requests, Save(r)
    PROVE  EmptiedInv'
<1>1. /\ req[r].at \in Saving /\ req[r] # Idle
      /\ UNCHANGED <<alone, emptied, departments, options, content, announcements>>
  BY DEF Save, EntitySelect, EntityUpdate, EntityInsert, Idle, tables, record
<1> PICK e : e = req[r].entity
  OBVIOUS
<1>2. Mentions(req[r]) = {e.departmentId} \cup e.departmentIds /\ Mentions(req[r]) \cap emptied = {}
  BY <1>1 DEF Mentions, EmptiedInv
<1>3. ASSUME \A u \in DOMAIN users' :
                 \/ users'[u] = e
                 \/ /\ u \in DOMAIN users
                    /\ users'[u].departmentId \in {users[u].departmentId, e.departmentId}
                    /\ users'[u].departmentIds \in {users[u].departmentIds, e.departmentIds}
      PROVE  DeletedIsCleared'
  BY <1>1, <1>2, <1>3 DEF EmptiedInv, DeletedIsCleared, content
<1>4. CASE EntitySelect(r)
  <2>1. PICK q : /\ req' = [req EXCEPT ![r] = q]
                 /\ q.at \in {"entityUpdate", "entityInsert"} /\ q.entity = e
    BY <1>4, SelectDoes
  <2>2. q.at \in Quiet /\ Mentions(q) \subseteq Mentions(req[r])
    BY <1>2, <2>1 DEF Quiet, Mentions
  <2>3. DeletedIsCleared'
    BY <1>1, <1>4, NothingSame DEF EntitySelect
  <2>4. QED
    BY <1>1, <2>1, <2>2, <2>3, QuietBusy
<1>5. CASE EntityUpdate(r)
  <2>1. req' = [req EXCEPT ![r] = Idle]
    BY <1>5 DEF EntityUpdate, Answer
  <2>2. /\ DOMAIN users' = DOMAIN users
        /\ \A u \in DOMAIN users :
              /\ users'[u].departmentId \in {users[u].departmentId, e.departmentId}
              /\ users'[u].departmentIds \in {users[u].departmentIds, e.departmentIds}
    BY <1>5, UpdateDoes
  <2>3. DeletedIsCleared'
    BY <1>3, <2>2
  <2>4. QED
    BY <1>1, <2>1, <2>3, IdleMentions, QuietBusy
<1>6. CASE EntityInsert(r)
  <2>1. req' = [req EXCEPT ![r] = Idle]
    BY <1>6 DEF EntityInsert, Answer
  <2>2. /\ DOMAIN users' = DOMAIN users \cup {req[r].user}
        /\ \A u \in DOMAIN users : users'[u] = users[u]
        /\ req[r].user \notin DOMAIN users => users'[req[r].user] = e
    BY <1>6, InsertDoes
  <2>3. DeletedIsCleared'
    BY <1>3, <2>2
  <2>4. QED
    BY <1>1, <2>1, <2>3, IdleMentions, QuietBusy
<1>7. QED
  BY <1>4, <1>5, <1>6 DEF Save

LEMMA EmptiedElsewhere ==
    ASSUME EmptiedInv, Elsewhere
    PROVE  EmptiedInv'
<1>1. UNCHANGED req /\ alone' = FALSE
  BY DEF Elsewhere, AccountUpdated, AccountDeleted, ContentAdded, OptionsAdded, Applied, Meanwhile
<1>2. emptied' \subseteq emptied /\ DeletedIsCleared'
  <2>1. ASSUME NEW u \in DOMAIN users, NEW d \in Departments \cup {Null},
               NEW ids \in SUBSET Departments, AccountUpdated(u, d, ids)
        PROVE  emptied' \subseteq emptied /\ DeletedIsCleared'
    <3> PICK new : new = [departmentId |-> d, departmentIds |-> ids]
      OBVIOUS
    <3>1. /\ users' = [users EXCEPT ![u] = new]
          /\ new.departmentId = d /\ new.departmentIds = ids
          /\ emptied' = emptied \ ({d} \cup ids)
          /\ UNCHANGED <<departments, options, content, announcements>>
      BY <2>1 DEF AccountUpdated, Meanwhile
    <3>2. QED
      BY <3>1 DEF EmptiedInv, DeletedIsCleared, content
  <2>2. ASSUME NEW d \in Departments, ContentAdded(d) \/ OptionsAdded(d)
        PROVE  emptied' \subseteq emptied /\ DeletedIsCleared'
    <3>1. /\ options' \subseteq options \cup {d} /\ timetables' \subseteq timetables \cup {d}
          /\ history' \subseteq history \cup {d} /\ devices' \subseteq devices \cup {d}
          /\ emptied' = emptied \ {d}
          /\ UNCHANGED <<departments, users, announcements>>
      BY <2>2 DEF ContentAdded, OptionsAdded, Meanwhile, content
    <3>2. QED
      BY <3>1 DEF EmptiedInv, DeletedIsCleared
  <2>3. ASSUME NEW d, Applied(d) PROVE emptied' \subseteq emptied /\ DeletedIsCleared'
    BY <2>3 DEF Applied, Meanwhile, EmptiedInv, DeletedIsCleared, content
  <2>4. ASSUME NEW u, AccountDeleted(u) PROVE emptied' \subseteq emptied /\ DeletedIsCleared'
    BY <2>4 DEF AccountDeleted, Meanwhile, EmptiedInv, DeletedIsCleared, content
  <2>5. QED
    BY <2>1, <2>2, <2>3, <2>4 DEF Elsewhere
<1>3. \A s \in Requests : Mentions(req[s])' \cap emptied' = {}
  BY <1>1, <1>2 DEF EmptiedInv, Mentions
<1>4. QED
  BY <1>1, <1>2, <1>3 DEF EmptiedInv

LEMMA EmptiedNext == IInv /\ TypeInv /\ EmptiedInv /\ [Next]_vars => EmptiedInv'
<1> SUFFICES ASSUME IInv, TypeInv, EmptiedInv, [Next]_vars PROVE EmptiedInv'
  OBVIOUS
<1>1. CASE UNCHANGED vars
  BY <1>1 DEF vars, tables, record, content, EmptiedInv, DeletedIsCleared, OneBusy,
              Mentions, Progress
<1>2. ASSUME NEW r \in Requests, Clean(r) \/ CleanFails(r) PROVE EmptiedInv'
  <2>1. PICK q : req' = [req EXCEPT ![r] = q] /\ q.at = "clean"
    BY <1>2, CleanDoes
  <2>2. /\ DOMAIN departments' \subseteq DOMAIN departments
        /\ \A u \in DOMAIN users' : u \in DOMAIN users /\ users'[u] = users[u]
        /\ UNCHANGED <<options, history, alone, emptied>>
        /\ timetables' \subseteq timetables /\ devices' \subseteq devices
        /\ announcements' \subseteq announcements
    BY <1>2, CleanDoes DEF record
  <2>3. DeletedIsCleared'
    BY <2>2 DEF EmptiedInv, DeletedIsCleared
  <2>4. req[r] # Idle /\ q.at \in Quiet /\ Mentions(q) \subseteq Mentions(req[r])
    BY <1>2, <2>1 DEF Clean, CleanFails, Idle, Quiet, Mentions
  <2>5. QED
    BY <2>1, <2>2, <2>3, <2>4, QuietBusy
<1>3. ASSUME NEW r \in Requests, CleanAnswer(r) \/ StatementFails(r) PROVE EmptiedInv'
  <2>1. /\ req' = [req EXCEPT ![r] = Idle] /\ UNCHANGED <<tables, alone, emptied>>
        /\ req[r] # Idle
    BY <1>3 DEF CleanAnswer, StatementFails, Answer, record, Idle
  <2>2. DeletedIsCleared'
    BY <2>1, NothingSame
  <2>3. QED
    BY <2>1, <2>2, IdleMentions, QuietBusy
<1>4. CASE Crash
  <2>1. req' = [r \in Requests |-> Idle] /\ UNCHANGED <<tables, alone, emptied>>
    BY <1>4 DEF Crash
  <2>2. DeletedIsCleared'
    BY <2>1, NothingSame
  <2>3. \A r \in Requests : Mentions(req[r])' = {} /\ Progress(req[r])'
    BY <2>1 DEF Mentions, Progress, Idle, FromRead, FromHistory, FromFind, FromDevices,
                FromOptions
  <2>4. OneBusy'
    BY <2>1 DEF OneBusy
  <2>5. QED
    BY <2>1, <2>2, <2>3, <2>4 DEF EmptiedInv
<1>5. ASSUME NEW r \in Requests, Step(r) PROVE EmptiedInv'
  BY <1>2, <1>3, <1>5, EmptiedCreate, EmptiedDelete, EmptiedAnnounce, EmptiedSave DEF Step
<1>6. QED
  BY <1>1, <1>4, <1>5, EmptiedClient, EmptiedElsewhere DEF Next

-----------------------------------------------------------------------------

\* What a cleanup said it would delete is what it has deleted, or what is there
\* still.
Tallied(q) ==
    /\ {"scope", "todo", "told", "deleted"} \subseteq DOMAIN q
    /\ q.todo \subseteq Category
    /\ alone =>
        /\ \A c \in DOMAIN q.deleted \ {"departments"} : q.deleted[c] = q.told[c]
        /\ \A c \in q.todo \ {"departments"} : q.told[c] = Cardinality(Selected(c, q.scope))

SummaryInv == \A r \in Requests : req[r].at = "clean" => Tallied(req[r])

LEMMA Categories ==
    Category = {"timetables", "departments", "adminAccounts", "pendingAccounts",
                "announcements", "fcmTokens"}
<1>1. DOMAIN Order = 1 .. 6
  BY DEF Order
<1>2. QED
  BY <1>1 DEF Category, Order

\* The counts of the summary are of the rows the cleanup selects.
LEMMA SummaryCounts ==
    ASSUME NEW scope, NEW c \in Category \ {"departments"}
    PROVE  DataSummary(scope)[c] = Cardinality(Selected(c, scope))
<1>1. c \in {"timetables", "adminAccounts", "pendingAccounts", "announcements", "fcmTokens"}
  BY Categories
<1>2. CASE c = "pendingAccounts"
  BY <1>2 DEF DataSummary, Selected
<1>3. CASE c = "timetables"
  BY <1>3 DEF DataSummary, Selected
<1>4. CASE c = "adminAccounts"
  BY <1>4 DEF DataSummary, Selected
<1>5. CASE c = "announcements"
  BY <1>5 DEF DataSummary, Selected
<1>6. CASE c = "fcmTokens"
  BY <1>6 DEF DataSummary, Selected
<1>7. QED
  BY <1>1, <1>2, <1>3, <1>4, <1>5, <1>6

-----------------------------------------------------------------------------
\* Nothing a cleanup holds changes where it takes no step, and where it is alone
\* nobody else takes one.
LEMMA SummaryStep ==
    ASSUME IInv, EmptiedInv, SummaryInv, NEW r \in Requests, NEW q,
           req' = [req EXCEPT ![r] = q], q.at = "clean" => Tallied(q)',
           \/ alone' = alone /\ req[r] # Idle
           \/ alone' => \A s \in Requests : req[s] = Idle
    PROVE  SummaryInv'
<1>1. \A s \in Requests : req'[s] = IF s = r THEN q ELSE req[s]
  BY DEF IInv, Shapes
<1>2. ASSUME NEW s \in Requests, req'[s].at = "clean" PROVE Tallied(req[s])'
  <2>1. CASE s = r
    <3>1. req'[s] = q
      BY <1>1, <2>1
    <3>2. QED
      BY <1>2, <3>1 DEF Tallied
  <2>2. CASE s # r
    <3>1. req'[s] = req[s] /\ Tallied(req[s])
      BY <1>1, <1>2, <2>2 DEF SummaryInv
    <3>2. req[s] # Idle
      BY <1>2, <3>1 DEF Idle
    <3>3. ~alone'
      BY <2>2, <3>2 DEF EmptiedInv, OneBusy
    <3>4. QED
      BY <3>1, <3>3 DEF Tallied
  <2>3. QED
    BY <2>1, <2>2
<1>3. QED
  BY <1>2 DEF SummaryInv

LEMMA SummaryClean ==
    ASSUME IInv, TypeInv, EmptiedInv, SummaryInv, NEW r \in Requests, Clean(r)
    PROVE  SummaryInv'
<1> PICK old, scope : old = req[r] /\ scope = req[r].scope
  OBVIOUS
<1>1. /\ old.at = "clean" /\ SlotShape(old) /\ Tallied(old) /\ alone' = alone /\ old # Idle
  BY DEF Clean, IInv, Shapes, SummaryInv, record, Idle
<1>2. PICK c \in Category :
          /\ c \in old.todo
          /\ c # "timetables" => timetables' = timetables
          /\ c # "departments" => DOMAIN departments' = DOMAIN departments
          /\ c # "adminAccounts" => DOMAIN users' = DOMAIN users
          /\ c # "pendingAccounts" => applications' = applications
          /\ c # "announcements" => announcements' = announcements
          /\ c # "fcmTokens" => devices' = devices
          /\ req' = [req EXCEPT ![r].todo = @ \ {c},
                                ![r].deleted = Counted(@, c, Cardinality(Selected(c, scope)))]
  BY DEF Clean, ComesNext
<1> PICK count : count = Cardinality(Selected(c, scope))
  OBVIOUS
<1> PICK todo, deleted : todo = old.todo \ {c} /\ deleted = Counted(old.deleted, c, count)
  OBVIOUS
<1>a. PICK q : q = [old EXCEPT !.todo = todo, !.deleted = deleted]
  OBVIOUS
<1>3. req' = [req EXCEPT ![r] = q]
  BY <1>2, <1>a
<1>4. /\ q.at = "clean" /\ {"scope", "todo", "told", "deleted"} \subseteq DOMAIN q
      /\ q.scope = scope /\ q.told = old.told /\ q.todo = todo /\ q.deleted = deleted
  <2>1. {"at", "scope", "todo", "told", "deleted"} \subseteq DOMAIN old
    BY <1>1 DEF SlotShape, Tallied
  <2>2. DOMAIN q = DOMAIN old
    BY <1>a
  <2>3. /\ q.at = old.at /\ q.scope = old.scope /\ q.told = old.told
        /\ q.todo = todo /\ q.deleted = deleted
    BY <1>a, <2>1
  <2>4. QED
    BY <1>1, <2>1, <2>2, <2>3
<1>5. todo \subseteq Category
  BY <1>1 DEF Tallied
<1>6. ASSUME alone, NEW x \in DOMAIN deleted \ {"departments"} PROVE deleted[x] = old.told[x]
  <2>1. /\ DOMAIN deleted = DOMAIN old.deleted \cup {c}
        /\ deleted[x] = IF x = c THEN count ELSE old.deleted[x]
    BY <1>6 DEF Counted
  <2>2. x = c => old.told[x] = count
    BY <1>1, <1>2, <1>6 DEF Tallied
  <2>3. x # c => old.deleted[x] = old.told[x]
    BY <1>1, <1>6, <2>1 DEF Tallied
  <2>4. QED
    BY <2>1, <2>2, <2>3
<1>7. ASSUME alone, NEW x \in todo \ {"departments"}
      PROVE  old.told[x] = Cardinality(Selected(x, scope))'
  <2>1. x # c /\ x \in Category \ {"departments"} /\ old.told[x] = Cardinality(Selected(x, scope))
    BY <1>1, <1>7 DEF Tallied
  <2>2. x \in {"timetables", "adminAccounts", "pendingAccounts", "announcements", "fcmTokens"}
    BY <2>1, Categories
  <2>3. CASE x = "timetables"
    BY <1>2, <2>1, <2>3 DEF Selected
  <2>4. CASE x = "adminAccounts"
    BY <1>2, <2>1, <2>4 DEF Selected
  <2>5. CASE x = "pendingAccounts"
    BY <1>2, <2>1, <2>5 DEF Selected
  <2>6. CASE x = "announcements"
    BY <1>2, <2>1, <2>6 DEF Selected, For
  <2>7. CASE x = "fcmTokens"
    BY <1>2, <2>1, <2>7 DEF Selected
  <2>8. QED
    BY <2>2, <2>3, <2>4, <2>5, <2>6, <2>7
<1>8. Tallied(q)'
  BY <1>1, <1>4, <1>5, <1>6, <1>7 DEF Tallied
<1>9. QED
  BY <1>1, <1>3, <1>8, SummaryStep

\* A category that fails is counted nowhere.
LEMMA SummaryCleanFails ==
    ASSUME IInv, EmptiedInv, SummaryInv, NEW r \in Requests, CleanFails(r)
    PROVE  SummaryInv'
<1> PICK old : old = req[r]
  OBVIOUS
<1>1. /\ old.at = "clean" /\ SlotShape(old) /\ Tallied(old) /\ alone' = alone /\ old # Idle
      /\ UNCHANGED tables
  BY DEF CleanFails, IInv, Shapes, SummaryInv, record, Idle
<1>2. PICK c, errors : req' = [req EXCEPT ![r].todo = @ \ {c}, ![r].errors = errors]
  BY DEF CleanFails
<1> PICK todo : todo = old.todo \ {c}
  OBVIOUS
<1>a. PICK q : q = [old EXCEPT !.todo = todo, !.errors = errors]
  OBVIOUS
<1>3. req' = [req EXCEPT ![r] = q]
  BY <1>2, <1>a
<1>4. /\ q.at = "clean" /\ {"scope", "todo", "told", "deleted"} \subseteq DOMAIN q
      /\ q.scope = old.scope /\ q.told = old.told /\ q.todo = todo /\ q.deleted = old.deleted
  BY <1>1, <1>a DEF SlotShape, Tallied
<1>5. \A c2, scope : Selected(c2, scope)' = Selected(c2, scope)
  BY <1>1 DEF Selected, For, tables, content
<1>6. Tallied(q)'
  BY <1>1, <1>4, <1>5 DEF Tallied
<1>7. QED
  BY <1>1, <1>3, <1>6, SummaryStep

\* Every other step of a request.
LEMMA SummaryOther ==
    ASSUME IInv, EmptiedInv, SummaryInv, NEW r \in Requests,
           \/ Create(r) \/ Delete(r) \/ Announce(r) \/ Save(r)
           \/ CleanAnswer(r) \/ StatementFails(r)
    PROVE  SummaryInv'
<1>1. req[r] # Idle /\ alone' = alone
  BY DEF Create, CreateSelect, CreateUpdate, CreateInsert, CreateInsertRefused, OptionsSelect,
         OptionsUpdate, OptionsInsert, UpdateDepartment, Delete, NullUsers, ReadUsers, WriteUser,
         DeleteTimetables, DeleteHistory, FindAnnouncements, DeleteAnnouncements, DeleteDevices,
         DeleteOptions, RemoveDepartment, Announce, UpdateAnnouncement, PinAnnouncement,
         RemoveAnnouncement, Save, EntitySelect, EntityUpdate, EntityInsert,
         CleanAnswer, StatementFails, record, Idle
<1>2. ASSUME NEW q, req' = [req EXCEPT ![r] = q], q.at # "clean" PROVE SummaryInv'
  BY <1>1, <1>2, SummaryStep
<1>3. ASSUME NEW at \in Labels, Goto(r, at), req[r].at \in Labels, at \notin Holders
      PROVE  SummaryInv'
  <2>1. PICK q : req' = [req EXCEPT ![r] = q] /\ q.at = at
    BY <1>3, GotoShape
  <2>2. QED
    BY <1>2, <1>3, <2>1 DEF Labels
<1>4. CASE CreateSelect(r) \/ OptionsSelect(r)
  <2>1. PICK at \in {"createUpdate", "createInsert", "optionsUpdate", "optionsInsert"} :
            Goto(r, at) /\ req[r].at \in {"createSelect", "optionsSelect"}
    BY <1>4 DEF CreateSelect, OptionsSelect, Decide
  <2>2. QED
    BY <1>3, <2>1 DEF Labels
<1>5. CASE CreateUpdate(r) \/ CreateInsert(r)
  BY <1>3, <1>5 DEF CreateUpdate, CreateInsert, Labels
<1>6. CASE NullUsers(r) \/ DeleteHistory(r) \/ DeleteDevices(r) \/ DeleteOptions(r)
  BY <1>3, <1>6 DEF NullUsers, DeleteHistory, DeleteDevices, DeleteOptions, Labels
<1>7. CASE ReadUsers(r) \/ WriteUser(r)
  <2>1. \E q : req' = [req EXCEPT ![r] = q] /\ q.at = "writeUsers"
    BY <1>7, ReadDoes, WriteDoes
  <2>2. QED
    BY <1>2, <2>1
<1>8. CASE DeleteTimetables(r) \/ DeleteAnnouncements(r)
  <2>1. PICK at \in {"history", "devices"}, d \in {req[r].dept} :
            req' = [req EXCEPT ![r] = Holding(at, d)]
    BY <1>8 DEF DeleteTimetables, DeleteAnnouncements
  <2>2. Holding(at, d).at # "clean"
    BY DEF Holding
  <2>3. QED
    BY <1>2, <2>1, <2>2
<1>9. CASE FindAnnouncements(r)
  <2> PICK d, ids : /\ d = req[r].dept
                    /\ ids = {a.id : a \in {a \in announcements : {d, "all"} \cap a.targets # {}}}
    OBVIOUS
  <2> PICK q : q = [at |-> "announcements", dept |-> d, ids |-> ids]
    OBVIOUS
  <2>1. req' = [req EXCEPT ![r] = q] /\ q.at # "clean"
    BY <1>9 DEF FindAnnouncements
  <2>2. QED
    BY <1>2, <2>1
<1>10. ASSUME req' = [req EXCEPT ![r] = Idle] PROVE SummaryInv'
  BY <1>2, <1>10, IdleShape
<1>11. CASE \/ CreateInsertRefused(r) \/ OptionsUpdate(r) \/ OptionsInsert(r)
            \/ UpdateDepartment(r) \/ RemoveDepartment(r)
  BY <1>10, <1>11 DEF CreateInsertRefused, OptionsUpdate, OptionsInsert, UpdateDepartment,
                      RemoveDepartment, Answer
<1>12. CASE Announce(r) \/ CleanAnswer(r) \/ StatementFails(r)
  BY <1>10, <1>12 DEF Announce, UpdateAnnouncement, PinAnnouncement, RemoveAnnouncement,
                      CleanAnswer, StatementFails, Answer
<1>13. CASE EntitySelect(r)
  <2>1. \E q : req' = [req EXCEPT ![r] = q] /\ q.at # "clean"
    BY <1>13, SelectDoes
  <2>2. QED
    BY <1>2, <2>1
<1>14. CASE EntityUpdate(r) \/ EntityInsert(r)
  BY <1>10, <1>14 DEF EntityUpdate, EntityInsert, Answer
<1>15. QED
  BY <1>4, <1>5, <1>6, <1>7, <1>8, <1>9, <1>11, <1>12, <1>13, <1>14 DEF Create, Delete, Save

LEMMA SummaryClient ==
    ASSUME IInv, EmptiedInv, SummaryInv, NEW r \in Requests, Client(r)
    PROVE  SummaryInv'
<1>1. ASSUME NEW q, NEW M, Begin(r, q, M), q.at = "clean" => Tallied(q)' PROVE SummaryInv'
  <2>1. req' = [req EXCEPT ![r] = q] /\ (alone' => \A s \in Requests : req[s] = Idle)
    BY <1>1 DEF Begin
  <2>2. QED
    BY <1>1, <2>1, SummaryStep
<1>2. ASSUME NEW d, NEW name, CreateFind(r, d, name) \/ UpdateFind(r, d, name) PROVE SummaryInv'
  <2> PICK create, update : /\ create = [at |-> "createSelect", dept |-> d, name |-> name]
                            /\ update = [at |-> "update", dept |-> d, name |-> name]
    OBVIOUS
  <2>1. Begin(r, create, {d}) \/ Begin(r, update, {})
    BY <1>2 DEF CreateFind, UpdateFind
  <2>2. create.at # "clean" /\ update.at # "clean"
    OBVIOUS
  <2>3. QED
    BY <1>1, <2>1, <2>2
<1>3. ASSUME NEW d, DeleteFind(r, d) PROVE SummaryInv'
  <2>1. Begin(r, Holding("nullUsers", d), {d}) /\ Holding("nullUsers", d).at # "clean"
    BY <1>3 DEF DeleteFind, Holding
  <2>2. QED
    BY <1>1, <2>1
<1>4. ASSUME NEW access, NEW targets, CreateAnnouncement(r, access, targets) PROVE SummaryInv'
  BY <1>4 DEF CreateAnnouncement, SummaryInv, Tallied
<1>5. ASSUME NEW access, NEW d, NEW id, NEW targets, NEW q \in Changes(id, targets),
             FindAnnouncement(r, access, d, q)
      PROVE  SummaryInv'
  <2>1. Begin(r, q, q.targets) /\ q.at # "clean"
    BY <1>5 DEF FindAnnouncement, Changes
  <2>2. QED
    BY <1>1, <2>1
<1>6. ASSUME NEW categories \in Cleanups, NEW scope, BeginCleanup(r, categories, scope)
      PROVE  SummaryInv'
  <2>a. PICK told : told = DataSummary(scope)
    OBVIOUS
  <2>b. PICK q : q = [at |-> "clean", scope |-> scope, todo |-> categories, told |-> told,
                    deleted |-> <<>>, errors |-> {}]
    OBVIOUS
  <2>1. Begin(r, q, {}) /\ UNCHANGED tables
    BY <1>6, <2>a, <2>b DEF BeginCleanup
  <2>2. /\ {"scope", "todo", "told", "deleted"} \subseteq DOMAIN q
        /\ q.scope = scope /\ q.todo = categories /\ q.told = told /\ q.deleted = <<>>
    BY <2>b
  <2>3. categories \subseteq Category
    BY DepartmentsAssumption
  <2>4. \A c \in categories \ {"departments"} : told[c] = Cardinality(Selected(c, scope))
    BY <2>a, <2>3, SummaryCounts
  <2>5. \A c : Selected(c, scope)' = Selected(c, scope)
    BY <2>1 DEF Selected, For, tables, content
  <2>6. DOMAIN q.deleted = {}
    BY <2>2
  <2>7. Tallied(q)'
    BY <2>2, <2>3, <2>4, <2>5, <2>6 DEF Tallied
  <2>8. QED
    BY <1>1, <2>1, <2>7
<1>7. ASSUME NEW u \in Users, EntityFind(r, u) PROVE SummaryInv'
  <2>1. PICK q, d, M : Found(r, u, q, d, M)
    BY <1>7, FindDoes
  <2>2. Begin(r, q, M) /\ q.at # "clean"
    BY <2>1 DEF Found
  <2>3. QED
    BY <1>1, <2>2
<1>8. QED
  BY <1>2, <1>3, <1>4, <1>5, <1>6, <1>7 DEF Client

LEMMA SummaryNext == IInv /\ TypeInv /\ EmptiedInv /\ SummaryInv /\ [Next]_vars => SummaryInv'
<1> SUFFICES ASSUME IInv, TypeInv, EmptiedInv, SummaryInv, [Next]_vars PROVE SummaryInv'
  OBVIOUS
<1>1. CASE UNCHANGED vars
  <2>1. UNCHANGED <<req, alone, tables>>
    BY <1>1 DEF vars, record
  <2>2. \A c, scope : Selected(c, scope)' = Selected(c, scope)
    BY <2>1 DEF Selected, For, tables, content
  <2>3. QED
    BY <2>1, <2>2 DEF SummaryInv, Tallied
<1>2. CASE Elsewhere
  <2>1. UNCHANGED req /\ alone' = FALSE
    BY <1>2 DEF Elsewhere, AccountUpdated, AccountDeleted, ContentAdded, OptionsAdded, Applied, Meanwhile
  <2>2. QED
    BY <2>1 DEF SummaryInv, Tallied
<1>3. CASE Crash
  BY <1>3 DEF Crash, SummaryInv, Idle
<1>4. QED
  BY <1>1, <1>2, <1>3, SummaryClient, SummaryClean, SummaryCleanFails, SummaryOther DEF Next, Step

-----------------------------------------------------------------------------
(* What the runs check.                                                    *)

\* A department is without options only while its creation or deletion is about to
\* change that, or when one of the two ended early (createDepartment,
\* deleteDepartment), whatever else happens meanwhile.
THEOREM OptionsThere == Spec => []DepartmentHasOptions
<1>1. IInv => DepartmentHasOptions
  BY DEF IInv
<1>2. QED
  BY <1>1, InvInit, InvNext, PTL DEF Spec

\* An account loses the departments that are deleted and no other, unless two
\* deletions, or a deletion and an update, meet over it, or its departments change
\* while login, resetPassword or approveAccount is about to save it whole
\* (deleteDepartment, updateAccount).
THEOREM DepartmentsOfAccountsKept == Spec => []MembersKept
<1>1. IInv => MembersKept
  BY DEF IInv
<1>2. QED
  BY <1>1, InvInit, InvNext, PTL DEF Spec

\* The tables hold what their types say and no two announcements have one id:
\* the lists of departments that deletions compute from what they read and the
\* departments created, deleted and named over one another are departments and
\* names all the same (DepartmentService, AnnouncementService).
THEOREM TypeCorrect == Spec => []TypeOK
<1>1. Init => IInv /\ TypeInv
  BY InvInit, TypedInit
<1>2. IInv /\ TypeInv /\ [Next]_vars => IInv' /\ TypeInv'
  BY InvNext, TypedNext
<1>3. TypeInv => TypeOK
  BY TypesHold
<1>4. QED
  BY <1>1, <1>2, <1>3, PTL DEF Spec

\* A department deleted while nothing else happened is gone with its options,
\* timetables, history, devices and announcements, and from every account, until
\* somebody mentions it again (deleteDepartment).
THEOREM DepartmentCleared == Spec => []DeletedIsCleared
<1>1. Init => IInv /\ TypeInv /\ EmptiedInv
  BY InvInit, TypedInit, EmptiedInit
<1>2. IInv /\ TypeInv /\ EmptiedInv /\ [Next]_vars => IInv' /\ TypeInv' /\ EmptiedInv'
  BY InvNext, TypedNext, EmptiedNext
<1>3. EmptiedInv => DeletedIsCleared
  BY DEF EmptiedInv
<1>4. QED
  BY <1>1, <1>2, <1>3, PTL DEF Spec

\* A cleanup that runs alone deletes as many rows of each category, but for the
\* departments themselves, as the summary for the same departments announces
\* (CleaningService.getDataSummary, performCleanup).
THEOREM SummaryKept == Spec => []CleanupMatchesSummary
<1>1. Init => IInv /\ TypeInv /\ EmptiedInv /\ SummaryInv
  <2>1. Init => SummaryInv
    BY DEF Init, SummaryInv, Idle
  <2>2. QED
    BY <2>1, InvInit, TypedInit, EmptiedInit
<1>2. IInv /\ TypeInv /\ EmptiedInv /\ SummaryInv /\ [Next]_vars
      => IInv' /\ TypeInv' /\ EmptiedInv' /\ SummaryInv'
  BY InvNext, TypedNext, EmptiedNext, SummaryNext
<1>3. SummaryInv => CleanupMatchesSummary
  BY DEF SummaryInv, Tallied, CleanupMatchesSummary
<1>4. QED
  BY <1>1, <1>2, <1>3, PTL DEF Spec

-----------------------------------------------------------------------------
(* What the guards, the services, the routes of UserController and the     *)
(* listings promise each other, for any departments and any access.        *)

\* The guard of a route and the service behind it decide alike about a department
\* that the request names, and the guard stops who has none and names none
\* (DepartmentAccessGuard, validateDepartmentAccess).
THEOREM GuardAgreesWithService ==
    ASSUME NEW access
    PROVE  /\ \A d : d # Null => (DepartmentGuard(access, d) <=> MayUse(access, d))
           /\ DepartmentGuard(access, Null) => access.level = "super"
  BY DEF DepartmentGuard, MayUse

\* Who may use a department by being of it sees the announcements for it, whether
\* the request names the department or not; only a super user who has departments
\* misses those of the others when naming none (getAnnouncements).
THEOREM UsableIsShown ==
    ASSUME NEW access, NEW d, NEW targets, MayUse(access, d), d # Null, d \in targets
    PROVE  /\ Shows(access, d, targets)
           /\ access.level # "super" \/ DepartmentIds(access) = {} => Shows(access, Null, targets)
<1>1. Shows(access, d, targets)
  BY DEF Shows
<1>2. CASE access.level # "super"
  <2>1. d \in DepartmentIds(access)
    BY <1>2 DEF MayUse
  <2>2. QED
    BY <1>1, <2>1 DEF Shows
<1>3. CASE DepartmentIds(access) = {}
  BY <1>1, <1>3 DEF Shows
<1>4. QED
  BY <1>1, <1>2, <1>3

\* To create, to delete and to give a password are one right, and it is enough for
\* every update: nobody can make an account that they cannot manage afterwards.  The
\* check that a head makes no head refuses nothing that the one before it lets
\* through (UserController).
THEOREM CreatorsManage ==
    ASSUME NEW access, NEW level \in Level
    PROVE  /\ MayCreateAccount(access, level) <=> MayDeleteAccount(access, level)
           /\ MayCreateAccount(access, level) <=> MayChangePassword(access, level)
           /\ MayCreateAccount(access, level) <=> MayUpdateAccount(access, level, Null)
<1>1. level # Null
  BY DEF Level, Null
<1>2. ~ (CanManageAccount(access.level, level) /\ access.level = "head" /\ level = "head")
  BY DEF CanManageAccount
<1>3. QED
  BY <1>1, <1>2 DEF MayCreateAccount, MayDeleteAccount, MayChangePassword, MayUpdateAccount

\* An update that gives a level leaves the account with one whose holders the giver
\* may manage, and nobody gives a level above their own
\* (updateAccount and createAccount of UserController).
THEOREM GivenIsManaged ==
    ASSUME NEW access, NEW current, NEW level \in Level,
           MayCreateAccount(access, level) \/ MayUpdateAccount(access, current, level)
    PROVE  /\ MayDeleteAccount(access, level)
           /\ Rank(level) <= Rank(access.level)
<1>1. level # Null
  BY DEF Level, Null
<1>2. LevelGuard(access, Managers) /\ CanManageAccount(access.level, level)
  BY <1>1 DEF MayCreateAccount, MayUpdateAccount
<1>3. MayDeleteAccount(access, level)
  BY <1>1, <1>2 DEF MayDeleteAccount
<1>4. Rank(level) <= Rank(access.level)
  BY <1>2 DEF CanManageAccount, Level, Rank
<1>5. QED
  BY <1>3, <1>4

\* Every account that a listing shows can be managed by who sees it, and nothing is
\* listed for those who may manage nothing (getAdminAccounts and the checks of
\* UserController).
THEOREM ListedAreManaged ==
    ASSUME NEW access, NEW account, Lists(access, account)
    PROVE  /\ MayDeleteAccount(access, account.level)
           /\ MayChangePassword(access, account.level)
           /\ MayUpdateAccount(access, account.level, Null)
<1>1. account.level # Null /\ CanManageAccount(access.level, account.level)
  BY DEF Lists, CanManageAccount
<1>2. access.level \in Managers /\ access.level # Null
  BY DEF Lists, Managers, Null
<1>3. LevelGuard(access, Managers)
  BY <1>2 DEF LevelGuard
<1>4. QED
  BY <1>1, <1>3 DEF MayDeleteAccount, MayChangePassword, MayUpdateAccount
=============================================================================
