----------------------------- MODULE Departments -----------------------------
(***************************************************************************)
(* The departments and what hangs on them: DepartmentService creates and   *)
(* deletes them with all that refers to them, AnnouncementService keeps    *)
(* the announcements, CleaningService counts and empties whole tables, and *)
(* the saves of whole accounts by other services put departments back.  No *)
(* handler uses a transaction: every awaited call is an action.            *)
(*                                                                         *)
(* The entities of options, timetables and their history declare a         *)
(* department they belong to (ManyToOne).  Whether the database holds them *)
(* to it is left open: nothing is refused here for the sake of another     *)
(* table, which allows more than foreign keys would.                       *)
(*                                                                         *)
(* Of the tables keyed by departmentId alone, and of the applications for  *)
(* a department, there is one row or none here, which stands for all.      *)
(***************************************************************************)
EXTENDS DepartmentAccess, Integers, FiniteSets

CONSTANTS Departments,
          Names,
          Users,        \* administrators' accounts
          Accesses,     \* what tokens carry
          Targets,      \* whom an announcement can be for: sets of departments and "all"
          Requests,     \* slots for requests in flight
          Cleanups,     \* sets of categories to clean
          Scopes,       \* departmentIds of a cleanup: sets of departments, or None
          MaxPosts,     \* bound: announcements posted in a behaviour
          MaxBegun,     \* bound: requests begun in a behaviour
          MaxIncidents, \* bound: failed statements, restarts and steps of other modules
          None          \* no departmentIds: all departments

\* The categories of performCleanup in their order.  timetableHistory is not
\* among them: the DTO declares it without a decorator, and the validation pipe
\* refuses requests that name it.
Order == <<"timetables", "departments", "adminAccounts", "pendingAccounts",
           "announcements", "fcmTokens">>
Category == {Order[i] : i \in DOMAIN Order}

ASSUME DepartmentsAssumption ==
    /\ {MaxPosts, MaxBegun, MaxIncidents} \subseteq Nat
    /\ Targets \subseteq SUBSET (Departments \cup {"all"})
    /\ Cleanups \subseteq SUBSET Category
    /\ Scopes \ {None} \subseteq SUBSET Departments
    /\ {Null, "all"} \cap Departments = {}

Posts == 1 .. MaxPosts

VARIABLES
    departments,   \* names of the departments there are
    options,       \* departments with a row of available_options
    timetables, history, devices,  \* departments with rows in these tables
    users,         \* accounts there are: [departmentId, departmentIds]
    applications,  \* departments that rows of pending_accounts ask for; Null: for none
    announcements, \* table announcements: [id, targets, pinned]
    posted,        \* announcements inserted so far
    begun,         \* requests begun so far
    incidents,     \* failed statements, restarts and steps of other modules so far
    req,           \* req[r]: what slot r holds of the request it serves
    \* What no handler reads:
    alone,         \* nothing else happened since the request in flight began
    emptied,       \* departments deleted by a request that was alone, and not
                   \* mentioned since
    cut,           \* departments whose creation or deletion ended early
    member         \* member[u]: departmentIds the account should have; None: unknown

content == <<timetables, history, devices>>
tables == <<departments, options, content, users, applications, announcements>>
counts == <<posted, begun, incidents>>
record == <<alone, emptied, cut, member>>
vars == <<tables, counts, req, record>>

Idle == [at |-> "idle"]
Holding(at, d) == [at |-> at, dept |-> d]

\* Some departments with all there can be of them.
Init ==
    /\ \E there \in SUBSET Departments :
          /\ departments \in [there -> Names]
          /\ options = there
          /\ timetables = there /\ history = there /\ devices = there
          /\ users = [u \in Users |-> [departmentId |-> Null, departmentIds |-> there]]
          /\ member = [u \in Users |-> there]
          /\ applications = there \cup {Null}
    /\ announcements = {}
    /\ posted = 0 /\ begun = 0 /\ incidents = 0
    /\ req = [r \in Requests |-> Idle]
    /\ alone = FALSE
    /\ emptied = {}
    /\ cut = {}

-----------------------------------------------------------------------------

\* A request takes its slot, and mentions departments.
Begin(r, held, mentioned) ==
    /\ req[r] = Idle
    /\ begun < MaxBegun
    /\ begun' = begun + 1
    /\ req' = [req EXCEPT ![r] = held]
    /\ alone' = (\A p \in Requests : req[p] = Idle)
    /\ emptied' = emptied \ mentioned

Goto(r, at) == req' = [req EXCEPT ![r].at = at]
Answer(r) == req' = [req EXCEPT ![r] = Idle]

At(r, at, d) == req[r].at = at /\ req[r].dept = d

\* save of a row whose key is given, first half: the select decides.
Decide(r, found, ifFound, ifNot) == Goto(r, IF found THEN ifFound ELSE ifNot)

-----------------------------------------------------------------------------
(* createDepartment and updateDepartment                                   *)

CreateFind(r, d, name) ==
    /\ d \notin DOMAIN departments
    /\ Begin(r, [at |-> "createSelect", dept |-> d, name |-> name], {d})
    /\ UNCHANGED <<tables, posted, incidents, cut, member>>

CreateSelect(r) ==
    /\ req[r].at = "createSelect"
    /\ Decide(r, req[r].dept \in DOMAIN departments, "createUpdate", "createInsert")
    /\ UNCHANGED <<tables, counts, record>>

\* The update half of the save: nothing if the row is gone.
CreateUpdate(r) ==
    /\ req[r].at = "createUpdate"
    /\ departments' = [d \in DOMAIN departments |->
           IF d = req[r].dept THEN req[r].name ELSE departments[d]]
    /\ Goto(r, "optionsSelect")
    /\ UNCHANGED <<options, content, users, applications, announcements, counts, record>>

CreateInsert(r) ==
    /\ req[r].at = "createInsert"
    /\ req[r].dept \notin DOMAIN departments
    /\ departments' = [d \in DOMAIN departments \cup {req[r].dept} |->
           IF d = req[r].dept THEN req[r].name ELSE departments[d]]
    /\ Goto(r, "optionsSelect")
    /\ UNCHANGED <<options, content, users, applications, announcements, counts, record>>

\* The primary key refuses: the request ends with an error.
CreateInsertRefused(r) ==
    /\ req[r].at = "createInsert"
    /\ req[r].dept \in DOMAIN departments
    /\ Answer(r)
    /\ UNCHANGED <<tables, counts, record>>

\* Mutant: no row of options for a new department.
OptionsForgotten(r) ==
    /\ req[r].at = "optionsSelect"
    /\ Answer(r)
    /\ UNCHANGED <<tables, counts, record>>

\* The save of empty options; an update leaves the row where it is.
OptionsSelect(r) ==
    /\ req[r].at = "optionsSelect"
    /\ Decide(r, req[r].dept \in options, "optionsUpdate", "optionsInsert")
    /\ UNCHANGED <<tables, counts, record>>

OptionsUpdate(r) ==
    /\ req[r].at = "optionsUpdate"
    /\ Answer(r)
    /\ UNCHANGED <<tables, counts, record>>

\* An insert that the primary key refuses is an error, and changes as little.
OptionsInsert(r) ==
    /\ req[r].at = "optionsInsert"
    /\ options' = options \cup {req[r].dept}
    /\ Answer(r)
    /\ UNCHANGED <<departments, content, users, applications, announcements, counts, record>>

UpdateFind(r, d, name) ==
    /\ d \in DOMAIN departments
    /\ Begin(r, [at |-> "update", dept |-> d, name |-> name], {})
    /\ UNCHANGED <<tables, posted, incidents, cut, member>>

\* update by id: nothing if the department is gone, and the answer is success.
UpdateDepartment(r) ==
    /\ req[r].at = "update"
    /\ departments' = [d \in DOMAIN departments |->
           IF d = req[r].dept THEN req[r].name ELSE departments[d]]
    /\ Answer(r)
    /\ UNCHANGED <<options, content, users, applications, announcements, counts, record>>

-----------------------------------------------------------------------------
(* deleteDepartment                                                        *)

DeleteFind(r, d) ==
    /\ d \in DOMAIN departments
    /\ Begin(r, Holding("nullUsers", d), {d})
    /\ UNCHANGED <<tables, posted, incidents, cut, member>>

\* Mutant: the text NULL, not the absent value.
NullUsersByText(r) ==
    /\ req[r].at = "nullUsers"
    /\ users' = [u \in DOMAIN users |->
           IF users[u].departmentId = req[r].dept THEN [users[u] EXCEPT !.departmentId = "NULL"]
           ELSE users[u]]
    /\ Goto(r, "readUsers")
    /\ UNCHANGED <<departments, options, content, applications, announcements, counts, record>>

NullUsers(r) ==
    /\ req[r].at = "nullUsers"
    /\ users' = [u \in DOMAIN users |->
           IF users[u].departmentId = req[r].dept THEN [users[u] EXCEPT !.departmentId = Null]
           ELSE users[u]]
    /\ Goto(r, "readUsers")
    /\ UNCHANGED <<departments, options, content, applications, announcements, counts, record>>

\* A deletion has read the account and has yet to write it.
Unwritten(u) ==
    \E r \in Requests : req[r].at = "writeUsers" /\ \E w \in req[r].writes : w.user = u

\* find of all accounts: the ones to write are those that have the department.
\* What two deletions hold of an account at once, they take from each other.
ReadUsers(r) ==
    /\ req[r].at = "readUsers"
    /\ LET having == {u \in DOMAIN users : req[r].dept \in users[u].departmentIds}
       IN /\ req' = [req EXCEPT ![r] =
                 [at |-> "writeUsers", dept |-> @.dept,
                  writes |-> {[user |-> u, departmentIds |-> users[u].departmentIds \ {@.dept}] :
                                 u \in having}]]
          /\ member' = [u \in Users |-> IF u \in having /\ Unwritten(u) THEN None ELSE member[u]]
    /\ UNCHANGED <<tables, counts, alone, emptied, cut>>

\* An account is to be saved whole: its departments are not yet compared with the
\* row, or differed from it and are about to be written.
Held(u) ==
    \E r \in Requests :
        /\ req[r].at \in {"entitySelect", "entityUpdate"}
        /\ req[r].user = u
        /\ "departmentIds" \in req[r].columns

\* Mutant: the account loses all its departments.
WriteUserEmpty(r) ==
    /\ req[r].at = "writeUsers"
    /\ \E w \in req[r].writes :
          /\ users' = [u \in DOMAIN users |->
                 IF u = w.user THEN [users[u] EXCEPT !.departmentIds = {}] ELSE users[u]]
          /\ member' = [member EXCEPT ![w.user] =
                 IF @ = None \/ Held(w.user) THEN None ELSE @ \ {req[r].dept}]
          /\ req' = [req EXCEPT ![r].writes = @ \ {w}]
    /\ UNCHANGED <<departments, options, content, applications, announcements, counts,
                   alone, emptied, cut>>

\* One account after the other gets the list computed from what was read.
WriteUser(r) ==
    /\ req[r].at = "writeUsers"
    /\ \E w \in req[r].writes :
          /\ users' = [u \in DOMAIN users |->
                 IF u = w.user THEN [users[u] EXCEPT !.departmentIds = w.departmentIds]
                 ELSE users[u]]
          /\ member' = [member EXCEPT ![w.user] =
                 IF @ = None \/ Held(w.user) THEN None ELSE @ \ {req[r].dept}]
          /\ req' = [req EXCEPT ![r].writes = @ \ {w}]
    /\ UNCHANGED <<departments, options, content, applications, announcements, counts,
                   alone, emptied, cut>>

DeleteTimetables(r) ==
    /\ req[r].at = "writeUsers"
    /\ req[r].writes = {}
    /\ timetables' = timetables \ {req[r].dept}
    /\ req' = [req EXCEPT ![r] = Holding("history", @.dept)]
    /\ UNCHANGED <<departments, options, history, devices, users, applications,
                   announcements, counts, record>>

DeleteHistory(r) ==
    /\ req[r].at = "history"
    /\ history' = history \ {req[r].dept}
    /\ Goto(r, "findAnnouncements")
    /\ UNCHANGED <<departments, options, timetables, devices, users, applications,
                   announcements, counts, record>>

\* Mutant: only the announcements for this department alone.
FindAnnouncementsForItAlone(r) ==
    /\ req[r].at = "findAnnouncements"
    /\ req' = [req EXCEPT ![r] =
           [at |-> "announcements", dept |-> @.dept,
            ids |-> {a.id : a \in {a \in announcements : a.targets = {@.dept}}}]]
    /\ UNCHANGED <<tables, counts, record>>

\* find of all announcements: those for the department, be they for others as
\* well, and those for everybody.
FindAnnouncements(r) ==
    /\ req[r].at = "findAnnouncements"
    /\ req' = [req EXCEPT ![r] =
           [at |-> "announcements", dept |-> @.dept,
            ids |-> {a.id : a \in {a \in announcements : {@.dept, "all"} \cap a.targets # {}}}]]
    /\ UNCHANGED <<tables, counts, record>>

DeleteAnnouncements(r) ==
    /\ req[r].at = "announcements"
    /\ announcements' = {a \in announcements : a.id \notin req[r].ids}
    /\ req' = [req EXCEPT ![r] = Holding("devices", @.dept)]
    /\ UNCHANGED <<departments, options, content, users, applications, counts, record>>

DeleteDevices(r) ==
    /\ req[r].at = "devices"
    /\ devices' = devices \ {req[r].dept}
    /\ Goto(r, "options")
    /\ UNCHANGED <<departments, options, timetables, history, users, applications,
                   announcements, counts, record>>

DeleteOptions(r) ==
    /\ req[r].at = "options"
    /\ options' = options \ {req[r].dept}
    /\ Goto(r, "department")
    /\ UNCHANGED <<departments, content, users, applications, announcements, counts, record>>

RemoveDepartment(r) ==
    /\ req[r].at = "department"
    /\ departments' = [d \in DOMAIN departments \ {req[r].dept} |-> departments[d]]
    /\ emptied' = IF alone THEN emptied \cup {req[r].dept} ELSE emptied
    /\ Answer(r)
    /\ UNCHANGED <<options, content, users, applications, announcements, counts,
                   alone, cut, member>>

-----------------------------------------------------------------------------
(* AnnouncementService                                                     *)

\* The targets are a list: the DTO lets nothing else through.
CreateAnnouncement(r, access, targets) ==
    /\ \A d \in targets : MayUse(access, d)
    /\ posted < MaxPosts
    /\ posted' = posted + 1
    /\ req[r] = Idle
    /\ announcements' = announcements \cup
           {[id |-> posted + 1, targets |-> targets, pinned |-> FALSE]}
    /\ alone' = FALSE
    /\ emptied' = emptied \ targets
    /\ UNCHANGED <<departments, options, content, users, applications, begun, incidents,
                   req, cut, member>>

\* findOne, and the check of the department the request names, which need not be
\* one the announcement is for.
FindAnnouncement(r, access, d, change) ==
    /\ MayUse(access, d)
    /\ Begin(r, change, change.targets)
    /\ UNCHANGED <<tables, posted, incidents, cut, member>>

\* update by id: nothing if the row is gone, and the answer is success.  What else
\* it may carry, the pin included, is left out.
UpdateAnnouncement(r) ==
    /\ req[r].at = "updateAnnouncement"
    /\ announcements' = {IF a.id = req[r].id THEN [a EXCEPT !.targets = req[r].targets]
                         ELSE a : a \in announcements}
    /\ Answer(r)
    /\ UNCHANGED <<departments, options, content, users, applications, counts, record>>

\* pinAnnouncement and unpinAnnouncement.
PinAnnouncement(r) ==
    /\ req[r].at \in {"pin", "unpin"}
    /\ announcements' = {IF a.id = req[r].id THEN [a EXCEPT !.pinned = req[r].at = "pin"]
                         ELSE a : a \in announcements}
    /\ Answer(r)
    /\ UNCHANGED <<departments, options, content, users, applications, counts, record>>

RemoveAnnouncement(r) ==
    /\ req[r].at = "removeAnnouncement"
    /\ announcements' = {a \in announcements : a.id # req[r].id}
    /\ Answer(r)
    /\ UNCHANGED <<departments, options, content, users, applications, counts, record>>

-----------------------------------------------------------------------------
(* Accounts saved whole by login, resetPassword and approveAccount.        *)

Columns == {"departmentId", "departmentIds"}
ToSave(u, entity, columns) ==
    [at |-> "entitySelect", user |-> u, entity |-> entity, columns |-> columns]

\* findOne of the account.  An approval sets the department the application asks
\* for; if it asks for none, the column stays out of the save.
EntityFind(r, u) ==
    /\ u \in DOMAIN users
    /\ \/ Begin(r, ToSave(u, users[u], Columns), {})
       \/ \E d \in applications :
             Begin(r, ToSave(u, [users[u] EXCEPT !.departmentId = d],
                             IF d = Null THEN {"departmentIds"} ELSE Columns), {d})
    /\ UNCHANGED <<tables, posted, incidents, cut, member>>

\* save, first half: the columns that differ from the row are to be written, or
\* all of a row that is gone.
EntitySelect(r) ==
    /\ req[r].at = "entitySelect"
    /\ \/ /\ req[r].user \in DOMAIN users
          /\ req' = [req EXCEPT ![r] =
                 [at |-> "entityUpdate", user |-> @.user, entity |-> @.entity,
                  columns |-> {c \in @.columns : @.entity[c] # users[@.user][c]}]]
       \/ /\ req[r].user \notin DOMAIN users
          /\ Goto(r, "entityInsert")
    /\ UNCHANGED <<tables, counts, record>>

\* Nothing if the row is gone by now.
EntityUpdate(r) ==
    /\ req[r].at = "entityUpdate"
    /\ users' = [u \in DOMAIN users |->
           IF u = req[r].user
           THEN [c \in DOMAIN users[u] |->
                    IF c \in req[r].columns THEN req[r].entity[c] ELSE users[u][c]]
           ELSE users[u]]
    /\ Answer(r)
    /\ UNCHANGED <<departments, options, content, applications, announcements, counts, record>>

\* A deleted account is back; what it should have, nobody says.  If it is back
\* already, the primary key refuses.
EntityInsert(r) ==
    /\ req[r].at = "entityInsert"
    /\ LET u == req[r].user
       IN /\ users' = [v \in DOMAIN users \cup {u} |->
                 IF v \in DOMAIN users THEN users[v] ELSE req[r].entity]
          /\ member' = [member EXCEPT ![u] = IF u \in DOMAIN users THEN @ ELSE None]
    /\ Answer(r)
    /\ UNCHANGED <<departments, options, content, applications, announcements, counts,
                   alone, emptied, cut>>

-----------------------------------------------------------------------------
(* CleaningService                                                         *)

\* What departmentIds selects.
Within(scope) == IF scope = None THEN Departments ELSE scope

For(scope) == {a \in announcements : scope = None \/ a.targets \cap scope # {}}

\* getDataSummary: one count after the other; this is what they say while
\* nothing else happens.  Some counts take no notice of the departments.
DataSummary(scope) ==
    [timetables |-> Cardinality(timetables \cap Within(scope)),
     timetableHistory |-> Cardinality(history \cap Within(scope)),
     departments |-> Cardinality(DOMAIN departments),
     adminAccounts |-> Cardinality(DOMAIN users),
     pendingAccounts |-> Cardinality(applications),
     announcements |-> Cardinality(For(scope)),
     fcmTokens |-> Cardinality(devices \cap Within(scope))]

\* The categories asked for are taken in their order.
ComesNext(c, todo) ==
    \E i \in DOMAIN Order :
        Order[i] = c /\ c \in todo /\ \A j \in 1 .. i - 1 : Order[j] \notin todo

\* performCleanup; told is what a summary for the same departments would say.
BeginCleanup(r, categories, scope) ==
    /\ categories # {}
    /\ Begin(r, [at |-> "clean", scope |-> scope,
                 todo |-> categories, told |-> DataSummary(scope),
                 deleted |-> <<>>, errors |-> {}], {})
    /\ UNCHANGED <<tables, posted, incidents, cut, member>>

\* Mutant: every announcement for anybody else as well is spared.
SelectedExclusively(c, scope) ==
    CASE c = "timetables"      -> timetables \cap Within(scope)
      [] c = "departments"     -> DOMAIN departments \cap Within(scope)
      [] c = "adminAccounts"   -> DOMAIN users
      [] c = "pendingAccounts" -> applications
      [] c = "announcements"   -> {a \in announcements : scope = None \/ a.targets \subseteq scope}
      [] c = "fcmTokens"       -> devices \cap Within(scope)

\* The rows the statement of a category deletes.
Selected(c, scope) ==
    CASE c = "timetables"      -> timetables \cap Within(scope)
      [] c = "departments"     -> DOMAIN departments \cap Within(scope)
      [] c = "adminAccounts"   -> DOMAIN users
      [] c = "pendingAccounts" -> applications
      [] c = "announcements"   -> For(scope)
      [] c = "fcmTokens"       -> devices \cap Within(scope)

\* IN with an empty list is a statement that fails; && with one selects nothing.
Malformed(c, scope) == scope = {} /\ c \in {"timetables", "departments", "fcmTokens"}

Counted(deleted, c, count) ==
    [x \in DOMAIN deleted \cup {c} |-> IF x = c THEN count ELSE deleted[x]]

\* Accounts are deleted whatever the departments, and departments without what
\* hangs on them.
Clean(r) ==
    /\ req[r].at = "clean"
    /\ \E c \in Category :
       LET rows == Selected(c, req[r].scope)
           Less(name, table) == IF c = name THEN table \ rows ELSE table
       IN /\ ComesNext(c, req[r].todo)
          /\ ~Malformed(c, req[r].scope)
          /\ timetables' = Less("timetables", timetables)
          /\ departments' = [d \in Less("departments", DOMAIN departments) |-> departments[d]]
          /\ users' = [u \in Less("adminAccounts", DOMAIN users) |-> users[u]]
          /\ applications' = Less("pendingAccounts", applications)
          /\ announcements' = Less("announcements", announcements)
          /\ devices' = Less("fcmTokens", devices)
          /\ req' = [req EXCEPT ![r].todo = @ \ {c},
                                ![r].deleted = Counted(@, c, Cardinality(rows))]
    /\ UNCHANGED <<options, history, counts, record>>

\* A category whose statement fails is told, and the next one is tried.
CleanFails(r) ==
    /\ req[r].at = "clean"
    /\ \E c \in Category :
          /\ ComesNext(c, req[r].todo)
          /\ \/ /\ Malformed(c, req[r].scope)
                /\ UNCHANGED incidents
             \/ /\ incidents < MaxIncidents
                /\ incidents' = incidents + 1
          /\ req' = [req EXCEPT ![r].todo = @ \ {c}, ![r].errors = @ \cup {c}]
    /\ UNCHANGED <<tables, posted, begun, record>>

\* The answer tells the counts, the errors, and success if there are none.
CleanAnswer(r) ==
    /\ req[r].at = "clean"
    /\ req[r].todo = {}
    /\ Answer(r)
    /\ UNCHANGED <<tables, counts, record>>

-----------------------------------------------------------------------------
(* Failures, and what other modules do to these tables.                    *)

Mentioned(r) == IF "dept" \in DOMAIN req[r] THEN {req[r].dept} ELSE {}

StatementFails(r) ==
    /\ req[r].at \notin {"idle", "clean"}
    /\ incidents < MaxIncidents
    /\ incidents' = incidents + 1
    /\ cut' = cut \cup Mentioned(r)
    /\ Answer(r)
    /\ UNCHANGED <<tables, posted, begun, alone, emptied, member>>

\* The server restarts: the requests in flight are lost.
Crash ==
    /\ incidents < MaxIncidents
    /\ \E r \in Requests : req[r] # Idle
    /\ incidents' = incidents + 1
    /\ cut' = cut \cup UNION {Mentioned(r) : r \in Requests}
    /\ req' = [r \in Requests |-> Idle]
    /\ UNCHANGED <<tables, posted, begun, alone, emptied, member>>

Meanwhile(mentioned) ==
    /\ incidents < MaxIncidents
    /\ incidents' = incidents + 1
    /\ alone' = FALSE
    /\ emptied' = emptied \ mentioned
    /\ UNCHANGED <<posted, begun, req, cut>>

\* UserService.updateAccount.
AccountUpdated(u, d, ids) ==
    /\ users' = [users EXCEPT ![u] = [departmentId |-> d, departmentIds |-> ids]]
    /\ member' = [member EXCEPT ![u] = IF Unwritten(u) \/ Held(u) THEN None ELSE ids]
    /\ Meanwhile({d} \cup ids)
    /\ UNCHANGED <<departments, options, content, applications, announcements>>

\* UserService.deleteAccount.
AccountDeleted(u) ==
    /\ users' = [v \in DOMAIN users \ {u} |-> users[v]]
    /\ Meanwhile({})
    /\ UNCHANGED <<departments, options, content, applications, announcements, member>>

\* An upload, the registration of a device, an application: whether the
\* department is there is not asked.
ContentAdded(d) ==
    /\ \/ d \notin timetables /\ timetables' = timetables \cup {d} /\ UNCHANGED <<history, devices>>
       \/ d \notin history /\ history' = history \cup {d} /\ UNCHANGED <<timetables, devices>>
       \/ d \notin devices /\ devices' = devices \cup {d} /\ UNCHANGED <<timetables, history>>
    /\ Meanwhile({d})
    /\ UNCHANGED <<departments, options, users, applications, announcements, member>>

OptionsAdded(d) ==
    /\ d \notin options
    /\ options' = options \cup {d}
    /\ Meanwhile({d})
    /\ UNCHANGED <<departments, content, users, applications, announcements, member>>

Applied(d) ==
    /\ d \notin applications
    /\ applications' = applications \cup {d}
    /\ Meanwhile({})
    /\ UNCHANGED <<departments, options, content, users, announcements, member>>

\* What a client may ask to be done with an announcement.
Changes(id, targets) ==
    {[at |-> at, id |-> id, targets |-> {}] : at \in {"pin", "unpin", "removeAnnouncement"}}
    \cup {[at |-> "updateAnnouncement", id |-> id, targets |-> targets]}

Client(r) ==
    \/ \E d \in Departments, name \in Names : CreateFind(r, d, name) \/ UpdateFind(r, d, name)
    \/ \E d \in Departments : DeleteFind(r, d)
    \/ \E access \in Accesses, targets \in Targets :
          \/ CreateAnnouncement(r, access, targets)
          \/ \E d \in Departments, a \in announcements : \E change \in Changes(a.id, targets) :
                FindAnnouncement(r, access, d, change)
    \/ \E u \in Users : EntityFind(r, u)
    \/ \E categories \in Cleanups, scope \in Scopes : BeginCleanup(r, categories, scope)

Create(r) ==
    \/ CreateSelect(r) \/ CreateUpdate(r) \/ CreateInsert(r) \/ CreateInsertRefused(r)
    \/ OptionsSelect(r) \/ OptionsUpdate(r) \/ OptionsInsert(r)
    \/ UpdateDepartment(r)

Delete(r) ==
    \/ NullUsers(r) \/ ReadUsers(r) \/ WriteUser(r)
    \/ DeleteTimetables(r) \/ DeleteHistory(r)
    \/ FindAnnouncements(r) \/ DeleteAnnouncements(r)
    \/ DeleteDevices(r) \/ DeleteOptions(r) \/ RemoveDepartment(r)

Announce(r) == UpdateAnnouncement(r) \/ PinAnnouncement(r) \/ RemoveAnnouncement(r)

Save(r) == EntitySelect(r) \/ EntityUpdate(r) \/ EntityInsert(r)

Step(r) ==
    \/ Create(r) \/ Delete(r) \/ Announce(r) \/ Save(r)
    \/ Clean(r) \/ CleanFails(r) \/ CleanAnswer(r)
    \/ StatementFails(r)

Elsewhere ==
    \/ \E u \in DOMAIN users, d \in Departments \cup {Null}, ids \in SUBSET Departments :
          AccountUpdated(u, d, ids)
    \/ \E u \in DOMAIN users : AccountDeleted(u)
    \/ \E d \in Departments : ContentAdded(d) \/ OptionsAdded(d)
    \/ \E d \in Departments \cup {Null} : Applied(d)

Next ==
    \/ \E r \in Requests : Client(r) \/ Step(r)
    \/ Elsewhere
    \/ Crash

Spec == Init /\ [][Next]_vars

-----------------------------------------------------------------------------
(* What is true of every reachable state.                                  *)

Account == [departmentId : Departments \cup {Null}, departmentIds : SUBSET Departments]
Announcement == [id : Posts, targets : Targets, pinned : BOOLEAN]

\* The tables hold what their types say, and no id twice.
TypeOK ==
    /\ DOMAIN departments \subseteq Departments
    /\ \A d \in DOMAIN departments : departments[d] \in Names
    /\ {options, timetables, history, devices} \subseteq SUBSET Departments
    /\ DOMAIN users \subseteq Users
    /\ \A u \in DOMAIN users : users[u] \in Account
    /\ applications \subseteq Departments \cup {Null}
    /\ announcements \subseteq Announcement
    /\ \A a, b \in announcements : a.id = b.id => a = b

\* Uploads and clients find the options of a department: it has them unless its
\* creation has yet to insert them, its deletion is about to remove it, or one of
\* the two ended early (createDepartment, deleteDepartment).
DepartmentHasOptions ==
    \A d \in DOMAIN departments \ options :
        \/ d \in cut
        \/ \E r \in Requests :
              At(r, "optionsSelect", d) \/ At(r, "optionsInsert", d) \/ At(r, "department", d)

\* A department that was deleted while nothing else happened is gone, and with it
\* all that deleteDepartment goes through: options, timetables and their history,
\* devices, announcements, and what accounts say of it.  Applications for the
\* department, and the logs of its notifications, stay.
DeletedIsCleared ==
    \A d \in emptied :
        /\ d \notin DOMAIN departments
        /\ d \notin options \cup timetables \cup history \cup devices
        /\ \A u \in DOMAIN users : d # users[u].departmentId /\ d \notin users[u].departmentIds
        /\ \A a \in announcements : d \notin a.targets

\* An account loses no department but a deleted one, and keeps no deleted one: it
\* has what it was given last, less what was deleted since.  Excepted is an account
\* that was read by two deletions, or updated, between a deletion's read and its
\* write of the account (deleteDepartment), one whose departments changed between
\* the read and the save of it whole by login, resetPassword or approveAccount,
\* which may put the old ones back, and one that such a save inserted again.
MembersKept ==
    \A u \in DOMAIN users : member[u] # None => users[u].departmentIds = member[u]

\* A cleanup that runs alone deletes as many rows of each category as the summary
\* for the same departments announces, but for the departments themselves, all
\* of which are announced and the named ones deleted.
CleanupMatchesSummary ==
    \A r \in Requests : req[r].at = "clean" /\ alone =>
        \A c \in DOMAIN req[r].deleted :
            c # "departments" => req[r].deleted[c] = req[r].told[c]
=============================================================================
