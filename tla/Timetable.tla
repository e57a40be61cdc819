------------------------------ MODULE Timetable ------------------------------
(***************************************************************************)
(* Timetables of the departments (src/src/modules/timetable): an upload is *)
(* parsed and stored in a row of timetables, with a row of history, a file *)
(* in the storage, the department's pointer to its current history and the *)
(* department's options; the editor, the merge of skipped classes and the  *)
(* deletion work on the stored rows.                                       *)
(*                                                                         *)
(* Every awaited call is an action: no handler uses a transaction.  Ids    *)
(* are given in the order of the inserts, which is that of createdAt, too. *)
(***************************************************************************)
EXTENDS DepartmentAccess, Integers, Sequences, FiniteSetsExt

CONSTANTS Departments,
          Existing,     \* those with a row at first; no handler here asks for it
          Accesses,     \* what tokens carry
          Courses, Teachers, Slots,
          Sheets,       \* uploads, parsed: sequences of entries
          Additions,    \* classes a client merges: sequences of entries
          Edits,        \* entries a client saves from the editor
          Requests,     \* slots for requests in flight
          HasStorage,   \* S3 is configured
          MaxUploads,   \* bound: uploads in a behaviour
          MaxSaves,     \* bound: merges and edits in a behaviour
          MaxIncidents, \* bound: failed statements, restarts and steps of other modules
          None          \* no history

\* An entry of a timetable: a class of a course (Null when course, semester or
\* section is unknown) with a teacher at a day and time.
Entry == [course : Courses \cup {Null}, teacher : Teachers \cup {Null}, slot : Slots \cup {Null}]

ASSUME TimetableAssumption ==
    /\ Sheets \cup Additions \cup Edits \subseteq Seq(Entry)
    /\ HasStorage \in BOOLEAN
    /\ {MaxUploads, MaxSaves, MaxIncidents} \subseteq Nat
    /\ Existing \subseteq Departments
    /\ None \notin Nat
    /\ Null \notin Departments

Ids == 1 .. MaxUploads

VARIABLES
    timetables, \* table timetables: [id, dept, entries]
    history,    \* table timetable_history: [id, dept, status, clashes]
    current,    \* departments.currentTimetableHistoryId, for those that exist
    options,    \* available_options.courses, for those that have a row
    files,      \* files in the storage: [dept, id]
    uploads,    \* history rows inserted so far
    created,    \* timetables inserted so far
    saves,      \* merges and edits so far
    incidents,  \* failed statements, restarts and steps of other modules so far
    req,        \* req[r]: what slot r holds of the request it serves
    \* What no handler reads:
    refused,    \* history ids whose uploader got an error or no answer
    serial,     \* serial[d]: what the answered requests of d leave one after the
                \* other: [rows, courses]; None once they overlapped, failed or met
                \* a deletion of the department
    unedited,   \* <<timetable, history>>: stored by that upload, not changed since
    stored      \* timetables whose file was stored, and not asked to be deleted

record == <<refused, serial, unedited, stored>>
tables == <<timetables, history, current, options, files>>
counts == <<uploads, created, saves, incidents>>
vars == <<tables, counts, req, record>>

Idle == [at |-> "idle"]

\* A request that waits to take the step at: the department, history row and
\* timetable it works for, the entries it was given, and those it will store.
Holding(at, d, h, t, given, entries) ==
    [at |-> at, dept |-> d, hid |-> h, tid |-> t, given |-> given, entries |-> entries,
     options |-> {}]

-----------------------------------------------------------------------------
(* What is computed from entries.                                          *)

Complete(e) == e.teacher # Null /\ e.slot # Null

\* validEntries: the others are told to the client as skipped, and not stored.
Valid(entries) ==
    LET kept[n \in 0 .. Len(entries)] ==
            IF n = 0 THEN <<>>
            ELSE IF Complete(entries[n]) THEN Append(kept[n - 1], entries[n])
            ELSE kept[n - 1]
    IN kept[Len(entries)]

CoursesOf(entries) == {entries[i].course : i \in DOMAIN entries} \ {Null}

\* Two entries of one class, or of one teacher, at one time.
Clashing(entries, field) ==
    {<<entries[i][field], entries[i].slot>> :
        i \in {i \in DOMAIN entries :
            /\ entries[i][field] # Null
            /\ \E j \in DOMAIN entries :
                  /\ j # i
                  /\ entries[j][field] = entries[i][field]
                  /\ entries[j].slot = entries[i].slot}}

DetectClashes(entries) ==
    [classes |-> Clashing(entries, "course"), teachers |-> Clashing(entries, "teacher")]

NoClashes == [classes |-> {}, teachers |-> {}]

TimetablesOf(d) == {t \in timetables : t.dept = d}

\* find, order createdAt DESC, take 1.
IsNewest(t, rows) == t \in rows /\ \A u \in rows : u.dept = t.dept => u.id <= t.id

\* update by id, of one column.
SetEntries(rows, id, entries) ==
    {IF t.id = id THEN [t EXCEPT !.entries = entries] ELSE t : t \in rows}

Touched(id) == {p \in unedited : p[1] # id}

Without(rows, id) == {t \in rows : t.id # id}

Init ==
    /\ timetables = {}
    /\ history = {}
    /\ current = [d \in Existing |-> None]
    /\ options = [d \in Existing |-> {}]
    /\ files = {}
    /\ uploads = 0 /\ created = 0 /\ saves = 0 /\ incidents = 0
    /\ req = [r \in Requests |-> Idle]
    /\ refused = {}
    /\ serial = [d \in Departments |-> [rows |-> {}, courses |-> {}]]
    /\ unedited = {}
    /\ stored = {}

Busy(d) == \E r \in Requests : req[r] # Idle /\ req[r].dept = d

Deleting(id) == \E r \in Requests : req[r].at \in {"deleteFiles", "remove"} /\ req[r].tid = id

\* What the request did alone counts, if it was alone.
Account(d, then) == serial' = IF serial[d] = None THEN serial ELSE [serial EXCEPT ![d] = then]

\* A request takes its slot; from then on one that is under way is not alone.
Begin(r, held) ==
    /\ req[r] = Idle
    /\ req' = [req EXCEPT ![r] = held]
    /\ serial' = IF Busy(held.dept) THEN [serial EXCEPT ![held.dept] = None] ELSE serial

Goto(r, at) == req' = [req EXCEPT ![r].at = at]
Answer(r) == req' = [req EXCEPT ![r] = Idle]

\* The answer is an error.
Refuse(r) ==
    /\ Answer(r)
    /\ refused' = refused \cup ({req[r].hid} \cap Ids)
    /\ serial' = [serial EXCEPT ![req[r].dept] = None]

-----------------------------------------------------------------------------
(* processTimetable                                                        *)

\* findById of the user, for a name, and the insert of the history row.
CreateTimetableHistory(r, access, d, sheet) ==
    /\ MayUse(access, d)
    /\ uploads < MaxUploads
    /\ uploads' = uploads + 1
    /\ history' = history \cup
           {[id |-> uploads + 1, dept |-> d, status |-> "processing", clashes |-> NoClashes]}
    /\ Begin(r, Holding("insert", d, uploads + 1, 0, sheet, Valid(sheet)))
    /\ UNCHANGED <<timetables, current, options, files, created, saves, incidents,
                   refused, unedited, stored>>

\* Mutant: the file is read before anything is stored, and its error forgotten.
UploadUnreadableSilently(r) ==
    /\ req[r].at = "insert"
    /\ Answer(r)
    /\ serial' = [serial EXCEPT ![req[r].dept] = None]
    /\ UNCHANGED <<tables, counts, refused, unedited, stored>>

\* The file cannot be read or parsed: the history row stays as it is.
UploadUnreadable(r) ==
    /\ req[r].at = "insert"
    /\ Refuse(r)
    /\ UNCHANGED <<tables, counts, unedited, stored>>

InsertTimetable(r) ==
    /\ req[r].at = "insert"
    /\ created' = created + 1
    /\ timetables' = timetables \cup
           {[id |-> created + 1, dept |-> req[r].dept, entries |-> req[r].entries]}
    /\ unedited' = unedited \cup {<<created + 1, req[r].hid>>}
    /\ req' = [req EXCEPT ![r].at = IF HasStorage THEN "upload" ELSE "complete",
                          ![r].tid = created + 1]
    /\ UNCHANGED <<history, current, options, files, uploads, saves, incidents,
                   refused, serial, stored>>

UploadTimetableFile(r) ==
    /\ req[r].at = "upload"
    /\ files' = files \cup {[dept |-> req[r].dept, id |-> req[r].tid]}
    /\ stored' = IF Deleting(req[r].tid) THEN stored ELSE stored \cup {req[r].tid}
    /\ Goto(r, "complete")
    /\ UNCHANGED <<timetables, history, current, options, counts,
                   refused, serial, unedited>>

\* Only the steps of the history row tell of it.
UploadFileFails(r) ==
    /\ req[r].at = "upload"
    /\ Goto(r, "complete")
    /\ UNCHANGED <<tables, counts, record>>

\* Mutant: the clashes of all entries, those that are skipped included.
UpdateHistoryAllEntries(r) ==
    /\ req[r].at = "complete"
    /\ history' = {IF h.id = req[r].hid
                   THEN [h EXCEPT !.status = "completed", !.clashes = DetectClashes(req[r].given)]
                   ELSE h : h \in history}
    /\ Goto(r, "point")
    /\ UNCHANGED <<timetables, current, options, files, counts, record>>

\* Mutant: the status of a processing step is taken for that of the history row.
UpdateHistorySuccess(r) ==
    /\ req[r].at = "complete"
    /\ history' = {IF h.id = req[r].hid
                   THEN [h EXCEPT !.status = "success", !.clashes = DetectClashes(req[r].entries)]
                   ELSE h : h \in history}
    /\ Goto(r, "point")
    /\ UNCHANGED <<timetables, current, options, files, counts, record>>

\* updateTimetableHistory: by id, nothing if the row is gone.
UpdateTimetableHistory(r) ==
    /\ req[r].at = "complete"
    /\ history' = {IF h.id = req[r].hid
                   THEN [h EXCEPT !.status = "completed",
                                  !.clashes = DetectClashes(req[r].entries)]
                   ELSE h : h \in history}
    /\ Goto(r, "point")
    /\ UNCHANGED <<timetables, current, options, files, counts, record>>

\* Mutant: the pointer is set before the history row is completed.
PointDepartmentEarly(r) ==
    /\ req[r].at \in {"complete", "point"}
    /\ current' = [d \in DOMAIN current |->
           IF d = req[r].dept THEN req[r].hid ELSE current[d]]
    /\ Goto(r, IF req[r].at = "point" THEN "findOptions" ELSE "complete")
    /\ UNCHANGED <<timetables, history, options, files, counts, record>>

\* The update of the department, nothing if it is gone.
PointDepartment(r) ==
    /\ req[r].at = "point"
    /\ current' = [d \in DOMAIN current |->
           IF d = req[r].dept THEN req[r].hid ELSE current[d]]
    /\ Goto(r, "findOptions")
    /\ UNCHANGED <<timetables, history, options, files, counts, record>>

-----------------------------------------------------------------------------
(* updateAvailableOptions, the end of an upload.                           *)

\* The upload is answered: what it stored is what it should have stored.
UploadDone(r) ==
    /\ Answer(r)
    /\ Account(req[r].dept, [
           rows |-> serial[req[r].dept].rows \cup
               {[id |-> req[r].tid, dept |-> req[r].dept, entries |-> Valid(req[r].given)]},
           courses |-> serial[req[r].dept].courses \cup CoursesOf(req[r].given)])
    /\ UNCHANGED <<refused, unedited, stored>>

\* Mutant: the courses given do not reach a row that there is.
FindOptionsKeeping(r) ==
    /\ req[r].at = "findOptions"
    /\ LET d == req[r].dept
       IN req' = [req EXCEPT
              ![r].at = IF d \in DOMAIN options THEN "mergeOptions" ELSE "selectOptions",
              ![r].options = IF d \in DOMAIN options THEN options[d] ELSE CoursesOf(req[r].given)]
    /\ UNCHANGED <<tables, counts, record>>

\* findOne, and the merge of the courses found with those given.
FindOptions(r) ==
    /\ req[r].at = "findOptions"
    /\ LET d == req[r].dept
           new == CoursesOf(req[r].given)
       IN req' = [req EXCEPT
              ![r].at = IF d \in DOMAIN options THEN "mergeOptions" ELSE "selectOptions",
              ![r].options = IF d \in DOMAIN options THEN options[d] \cup new ELSE new]
    /\ UNCHANGED <<tables, counts, record>>

\* update by key, nothing if the row is gone.
MergeOptions(r) ==
    /\ req[r].at = "mergeOptions"
    /\ options' = [d \in DOMAIN options |->
           IF d = req[r].dept THEN req[r].options ELSE options[d]]
    /\ UploadDone(r)
    /\ UNCHANGED <<timetables, history, current, files, counts>>

\* save of a new row: a select by key decides between update and insert.
SelectOptions(r) ==
    /\ req[r].at = "selectOptions"
    /\ Goto(r, IF req[r].dept \in DOMAIN options THEN "mergeOptions" ELSE "insertOptions")
    /\ UNCHANGED <<tables, counts, record>>

InsertOptions(r) ==
    /\ req[r].at = "insertOptions"
    /\ req[r].dept \notin DOMAIN options
    /\ options' = [d \in DOMAIN options \cup {req[r].dept} |->
           IF d = req[r].dept THEN req[r].options ELSE options[d]]
    /\ UploadDone(r)
    /\ UNCHANGED <<timetables, history, current, files, counts>>

\* The primary key refuses the row.
InsertOptionsRefused(r) ==
    /\ req[r].at = "insertOptions"
    /\ req[r].dept \in DOMAIN options
    /\ Refuse(r)
    /\ UNCHANGED <<tables, counts, unedited, stored>>

-----------------------------------------------------------------------------
(* mergeSkippedClasses and updateTimetableEntriesFromEditor                *)

CountSave == saves < MaxSaves /\ saves' = saves + 1

\* findOne of the history row: a condition, nothing of the row is used.
MergeFindHistory(r, access, d, h, additions) ==
    /\ MayUse(access, d)
    /\ h.dept = d
    /\ CountSave
    /\ Begin(r, Holding("mergeRead", d, None, 0, additions, <<>>))
    /\ UNCHANGED <<tables, uploads, created, incidents, refused, unedited, stored>>

\* Mutant: the timetable found first, not the newest.
MergeReadOldest(r) ==
    /\ req[r].at = "mergeRead"
    /\ \E t \in TimetablesOf(req[r].dept) :
          /\ \A u \in TimetablesOf(req[r].dept) : u.id >= t.id
          /\ req' = [req EXCEPT ![r].at = "select", ![r].tid = t.id,
                                ![r].entries = t.entries \o req[r].given]
    /\ UNCHANGED <<tables, counts, record>>

\* Mutant: the newest timetable of all.
MergeReadAnywhere(r) ==
    /\ req[r].at = "mergeRead"
    /\ \E t \in timetables :
          /\ \A u \in timetables : u.id <= t.id
          /\ req' = [req EXCEPT ![r].at = "select", ![r].tid = t.id,
                                ![r].entries = t.entries \o req[r].given]
    /\ UNCHANGED <<tables, counts, record>>

\* The classes are appended to the newest timetable of the department, be it
\* that of the history row or not.
MergeRead(r) ==
    /\ req[r].at = "mergeRead"
    /\ \E t \in TimetablesOf(req[r].dept) :
          /\ IsNewest(t, timetables)
          /\ req' = [req EXCEPT ![r].at = "select", ![r].tid = t.id,
                                ![r].entries = t.entries \o req[r].given]
    /\ UNCHANGED <<tables, counts, record>>

\* No timetable: 404.
MergeReadNothing(r) ==
    /\ req[r].at = "mergeRead"
    /\ TimetablesOf(req[r].dept) = {}
    /\ Answer(r)
    /\ UNCHANGED <<tables, counts, record>>

EditRead(r, access, d, entries) ==
    /\ MayUse(access, d)
    /\ \E t \in TimetablesOf(d) :
          /\ IsNewest(t, timetables)
          /\ Begin(r, Holding("select", d, None, t.id, entries, entries))
    /\ CountSave
    /\ UNCHANGED <<tables, uploads, created, incidents, refused, unedited, stored>>

\* The save is answered.  Of requests that ran alone, the row that was changed
\* is the newest: a merge appended to it what it was given, an edit replaced it.
Saved(r) ==
    /\ Answer(r)
    /\ Account(req[r].dept, [serial[req[r].dept] EXCEPT !.rows =
           {IF IsNewest(t, @)
            THEN [t EXCEPT !.entries =
                     IF req[r].entries = req[r].given THEN req[r].given ELSE @ \o req[r].given]
            ELSE t : t \in @}])
    /\ UNCHANGED <<refused, stored>>

\* save: the select by id shows whether data differs, and whether the row is
\* still there.
SaveSelectSame(r) ==
    /\ req[r].at = "select"
    /\ \E t \in timetables : t.id = req[r].tid /\ t.entries = req[r].entries
    /\ Saved(r)
    /\ UNCHANGED <<tables, counts, unedited>>

SaveSelect(r) ==
    /\ req[r].at = "select"
    /\ ~ \E t \in timetables : t.id = req[r].tid /\ t.entries = req[r].entries
    /\ Goto(r, IF \E t \in timetables : t.id = req[r].tid THEN "write" ELSE "reinsert")
    /\ UNCHANGED <<tables, counts, record>>

\* update of data, nothing if the row is gone.
SaveWrite(r) ==
    /\ req[r].at = "write"
    /\ timetables' = SetEntries(timetables, req[r].tid, req[r].entries)
    /\ unedited' = Touched(req[r].tid)
    /\ Saved(r)
    /\ UNCHANGED <<history, current, options, files, counts>>

\* The row was deleted after it was read: the save inserts it again.
SaveReinsert(r) ==
    /\ req[r].at = "reinsert"
    /\ \A t \in timetables : t.id # req[r].tid
    /\ timetables' = timetables \cup
           {[id |-> req[r].tid, dept |-> req[r].dept, entries |-> req[r].entries]}
    /\ unedited' = Touched(req[r].tid)
    /\ Saved(r)
    /\ UNCHANGED <<history, current, options, files, counts>>

\* Another save inserted it first: the primary key refuses.
SaveRefused(r) ==
    /\ req[r].at = "reinsert"
    /\ \E t \in timetables : t.id = req[r].tid
    /\ Refuse(r)
    /\ UNCHANGED <<tables, counts, unedited, stored>>

-----------------------------------------------------------------------------
(* deleteTimetable                                                         *)

\* findOne, then the check of the department the row belongs to.
DeleteFind(r, access, t) ==
    /\ MayUse(access, t.dept)
    /\ Begin(r, Holding(IF HasStorage THEN "deleteFiles" ELSE "remove",
                        t.dept, None, t.id, <<>>, <<>>))
    /\ stored' = stored \ {t.id}
    /\ UNCHANGED <<tables, counts, refused, unedited>>

\* Mutant: the prefix of the whole department.
DeleteAllFiles(r) ==
    /\ req[r].at = "deleteFiles"
    /\ files' = {f \in files : f.dept # req[r].dept}
    /\ Goto(r, "remove")
    /\ UNCHANGED <<timetables, history, current, options, counts, record>>

\* listFiles under the prefix of department and timetable, and deleteFiles.
DeleteTimetableFiles(r) ==
    /\ req[r].at = "deleteFiles"
    /\ files' = files \ {[dept |-> req[r].dept, id |-> req[r].tid]}
    /\ Goto(r, "remove")
    /\ UNCHANGED <<timetables, history, current, options, counts, record>>

\* A failure of the storage is logged, by deleteFiles or by deleteTimetable.
DeleteFilesFail(r) ==
    /\ req[r].at = "deleteFiles"
    /\ Goto(r, "remove")
    /\ UNCHANGED <<tables, counts, record>>

\* remove, by id.  The history row and the pointer to it stay.
RemoveTimetable(r) ==
    /\ req[r].at = "remove"
    /\ timetables' = Without(timetables, req[r].tid)
    /\ Account(req[r].dept, [serial[req[r].dept] EXCEPT !.rows = Without(@, req[r].tid)])
    /\ unedited' = Touched(req[r].tid)
    /\ Answer(r)
    /\ UNCHANGED <<history, current, options, files, counts, refused, stored>>

-----------------------------------------------------------------------------
(* Failures, and what other modules do to these tables.                    *)

\* A statement of the request fails: the request ends with an error, and what
\* its earlier statements wrote stays.
StatementFails(r) ==
    /\ req[r].at \notin {"idle", "upload", "deleteFiles"}
    /\ incidents < MaxIncidents
    /\ incidents' = incidents + 1
    /\ Refuse(r)
    /\ UNCHANGED <<tables, uploads, created, saves, unedited, stored>>

\* The server restarts: the requests in flight get no answer.
Crash ==
    /\ incidents < MaxIncidents
    /\ \E r \in Requests : req[r] # Idle
    /\ incidents' = incidents + 1
    /\ req' = [r \in Requests |-> Idle]
    /\ LET cut == {r \in Requests : req[r] # Idle}
       IN /\ refused' = refused \cup ({req[r].hid : r \in cut} \cap Ids)
          /\ serial' = [d \in Departments |->
                 IF \E r \in cut : req[r].dept = d THEN None ELSE serial[d]]
    /\ UNCHANGED <<tables, uploads, created, saves, unedited, stored>>

Meanwhile(d) ==
    /\ incidents < MaxIncidents
    /\ incidents' = incidents + 1
    /\ serial' = [serial EXCEPT ![d] = None]
    /\ UNCHANGED <<uploads, created, saves, req, refused, unedited, stored>>

\* deleteDepartment, one statement after the other, and performCleanup.
DepartmentTimetablesDeleted(d) ==
    /\ TimetablesOf(d) # {}
    /\ timetables' = timetables \ TimetablesOf(d)
    /\ Meanwhile(d)
    /\ UNCHANGED <<history, current, options, files>>

DepartmentHistoryDeleted(d) ==
    /\ \E h \in history : h.dept = d
    /\ history' = {h \in history : h.dept # d}
    /\ Meanwhile(d)
    /\ UNCHANGED <<timetables, current, options, files>>

DepartmentOptionsDeleted(d) ==
    /\ d \in DOMAIN options
    /\ options' = [e \in DOMAIN options \ {d} |-> options[e]]
    /\ Meanwhile(d)
    /\ UNCHANGED <<timetables, history, current, files>>

DepartmentRemoved(d) ==
    /\ d \in DOMAIN current
    /\ current' = [e \in DOMAIN current \ {d} |-> current[e]]
    /\ Meanwhile(d)
    /\ UNCHANGED <<timetables, history, options, files>>

\* createDepartment: the row of the department.
DepartmentCreated(d) ==
    /\ d \notin DOMAIN current
    /\ current' = [e \in DOMAIN current \cup {d} |-> IF e = d THEN None ELSE current[e]]
    /\ Meanwhile(d)
    /\ UNCHANGED <<timetables, history, options, files>>

Upload(r) ==
    \/ UploadUnreadable(r) \/ InsertTimetable(r)
    \/ UploadTimetableFile(r) \/ UploadFileFails(r)
    \/ UpdateTimetableHistory(r) \/ PointDepartment(r)
    \/ FindOptions(r) \/ MergeOptions(r) \/ SelectOptions(r)
    \/ InsertOptions(r) \/ InsertOptionsRefused(r)

Save(r) ==
    \/ MergeRead(r) \/ MergeReadNothing(r)
    \/ SaveSelectSame(r) \/ SaveSelect(r) \/ SaveWrite(r) \/ SaveReinsert(r) \/ SaveRefused(r)

Delete(r) == DeleteTimetableFiles(r) \/ DeleteFilesFail(r) \/ RemoveTimetable(r)

Client(r) ==
    \E access \in Accesses :
        \/ \E d \in Departments, sheet \in Sheets : CreateTimetableHistory(r, access, d, sheet)
        \/ \E d \in Departments, h \in history, additions \in Additions :
              MergeFindHistory(r, access, d, h, additions)
        \/ \E d \in Departments, entries \in Edits : EditRead(r, access, d, entries)
        \/ \E t \in timetables : DeleteFind(r, access, t)

Step(r) == Upload(r) \/ Save(r) \/ Delete(r)

Elsewhere(d) ==
    \/ DepartmentTimetablesDeleted(d) \/ DepartmentHistoryDeleted(d)
    \/ DepartmentOptionsDeleted(d) \/ DepartmentRemoved(d) \/ DepartmentCreated(d)

Next ==
    \/ \E r \in Requests : Client(r) \/ Step(r) \/ StatementFails(r)
    \/ \E d \in Departments : Elsewhere(d)
    \/ Crash

Spec == Init /\ [][Next]_vars

-----------------------------------------------------------------------------
(* What is true of every reachable state.                                  *)

Row == [id : Ids, dept : Departments, entries : Seq(Entry)]
Clashes == [classes : SUBSET (Courses \X Slots), teachers : SUBSET (Teachers \X Slots)]
HistoryRow ==
    [id : Ids, dept : Departments, status : {"processing", "completed"}, clashes : Clashes]
Holder ==
    [at : {"insert", "upload", "complete", "point", "findOptions", "mergeOptions",
           "selectOptions", "insertOptions", "mergeRead", "select", "write", "reinsert",
           "deleteFiles", "remove"},
     dept : Departments, hid : Ids \cup {None}, tid : 0 .. MaxUploads,
     given : Seq(Entry), entries : Seq(Entry), options : SUBSET Courses]

\* Tables and requests hold what their types say; ids are unique.
TypeOK ==
    /\ timetables \subseteq Row
    /\ \A t, u \in timetables : t.id = u.id => t = u
    /\ history \subseteq HistoryRow
    /\ \A g, h \in history : g.id = h.id => g = h
    /\ DOMAIN current \subseteq Departments
    /\ \A d \in DOMAIN current : current[d] \in Ids \cup {None}
    /\ DOMAIN options \subseteq Departments
    /\ \A d \in DOMAIN options : options[d] \subseteq Courses
    /\ files \subseteq [dept : Departments, id : Ids]
    /\ uploads \in 0 .. MaxUploads /\ created \in 0 .. uploads
    /\ \A r \in Requests : req[r] \in Holder \cup {Idle}

\* The history a department points to is complete, and its own, or deleted:
\* nobody is sent to the log of an upload that is still under way (processTimetable
\* updates the history row before the department).
CurrentCompleted ==
    \A d \in DOMAIN current : \A h \in history :
        h.id = current[d] => h.dept = d /\ h.status = "completed"

\* A history row stays in "processing" only while its upload is under way, or
\* after the uploader got an error (the catch of processTimetable leaves it).
ProcessingAttended ==
    \A h \in history : h.status = "processing" =>
        \/ h.id \in refused
        \/ \E r \in Requests :
              /\ req[r] # Idle
              /\ req[r].hid = h.id
              /\ req[r].at \in {"insert", "upload", "complete"}

\* Requests of a department that did not overlap, fail or meet a deletion of the
\* department leave what they would one after the other: an upload its valid
\* entries, a merge the classes appended to the newest timetable, an edit the
\* entries it was given.
SerialRuns ==
    \A d \in Departments :
        serial[d] # None /\ ~Busy(d) => TimetablesOf(d) = serial[d].rows

\* Without overlap, every course of an answered upload is offered by its
\* department (updateAvailableOptions merges what it finds).
CoursesOffered ==
    \A d \in Departments :
        serial[d] # None /\ serial[d].courses # {} =>
            d \in DOMAIN options /\ serial[d].courses \subseteq options[d]

\* The clashes a completed history row shows are those of the timetable its
\* upload stored, as long as nobody changed the entries of that timetable.
ClashesOfUpload ==
    \A h \in history, t \in timetables :
        h.status = "completed" /\ <<t.id, h.id>> \in unedited =>
            h.dept = t.dept /\ h.clashes = DetectClashes(t.entries)

\* A file that was stored stays until its own timetable is asked to be deleted
\* (deleteTimetableFiles lists the prefix of one timetable).
FileKept ==
    \A t \in timetables : t.id \in stored => [dept |-> t.dept, id |-> t.id] \in files

-----------------------------------------------------------------------------
(* What timetables are to those who read and change them.                  *)

\* What the requests that have read a timetable are about to make of it.
Drafted(q) == [id |-> q.tid, dept |-> q.dept, entries |-> q.entries]
Drafts == {Drafted(req[r]) : r \in {r \in Requests : req[r].at \in {"select", "write", "reinsert"}}}

Store == INSTANCE TimetableStore
         WITH docs <- timetables, drafts <- Drafts, numbers <- created,
              Contents <- {Valid(sheet) : sheet \in Sheets}

\* Timetables change as the documents of TimetableStore do: whatever overlaps, fails
\* or is cut, a save puts into a timetable an edit, or classes appended to the version
\* of that very timetable that was the department's newest when it was read, and
\* changes no other (processTimetable, mergeSkippedClasses,
\* updateTimetableEntriesFromEditor, deleteTimetable).
KeepsStore == Store!Spec
=============================================================================
