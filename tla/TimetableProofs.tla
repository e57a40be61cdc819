---------------------------- MODULE TimetableProofs ----------------------------
(***************************************************************************)
(* What the runs of Timetable check, for any departments, entries, tokens, *)
(* slots and bounds.  Inductive invariants, each on top of those before:   *)
(*                                                                         *)
(*   IInv       the log: a request's history row is its department's, and  *)
(*              completed once the request went on to the pointer;         *)
(*   DataInv    types, which hang on two facts that are not types: no more *)
(*              timetables are inserted than uploads began (Counted), and  *)
(*              rows, files and requests that name a timetable agree on    *)
(*              its department (OneHome);                                  *)
(*   FilesInv, ClashInv                                                    *)
(*              files, and the clashes of an upload, both by OneHome;      *)
(*   SerialInv  what the only request for a department holds, at each of   *)
(*              its steps, beside what the answered ones left (RowsFit,    *)
(*              OptionsFit), and that a step disturbs no other department. *)
(*   StoreInv   that what is about to be stored or appended is what the    *)
(*              client gave, for the refinement of TimetableStore.         *)
(***************************************************************************)
EXTENDS Timetable, FiniteSetTheorems, SequenceTheorems, TLAPS

\* The steps of an upload that come before its history row is completed.
Attending == {"insert", "upload", "complete"}
Labels == Attending \cup
    {"point", "findOptions", "mergeOptions", "selectOptions", "insertOptions",
     "mergeRead", "select", "write", "reinsert", "deleteFiles", "remove"}

HolderShape(q) ==
    q = [at |-> q.at, dept |-> q.dept, hid |-> q.hid, tid |-> q.tid, given |-> q.given,
         entries |-> q.entries, options |-> q.options]

RowShape(h) == h = [id |-> h.id, dept |-> h.dept, status |-> h.status, clashes |-> h.clashes]

\* A request's history row is its department's, and complete once it left it.
Sound(q) ==
    \/ q = Idle
    \/ /\ HolderShape(q)
       /\ q.at \in Labels
       /\ q.hid \in 1 .. uploads \cup {None}
       /\ \A h \in history :
             h.id = q.hid => h.dept = q.dept /\ (q.at \notin Attending => h.status = "completed")

SlotsSound ==
    /\ req = [r \in Requests |-> req[r]]
    /\ \A r \in Requests : Sound(req[r])

\* No row has an id that is yet to be given.
Numbered ==
    /\ uploads \in 0 .. MaxUploads
    /\ \A h \in history : RowShape(h) /\ h.id \in 1 .. uploads
    /\ \A d \in DOMAIN current : current[d] \in 1 .. uploads \cup {None}

IInv == Numbered /\ SlotsSound /\ CurrentCompleted /\ ProcessingAttended

-----------------------------------------------------------------------------

LEMMA InvInit == Init => IInv
<1>1. ASSUME Init PROVE IInv
  BY <1>1, TimetableAssumption
     DEF Init, IInv, Numbered, SlotsSound, Sound, CurrentCompleted, ProcessingAttended
<1>2. QED
  BY <1>1

\* A request takes a step or ends, and the tables of the log stay: what it goes on
\* with is sound, and when it leaves the first steps its history row is refused.
LEMMA SlotStep ==
    ASSUME IInv, NEW r \in Requests, NEW q,
           req' = [req EXCEPT ![r] = q],
           UNCHANGED <<history, current, uploads>>,
           Sound(q),
           refused \subseteq refused',
           req[r].at \in Attending =>
               \/ q.at \in Attending /\ q.hid = req[r].hid /\ q # Idle
               \/ {req[r].hid} \cap Ids \subseteq refused'
    PROVE  IInv'
<1>1. req' = [s \in Requests |-> IF s = r THEN q ELSE req[s]]
  BY DEF IInv, SlotsSound
<1>2. Numbered'
  BY DEF IInv, Numbered, RowShape
<1>3. SlotsSound'
  BY <1>1 DEF IInv, SlotsSound, Sound, HolderShape
<1>4. CurrentCompleted'
  BY DEF IInv, CurrentCompleted
<1>5. ProcessingAttended'
  <2>1. SUFFICES ASSUME NEW h \in history, h.status = "processing", h.id \notin refused'
                 PROVE  \E s \in Requests :
                           req'[s] # Idle /\ req'[s].hid = h.id /\ req'[s].at \in Attending
    BY DEF ProcessingAttended, Attending
  <2>2. PICK s \in Requests : req[s] # Idle /\ req[s].hid = h.id /\ req[s].at \in Attending
    BY <2>1 DEF IInv, ProcessingAttended, Attending
  <2>3. h.id \in Ids
    BY TimetableAssumption DEF IInv, Numbered, Ids
  <2>4. CASE s = r
    BY <1>1, <2>1, <2>2, <2>3, <2>4
  <2>5. CASE s # r
    BY <1>1, <2>2, <2>5
  <2>6. QED
    BY <2>4, <2>5
<1>6. QED
  BY <1>2, <1>3, <1>4, <1>5 DEF IInv

\* A request ends that has left the first steps, or with an error.
LEMMA EndStep ==
    ASSUME IInv, NEW r \in Requests, Answer(r),
           UNCHANGED <<history, current, uploads>>,
           \/ UNCHANGED refused /\ req[r].at \notin Attending
           \/ refused' = refused \cup ({req[r].hid} \cap Ids)
    PROVE  IInv'
BY SlotStep DEF Answer, Sound

\* A request that waits goes on to the step at, with the same history row.
LEMMA OnwardStep ==
    ASSUME IInv, NEW r \in Requests, NEW q,
           req' = [req EXCEPT ![r] = q],
           UNCHANGED <<history, current, uploads, refused>>,
           req[r] # Idle, HolderShape(q), q.at \in Labels,
           q.hid = req[r].hid, q.dept = req[r].dept,
           q.at \in Attending <=> req[r].at \in Attending
    PROVE  IInv'
<1>1. Sound(q)
  BY DEF IInv, SlotsSound, Sound
<1>2. q # Idle
  BY DEF Labels, Attending, Idle
<1>3. QED
  BY <1>1, <1>2, SlotStep

\* A request begins that has no history row.
LEMMA BeginStep ==
    ASSUME IInv, NEW r \in Requests, NEW at \in Labels \ Attending, NEW d, NEW t, NEW g, NEW e,
           Begin(r, Holding(at, d, None, t, g, e)),
           UNCHANGED <<history, current, uploads, refused>>
    PROVE  IInv'
<1> DEFINE q == Holding(at, d, None, t, g, e)
<1>1. HolderShape(q) /\ q.at = at /\ q.hid = None /\ q.dept = d
  BY DEF HolderShape, Holding
<1>2. \A h \in history : h.id # None
  BY TimetableAssumption DEF IInv, Numbered
<1>3. Sound(q)
  BY <1>1, <1>2 DEF Sound
<1>4. req' = [req EXCEPT ![r] = q] /\ req[r].at \notin Attending
  BY DEF Begin, Idle, Attending
<1> HIDE DEF q
<1>5. QED
  BY <1>3, <1>4, SlotStep

-----------------------------------------------------------------------------
(* One lemma per group of actions.                                         *)

LEMMA InvCreate ==
    ASSUME IInv, NEW r \in Requests, NEW access, NEW d, NEW sheet,
           CreateTimetableHistory(r, access, d, sheet)
    PROVE  IInv'
<1> PICK q : q = Holding("insert", d, uploads + 1, 0, sheet, Valid(sheet))
  OBVIOUS
<1> PICK new : new = [id |-> uploads + 1, dept |-> d, status |-> "processing",
                      clashes |-> NoClashes]
  OBVIOUS
<1>1. /\ uploads < MaxUploads /\ uploads' = uploads + 1 /\ uploads \in Nat /\ MaxUploads \in Nat
      /\ history' = history \cup {new}
      /\ req[r] = Idle /\ req' = [req EXCEPT ![r] = q]
      /\ UNCHANGED <<current, refused>>
  BY TimetableAssumption DEF CreateTimetableHistory, Begin, IInv, Numbered
<1>2. RowShape(new) /\ new.id = uploads + 1 /\ new.dept = d /\ new.status = "processing"
  BY DEF RowShape
<1>3. /\ HolderShape(q) /\ q.hid = uploads + 1 /\ q.dept = d
      /\ q.at = "insert" /\ q.at \in Labels /\ q.at \in Attending /\ q # Idle
  BY DEF HolderShape, Holding, Labels, Attending, Idle
<1>4. req' = [s \in Requests |-> IF s = r THEN q ELSE req[s]]
  BY <1>1 DEF IInv, SlotsSound
<1>5. uploads' \in 0 .. MaxUploads /\ uploads + 1 \in 1 .. uploads' /\ 1 .. uploads \subseteq 1 .. uploads'
  BY <1>1
<1>6. Numbered'
  BY <1>1, <1>2, <1>5 DEF IInv, Numbered, RowShape
<1>7. None # uploads + 1 /\ uploads + 1 \notin 1 .. uploads
  BY <1>1, TimetableAssumption
<1>8. \A h \in history : h.id # uploads + 1
  BY <1>7 DEF IInv, Numbered
<1>9. Sound(q)'
  BY <1>1, <1>2, <1>3, <1>5, <1>8 DEF Sound, HolderShape
<1>10. ASSUME NEW s \in Requests PROVE Sound(req[s])'
  <2>1. CASE s = r
    BY <1>4, <1>9, <2>1 DEF Sound, HolderShape
  <2>2. CASE s # r
    <3>1. req'[s] = req[s] /\ Sound(req[s])
      BY <1>4, <2>2 DEF IInv, SlotsSound
    <3>2. CASE req[s] = Idle
      BY <3>1, <3>2 DEF Sound
    <3>3. CASE req[s] # Idle
      <4>1. req[s].hid \in 1 .. uploads \cup {None}
        BY <3>1, <3>3 DEF Sound
      <4>2. req[s].hid # uploads + 1 /\ req[s].hid \in 1 .. uploads' \cup {None}
        BY <1>5, <1>7, <4>1
      <4>3. QED
        BY <1>1, <1>2, <3>1, <3>3, <4>2 DEF Sound, HolderShape
    <3>4. QED
      BY <3>2, <3>3
  <2>3. QED
    BY <2>1, <2>2
<1>11. SlotsSound'
  BY <1>4, <1>10 DEF SlotsSound
<1>12. CurrentCompleted'
  BY <1>1, <1>2, <1>7 DEF IInv, Numbered, CurrentCompleted
<1>13. ProcessingAttended'
  <2>1. req'[r] # Idle /\ req'[r].hid = new.id /\ req'[r].at = "insert"
    BY <1>2, <1>3, <1>4
  <2>2. ASSUME NEW s \in Requests, req[s] # Idle PROVE req'[s] = req[s]
    BY <1>1, <1>4, <2>2
  <2>3. QED
    BY <1>1, <1>2, <2>1, <2>2 DEF IInv, ProcessingAttended
<1>14. QED
  BY <1>6, <1>11, <1>12, <1>13 DEF IInv

LEMMA InvClient ==
    ASSUME IInv, NEW r \in Requests, Client(r)
    PROVE  IInv'
<1>1. ASSUME NEW access, NEW d, NEW h, NEW additions,
             MergeFindHistory(r, access, d, h, additions)
      PROVE  IInv'
  <2>1. "mergeRead" \in Labels \ Attending
    BY DEF Labels, Attending
  <2>2. QED
    BY <1>1, <2>1, BeginStep DEF MergeFindHistory, tables
<1>2. ASSUME NEW access, NEW d, NEW entries, EditRead(r, access, d, entries) PROVE IInv'
  <2>1. "select" \in Labels \ Attending
    BY DEF Labels, Attending
  <2>2. PICK t : Begin(r, Holding("select", d, None, t, entries, entries))
    BY <1>2 DEF EditRead
  <2>3. UNCHANGED <<history, current, uploads, refused>>
    BY <1>2 DEF EditRead, tables
  <2>4. QED
    BY <2>1, <2>2, <2>3, BeginStep
<1>3. ASSUME NEW access, NEW t, DeleteFind(r, access, t) PROVE IInv'
  <2>1. PICK at \in {"deleteFiles", "remove"} :
            Begin(r, Holding(at, t.dept, None, t.id, <<>>, <<>>))
    BY <1>3 DEF DeleteFind
  <2>2. at \in Labels \ Attending
    BY DEF Labels, Attending
  <2>3. UNCHANGED <<history, current, uploads, refused>>
    BY <1>3 DEF DeleteFind, tables, counts
  <2>4. QED
    BY <2>1, <2>2, <2>3, BeginStep
<1>4. QED
  BY <1>1, <1>2, <1>3, InvCreate DEF Client

\* A request that waits for a step is no idle slot, and goes on with what it has.
LEMMA Waits ==
    ASSUME IInv, NEW r \in Requests, req[r].at # "idle"
    PROVE  req[r] # Idle /\ Sound(req[r]) /\ HolderShape(req[r]) /\ req[r].at \in Labels
BY DEF IInv, SlotsSound, Sound, Idle

\* Goto keeps all but the label.
LEMMA GotoStep ==
    ASSUME IInv, NEW r \in Requests, NEW at \in Labels, req[r].at # "idle", Goto(r, at),
           UNCHANGED <<history, current, uploads, refused>>,
           at \in Attending <=> req[r].at \in Attending
    PROVE  IInv'
<1> DEFINE q == [req[r] EXCEPT !.at = at]
<1>1. req[r] # Idle /\ HolderShape(req[r])
  BY Waits
<1>2. HolderShape(q) /\ q.at = at /\ q.hid = req[r].hid /\ q.dept = req[r].dept
  BY <1>1 DEF HolderShape
<1>3. req' = [req EXCEPT ![r] = q]
  BY DEF Goto
<1> HIDE DEF q
<1>4. QED
  BY <1>1, <1>2, <1>3, OnwardStep

\* The history row is completed: the request leaves the first steps with it.
LEMMA InvComplete ==
    ASSUME IInv, NEW r \in Requests, UpdateTimetableHistory(r)
    PROVE  IInv'
<1>1. req[r] # Idle /\ Sound(req[r]) /\ HolderShape(req[r]) /\ req[r].at = "complete"
  BY Waits DEF UpdateTimetableHistory
<1> PICK id, d : id = req[r].hid /\ d = req[r].dept
  OBVIOUS
<1> PICK clashes : clashes = DetectClashes(req[r].entries)
  OBVIOUS
<1> PICK q : q = [req[r] EXCEPT !.at = "point"]
  OBVIOUS
<1> DEFINE Done(h) == [h EXCEPT !.status = "completed", !.clashes = clashes]
<1>2. HolderShape(q) /\ q.at = "point" /\ q.hid = id /\ q.dept = d
  BY <1>1 DEF HolderShape
<1>3. id \in 1 .. uploads \cup {None} /\ \A h \in history : h.id = id => h.dept = d
  BY <1>1 DEF Sound
<1>4. /\ history' = {IF h.id = id THEN Done(h) ELSE h : h \in history}
      /\ req' = [req EXCEPT ![r] = q]
      /\ UNCHANGED <<current, uploads, refused>>
  BY DEF UpdateTimetableHistory, Goto, counts, record
<1>5. \A h \in history : /\ RowShape(Done(h)) /\ Done(h).id = h.id /\ Done(h).dept = h.dept
                         /\ Done(h).status = "completed"
  <2>1. TAKE h \in history
  <2>2. PICK g : g = [h EXCEPT !.status = "completed", !.clashes = clashes]
    OBVIOUS
  <2>3. RowShape(h)
    BY DEF IInv, Numbered
  <2>4. RowShape(g) /\ g.id = h.id /\ g.dept = h.dept /\ g.status = "completed"
    BY <2>2, <2>3 DEF RowShape
  <2>5. QED
    BY <2>2, <2>4
<1> HIDE DEF Done
<1>6. \A g \in history' : \E h \in history :
          /\ g = IF h.id = id THEN Done(h) ELSE h
          /\ RowShape(g) /\ g.id = h.id /\ g.dept = h.dept
          /\ g.status = IF h.id = id THEN "completed" ELSE h.status
  <2>1. TAKE g \in history'
  <2>2. PICK h \in history : g = IF h.id = id THEN Done(h) ELSE h
    BY <1>4
  <2>3. RowShape(h)
    BY DEF IInv, Numbered
  <2>4. QED
    BY <1>5, <2>2, <2>3
<1>7. req' = [s \in Requests |-> IF s = r THEN q ELSE req[s]]
  BY <1>4 DEF IInv, SlotsSound
<1>8. Numbered'
  BY <1>4, <1>6 DEF IInv, Numbered, RowShape
<1>9. SlotsSound'
  <2>1. q.at \in Labels /\ q.at \notin Attending
    BY <1>2 DEF Labels, Attending
  <2>2. \A g \in history' : g.id = id => g.dept = d /\ g.status = "completed"
    BY <1>3, <1>6
  <2>3. Sound(q)'
    BY <1>2, <1>3, <1>4, <2>1, <2>2 DEF Sound, HolderShape
  <2>4. ASSUME NEW s \in Requests, s # r PROVE Sound(req[s])'
    <3>1. req'[s] = req[s] /\ Sound(req[s])
      BY <1>7, <2>4 DEF IInv, SlotsSound
    <3>2. QED
      BY <1>4, <1>6, <3>1 DEF Sound, HolderShape
  <2>5. Sound(req[r])'
    BY <1>7, <2>3 DEF Sound, HolderShape
  <2>6. QED
    BY <1>7, <2>4, <2>5 DEF SlotsSound
<1>10. CurrentCompleted'
  BY <1>4, <1>6 DEF IInv, CurrentCompleted
<1>11. ProcessingAttended'
  <2>1. SUFFICES ASSUME NEW g \in history', g.status = "processing", g.id \notin refused
                 PROVE  \E s \in Requests :
                           req'[s] # Idle /\ req'[s].hid = g.id /\ req'[s].at \in Attending
    BY <1>4 DEF ProcessingAttended, Attending
  <2>2. PICK h \in history : h.id # id /\ h.id = g.id /\ h.status = "processing"
    BY <1>6, <2>1
  <2>3. PICK s \in Requests : req[s] # Idle /\ req[s].hid = h.id /\ req[s].at \in Attending
    BY <2>1, <2>2 DEF IInv, ProcessingAttended, Attending
  <2>4. QED
    BY <1>7, <2>2, <2>3
<1>12. QED
  BY <1>8, <1>9, <1>10, <1>11 DEF IInv

\* The pointer is set to the request's history row, which is completed.
LEMMA InvPoint ==
    ASSUME IInv, NEW r \in Requests, PointDepartment(r)
    PROVE  IInv'
<1>1. req[r] # Idle /\ Sound(req[r]) /\ HolderShape(req[r]) /\ req[r].at = "point"
  BY Waits DEF PointDepartment
<1> PICK id, d : id = req[r].hid /\ d = req[r].dept
  OBVIOUS
<1> PICK q : q = [req[r] EXCEPT !.at = "findOptions"]
  OBVIOUS
<1>2. HolderShape(q) /\ q.at = "findOptions" /\ q.hid = id /\ q.dept = d
  BY <1>1 DEF HolderShape
<1>3. /\ id \in 1 .. uploads \cup {None}
      /\ \A h \in history : h.id = id => h.dept = d /\ h.status = "completed"
  BY <1>1 DEF Sound, Attending
<1>4. /\ current' = [e \in DOMAIN current |-> IF e = d THEN id ELSE current[e]]
      /\ req' = [req EXCEPT ![r] = q]
      /\ UNCHANGED <<history, uploads, refused>>
  BY DEF PointDepartment, Goto, counts, record
<1>5. req' = [s \in Requests |-> IF s = r THEN q ELSE req[s]]
  BY <1>4 DEF IInv, SlotsSound
<1>6. Numbered'
  BY <1>3, <1>4 DEF IInv, Numbered, RowShape
<1>7. SlotsSound'
  <2>1. q.at \in Labels
    BY <1>2 DEF Labels
  <2>2. QED
    BY <1>2, <1>3, <1>4, <1>5, <2>1 DEF IInv, SlotsSound, Sound, HolderShape
<1>8. CurrentCompleted'
  BY <1>3, <1>4 DEF IInv, CurrentCompleted
<1>9. ProcessingAttended'
  <2>1. ASSUME NEW s \in Requests, req[s].at \in Attending PROVE req'[s] = req[s]
    BY <1>1, <1>5, <2>1 DEF Attending
  <2>2. QED
    BY <1>4, <2>1 DEF IInv, ProcessingAttended, Attending
<1>10. QED
  BY <1>6, <1>7, <1>8, <1>9 DEF IInv

LEMMA InvUpload ==
    ASSUME IInv, NEW r \in Requests, Upload(r)
    PROVE  IInv'
<1>1. CASE UploadUnreadable(r)
  BY <1>1, EndStep DEF UploadUnreadable, Refuse, tables, counts
<1>2. CASE InsertTimetable(r)
  <2> PICK q : q = [req[r] EXCEPT !.at = IF HasStorage THEN "upload" ELSE "complete",
                                  !.tid = created + 1]
    OBVIOUS
  <2>1. req[r] # Idle /\ HolderShape(req[r]) /\ req[r].at = "insert"
    BY <1>2, Waits DEF InsertTimetable
  <2>2. /\ HolderShape(q) /\ q.at \in {"upload", "complete"}
        /\ q.hid = req[r].hid /\ q.dept = req[r].dept
    BY <2>1 DEF HolderShape
  <2>3. req' = [req EXCEPT ![r] = q] /\ UNCHANGED <<history, current, uploads, refused>>
    BY <1>2, <2>1 DEF InsertTimetable, IInv, SlotsSound
  <2>4. q.at \in Labels /\ q.at \in Attending /\ req[r].at \in Attending
    BY <2>1, <2>2 DEF Labels, Attending
  <2>5. QED
    BY <2>1, <2>2, <2>3, <2>4, OnwardStep
<1>3. CASE UploadTimetableFile(r) \/ UploadFileFails(r)
  <2>1. /\ req[r].at = "upload" /\ Goto(r, "complete")
        /\ UNCHANGED <<history, current, uploads, refused>>
    BY <1>3 DEF UploadTimetableFile, UploadFileFails, tables, counts, record
  <2>2. "complete" \in Labels /\ "complete" \in Attending /\ "upload" \in Attending
    BY DEF Labels, Attending
  <2>3. QED
    BY <2>1, <2>2, GotoStep
<1>4. CASE FindOptions(r)
  <2> PICK courses, at : /\ req' = [req EXCEPT ![r].at = at, ![r].options = courses]
                         /\ at \in {"mergeOptions", "selectOptions"}
    BY <1>4 DEF FindOptions
  <2> PICK q : q = [req[r] EXCEPT !.at = at, !.options = courses]
    OBVIOUS
  <2>1. req[r] # Idle /\ HolderShape(req[r]) /\ req[r].at = "findOptions"
    BY <1>4, Waits DEF FindOptions
  <2>2. HolderShape(q) /\ q.at = at /\ q.hid = req[r].hid /\ q.dept = req[r].dept
    BY <2>1 DEF HolderShape
  <2>3. req' = [req EXCEPT ![r] = q] /\ UNCHANGED <<history, current, uploads, refused>>
    BY <1>4, <2>1 DEF FindOptions, tables, counts, record, IInv, SlotsSound
  <2>4. q.at \in Labels /\ q.at \notin Attending /\ req[r].at \notin Attending
    BY <2>1, <2>2 DEF Labels, Attending
  <2>5. QED
    BY <2>1, <2>2, <2>3, <2>4, OnwardStep
<1>5. CASE MergeOptions(r) \/ InsertOptions(r)
  <2>1. req[r].at \notin Attending
    BY <1>5 DEF MergeOptions, InsertOptions, Attending
  <2>2. Answer(r) /\ UNCHANGED <<history, current, uploads, refused>>
    BY <1>5 DEF MergeOptions, InsertOptions, UploadDone, counts
  <2>3. QED
    BY <2>1, <2>2, EndStep
<1>6. CASE SelectOptions(r)
  <2>1. PICK at \in {"mergeOptions", "insertOptions"} : Goto(r, at)
    BY <1>6 DEF SelectOptions
  <2>2. req[r].at = "selectOptions" /\ UNCHANGED <<history, current, uploads, refused>>
    BY <1>6 DEF SelectOptions, tables, counts, record
  <2>3. at \in Labels /\ at \notin Attending /\ "selectOptions" \notin Attending
    BY DEF Labels, Attending
  <2>4. QED
    BY <2>1, <2>2, <2>3, GotoStep
<1>7. CASE InsertOptionsRefused(r)
  BY <1>7, EndStep DEF InsertOptionsRefused, Refuse, tables, counts
<1>8. QED
  BY <1>1, <1>2, <1>3, <1>4, <1>5, <1>6, <1>7, InvComplete, InvPoint DEF Upload

LEMMA InvSave ==
    ASSUME IInv, NEW r \in Requests, Save(r)
    PROVE  IInv'
<1>1. CASE MergeRead(r)
  <2> PICK t, e : req' = [req EXCEPT ![r].at = "select", ![r].tid = t, ![r].entries = e]
    BY <1>1 DEF MergeRead
  <2> PICK q : q = [req[r] EXCEPT !.at = "select", !.tid = t, !.entries = e]
    OBVIOUS
  <2>1. req[r] # Idle /\ HolderShape(req[r]) /\ req[r].at = "mergeRead"
    BY <1>1, Waits DEF MergeRead
  <2>2. HolderShape(q) /\ q.at = "select" /\ q.hid = req[r].hid /\ q.dept = req[r].dept
    BY <2>1 DEF HolderShape
  <2>3. req' = [req EXCEPT ![r] = q] /\ UNCHANGED <<history, current, uploads, refused>>
    BY <1>1, <2>1 DEF MergeRead, tables, counts, record, IInv, SlotsSound
  <2>4. q.at \in Labels /\ q.at \notin Attending /\ req[r].at \notin Attending
    BY <2>1, <2>2 DEF Labels, Attending
  <2>5. QED
    BY <2>1, <2>2, <2>3, <2>4, OnwardStep
<1>2. CASE MergeReadNothing(r) \/ SaveSelectSame(r) \/ SaveWrite(r) \/ SaveReinsert(r)
  <2>1. req[r].at \notin Attending
    BY <1>2 DEF MergeReadNothing, SaveSelectSame, SaveWrite, SaveReinsert, Attending
  <2>2. Answer(r) /\ UNCHANGED <<history, current, uploads, refused>>
    BY <1>2 DEF MergeReadNothing, SaveSelectSame, SaveWrite, SaveReinsert, Saved,
                tables, counts, record
  <2>3. QED
    BY <2>1, <2>2, EndStep
<1>3. CASE SaveSelect(r)
  <2>1. PICK at \in {"write", "reinsert"} : Goto(r, at)
    BY <1>3 DEF SaveSelect
  <2>2. req[r].at = "select" /\ UNCHANGED <<history, current, uploads, refused>>
    BY <1>3 DEF SaveSelect, tables, counts, record
  <2>3. at \in Labels /\ at \notin Attending /\ "select" \notin Attending
    BY DEF Labels, Attending
  <2>4. QED
    BY <2>1, <2>2, <2>3, GotoStep
<1>4. CASE SaveRefused(r)
  BY <1>4, EndStep DEF SaveRefused, Refuse, tables, counts
<1>5. QED
  BY <1>1, <1>2, <1>3, <1>4 DEF Save

LEMMA InvDelete ==
    ASSUME IInv, NEW r \in Requests, Delete(r)
    PROVE  IInv'
<1>1. CASE DeleteTimetableFiles(r) \/ DeleteFilesFail(r)
  <2>1. /\ req[r].at = "deleteFiles" /\ Goto(r, "remove")
        /\ UNCHANGED <<history, current, uploads, refused>>
    BY <1>1 DEF DeleteTimetableFiles, DeleteFilesFail, tables, counts, record
  <2>2. "remove" \in Labels /\ "remove" \notin Attending /\ "deleteFiles" \notin Attending
    BY DEF Labels, Attending
  <2>3. QED
    BY <2>1, <2>2, GotoStep
<1>2. CASE RemoveTimetable(r)
  <2>1. req[r].at \notin Attending
    BY <1>2 DEF RemoveTimetable, Attending
  <2>2. Answer(r) /\ UNCHANGED <<history, current, uploads, refused>>
    BY <1>2 DEF RemoveTimetable, counts
  <2>3. QED
    BY <2>1, <2>2, EndStep
<1>3. QED
  BY <1>1, <1>2 DEF Delete

\* What others do to the tables of the log: rows go, and departments come and go.
LEMMA InvElsewhere ==
    ASSUME IInv, NEW d \in Departments, Elsewhere(d)
    PROVE  IInv'
<1>1. UNCHANGED <<uploads, req, refused>>
  BY DEF Elsewhere, Meanwhile, DepartmentTimetablesDeleted, DepartmentHistoryDeleted,
         DepartmentOptionsDeleted, DepartmentRemoved, DepartmentCreated
<1>2. history' \subseteq history
  BY DEF Elsewhere, DepartmentTimetablesDeleted, DepartmentHistoryDeleted,
         DepartmentOptionsDeleted, DepartmentRemoved, DepartmentCreated
<1>3. \A e \in DOMAIN current' :
          current'[e] = None \/ (e \in DOMAIN current /\ current'[e] = current[e])
  <2>1. CASE DepartmentRemoved(d)
    BY <2>1 DEF DepartmentRemoved
  <2>2. CASE DepartmentCreated(d)
    BY <2>2 DEF DepartmentCreated
  <2>3. CASE UNCHANGED current
    BY <2>3
  <2>4. QED
    BY <2>1, <2>2, <2>3 DEF Elsewhere, DepartmentTimetablesDeleted, DepartmentHistoryDeleted,
                            DepartmentOptionsDeleted
<1>4. Numbered'
  BY <1>1, <1>2, <1>3 DEF IInv, Numbered, RowShape
<1>5. SlotsSound'
  BY <1>1, <1>2 DEF IInv, SlotsSound, Sound, HolderShape
<1>6. CurrentCompleted'
  <2>1. \A h \in history' : h.id # None
    BY <1>2, TimetableAssumption DEF IInv, Numbered
  <2>2. QED
    BY <1>2, <1>3, <2>1 DEF IInv, CurrentCompleted
<1>7. ProcessingAttended'
  BY <1>1, <1>2 DEF IInv, ProcessingAttended
<1>8. QED
  BY <1>4, <1>5, <1>6, <1>7 DEF IInv

LEMMA InvCrash ==
    ASSUME IInv, Crash
    PROVE  IInv'
<1>1. /\ UNCHANGED <<history, current, uploads>>
      /\ req' = [r \in Requests |-> Idle]
      /\ refused \subseteq refused'
      /\ \A r \in Requests : req[r] # Idle /\ req[r].hid \in Ids => req[r].hid \in refused'
  BY DEF Crash, tables
<1>2. Numbered' /\ SlotsSound' /\ CurrentCompleted'
  BY <1>1 DEF IInv, Numbered, RowShape, SlotsSound, Sound, CurrentCompleted
<1>3. \A h \in history : h.id \in Ids
  BY TimetableAssumption DEF IInv, Numbered, Ids
<1>4. ProcessingAttended'
  BY <1>1, <1>3 DEF IInv, ProcessingAttended
<1>5. QED
  BY <1>2, <1>4 DEF IInv

LEMMA InvNext == IInv /\ [Next]_vars => IInv'
<1>1. ASSUME IInv, UNCHANGED vars PROVE IInv'
  BY <1>1 DEF vars, tables, counts, record, IInv, Numbered, RowShape, SlotsSound, Sound,
              HolderShape, CurrentCompleted, ProcessingAttended
<1>2. ASSUME IInv, NEW r \in Requests, StatementFails(r) PROVE IInv'
  BY <1>2, EndStep DEF StatementFails, Refuse, tables
<1>3. QED
  BY <1>1, <1>2, InvClient, InvUpload, InvSave, InvDelete, InvElsewhere, InvCrash
     DEF Next, Step

-----------------------------------------------------------------------------
(* Induction over numbers, with a set in the place of a predicate.         *)

\* A set of numbers that is not empty has one whose predecessor is not in it.
LEMMA Least ==
    ASSUME NEW T \in SUBSET Nat, T # {}
    PROVE  \E n \in T : n - 1 \notin T
<1> DEFINE R == {ss \in Nat \X Nat : ss[1] < ss[2]}
<1>1. IsWellFoundedOn(R, Nat)
  BY NatLessThanWellFounded DEF OpToRel
<1>2. PICK n \in T : \A y \in T : ~ (<<y, n>> \in R)
  <2> HIDE DEF R
  <2>1. QED
    BY <1>1, WFMin
<1>3. ASSUME n - 1 \in T PROVE FALSE
  <2>1. <<n - 1, n>> \in R
    BY <1>3
  <2>2. QED
    BY <1>2, <1>3, <2>1
<1>4. QED
  BY <1>3

\* What is stored of an upload: its complete entries.
GoodEntry == {e \in Entry : Complete(e)}

LEMMA ValidGood ==
    ASSUME NEW s \in Seq(Entry)
    PROVE  Valid(s) \in Seq(GoodEntry)
<1> DEFINE Further(kept, n) == IF Complete(s[n]) THEN Append(kept[n - 1], s[n]) ELSE kept[n - 1]
           Keeps(kept, m) ==
               kept = [n \in 0 .. m |-> IF n = 0 THEN <<>> ELSE Further(kept, n)]
           all == CHOOSE kept : Keeps(kept, Len(s))
           Bad == {m \in 0 .. Len(s) : ~ \E kept : Keeps(kept, m)}
           Wrong == {m \in 0 .. Len(s) : all[m] \notin Seq(GoodEntry)}
<1>1. Bad = {}
  <2>1. SUFFICES ASSUME Bad # {} PROVE FALSE
    OBVIOUS
  <2>2. PICK m \in Bad : m - 1 \notin Bad
    <3>1. Bad \in SUBSET Nat
      OBVIOUS
    <3> HIDE DEF Bad
    <3>2. QED
      BY <2>1, <3>1, Least
  <2>3. m # 0
    <3>1. Keeps([n \in 0 .. 0 |-> <<>>], 0)
      OBVIOUS
    <3>2. QED
      BY <3>1
  <2>4. PICK kept : Keeps(kept, m - 1)
    <3>1. m - 1 \in 0 .. Len(s)
      BY <2>3
    <3> HIDE DEF Keeps
    <3>2. QED
      BY <2>2, <3>1
  <2> DEFINE more == [n \in 0 .. m |-> IF n < m THEN kept[n] ELSE Further(kept, m)]
  <2>5. Keeps(more, m)
    <3>1. \A n \in 0 .. m - 1 : more[n] = IF n = 0 THEN <<>> ELSE Further(more, n)
      <4>1. TAKE n \in 0 .. m - 1
      <4>2. kept[n] = IF n = 0 THEN <<>> ELSE Further(kept, n)
        BY <2>4
      <4>3. n # 0 => more[n - 1] = kept[n - 1]
        BY <2>3
      <4>4. QED
        BY <2>3, <4>2, <4>3
    <3>2. m # 0 /\ m \in Nat /\ more[m] = Further(more, m)
      BY <2>3
    <3>3. more = [n \in 0 .. m |-> more[n]]
      OBVIOUS
    <3> HIDE DEF more
    <3>4. \A n \in 0 .. m : more[n] = IF n = 0 THEN <<>> ELSE Further(more, n)
      BY <3>1, <3>2
    <3> HIDE DEF Further
    <3>5. QED
      BY <3>3, <3>4
  <2>6. QED
    BY <2>5
<1>2. Keeps(all, Len(s))
  <2> HIDE DEF Keeps
  <2>1. \E kept : Keeps(kept, Len(s))
    <3>1. Len(s) \in 0 .. Len(s)
      OBVIOUS
    <3>2. QED
      BY <1>1, <3>1
  <2>2. QED
    BY <2>1
<1>3. Valid(s) = all[Len(s)]
  BY DEF Valid
<1>4. Wrong = {}
  <2>1. SUFFICES ASSUME Wrong # {} PROVE FALSE
    OBVIOUS
  <2>2. PICK m \in Wrong : m - 1 \notin Wrong
    <3>1. Wrong \in SUBSET Nat
      OBVIOUS
    <3> HIDE DEF Wrong
    <3>2. QED
      BY <2>1, <3>1, Least
  <2>3. all[m] = IF m = 0 THEN <<>> ELSE Further(all, m)
    BY <1>2
  <2>4. m \in 0 .. Len(s) /\ all[m] \notin Seq(GoodEntry)
    OBVIOUS
  <2>5. m # 0 => all[m - 1] \in Seq(GoodEntry)
    BY <2>2
  <2> HIDE DEF all, Wrong
  <2>6. m # 0
    BY <2>3, <2>4
  <2>7. s[m] \in Entry
    BY <2>4, <2>6
  <2>8. QED
    BY <2>3, <2>4, <2>5, <2>6, <2>7 DEF GoodEntry
<1>5. QED
  BY <1>3, <1>4

-----------------------------------------------------------------------------
(* What tables and requests hold.                                          *)

\* The steps of an upload, and those that come after its timetable was inserted.
Storing == {"upload", "complete", "point", "findOptions", "mergeOptions",
            "selectOptions", "insertOptions"}
Uploading == {"insert"} \cup Storing

\* An upload has a history row and its valid entries, and works for a timetable
\* once that was inserted; the others work for the one they found.
Well(q) ==
    q # Idle =>
        /\ q \in Holder
        /\ q.tid \in 0 .. created
        /\ q.tid = 0 <=> q.at \in {"insert", "mergeRead"}
        /\ q.hid = None <=> q.at \notin Uploading
        /\ q.at \in Uploading => q.entries = Valid(q.given)

SlotsWell == \A r \in Requests : Well(req[r])

\* No two requests have a history row in common.
HidsDiffer ==
    \A r, s \in Requests :
        /\ req[r] # Idle /\ req[s] # Idle
        /\ req[r].hid = req[s].hid /\ req[r].hid # None
        => r = s

\* The uploads that have yet to insert their timetable.
Waiting == {req[r].hid : r \in {s \in Requests : req[s].at = "insert"}}

Counted ==
    /\ created \in Nat /\ IsFiniteSet(Waiting)
    /\ created + Cardinality(Waiting) <= uploads

\* Whose a timetable is, as its row, its files and requests for it have it.
Homes ==
    {<<t.id, t.dept>> : t \in timetables} \cup {<<f.id, f.dept>> : f \in files} \cup
    {<<req[r].tid, req[r].dept>> : r \in {s \in Requests : req[s] # Idle /\ req[s].tid # 0}}

OneHome ==
    /\ \A p \in Homes : p[1] \in 1 .. created
    /\ \A p, q \in Homes : p[1] = q[1] => p = q

DataInv == TypeOK /\ SlotsWell /\ HidsDiffer /\ Counted /\ OneHome

\* A request ends, or goes on with what it was given, for the timetable it has,
\* has found or has inserted.
Onward(r, q) ==
    /\ req[r] # Idle
    /\ q # Idle =>
          /\ q.hid = req[r].hid /\ q.dept = req[r].dept /\ q.given = req[r].given
          /\ q.at \notin {"insert", "mergeRead", "deleteFiles"}
          /\ q.at \in Attending => req[r].at \in Attending
          /\ \/ q.tid = req[r].tid
             \/ q.at \notin Uploading /\ <<q.tid, q.dept>> \in Homes
             \/ InsertTimetable(r) /\ q.tid = created + 1

LEMMA WellHeld ==
    ASSUME IInv, DataInv, NEW r \in Requests, req[r].at # "idle"
    PROVE  req[r] # Idle /\ req[r] \in Holder /\ Well(req[r])
BY DEF DataInv, SlotsWell, Well, Idle

\* An upload that is about to insert its timetable has a number left for it.
LEMMA RoomLeft ==
    ASSUME IInv, DataInv, NEW r \in Requests, req[r].at = "insert"
    PROVE  req[r].hid \in Waiting /\ created + 1 <= uploads /\ created + 1 \in Ids
<1>1. uploads \in Nat /\ uploads <= MaxUploads /\ created \in Nat /\ MaxUploads \in Nat
  BY TimetableAssumption DEF IInv, Numbered, DataInv, Counted
<1>2. IsFiniteSet(Waiting) /\ Cardinality(Waiting) \in Nat
  BY FS_CardinalityType DEF DataInv, Counted
<1>3. req[r].hid \in Waiting
  BY DEF Waiting
<1>4. Cardinality(Waiting) # 0
  BY <1>2, <1>3, FS_EmptySet
<1>5. QED
  BY <1>1, <1>2, <1>3, <1>4 DEF DataInv, Counted, Ids

LEMMA RowKnown ==
    ASSUME DataInv, NEW t \in timetables
    PROVE  /\ t \in Row /\ <<t.id, t.dept>> \in Homes
           /\ t.id \in 1 .. created /\ t.id \in 0 .. MaxUploads
<1>1. t \in Row /\ <<t.id, t.dept>> \in Homes
  BY DEF DataInv, TypeOK, Homes
<1>2. <<t.id, t.dept>>[1] \in 1 .. created
  BY <1>1 DEF DataInv, OneHome
<1>3. QED
  BY <1>1, <1>2, TimetableAssumption DEF Row, Ids

LEMMA CoursesTyped ==
    ASSUME NEW s \in Seq(Entry)
    PROVE  CoursesOf(s) \subseteq Courses
<1>1. \A i \in DOMAIN s : s[i] \in Entry
  OBVIOUS
<1>2. QED
  BY <1>1 DEF CoursesOf, Entry

\* A waiting request takes the label at, and keeps the rest.
LEMMA GotoWell ==
    ASSUME IInv, DataInv, NEW r \in Requests,
           NEW at \in Storing \cup {"write", "reinsert", "remove"},
           Goto(r, at), created' = created,
           req[r].at \notin {"idle", "insert", "mergeRead"},
           at \in Storing <=> req[r].at \in Storing,
           at \in Attending => req[r].at \in Attending
    PROVE  \E q : /\ req' = [s \in Requests |-> IF s = r THEN q ELSE req[s]]
                  /\ Onward(r, q) /\ Well(q)'
<1> PICK q : q = [req[r] EXCEPT !.at = at]
  OBVIOUS
<1>1. req[r] # Idle /\ req[r] \in Holder /\ Well(req[r])
  BY WellHeld
<1>2. /\ q \in Holder /\ q.at = at /\ q.dept = req[r].dept /\ q.hid = req[r].hid
      /\ q.tid = req[r].tid /\ q.given = req[r].given /\ q.entries = req[r].entries
  BY <1>1 DEF Holder, Storing
<1>3. Well(q)'
  BY <1>1, <1>2 DEF Well, Uploading, Storing
<1>4. req' = [s \in Requests |-> IF s = r THEN q ELSE req[s]]
  BY DEF Goto, IInv, SlotsSound
<1>5. at \notin {"insert", "mergeRead", "deleteFiles"}
  BY DEF Storing
<1>6. QED
  BY <1>1, <1>2, <1>3, <1>4, <1>5 DEF Onward

LEMMA AnswerWell ==
    ASSUME IInv, NEW r \in Requests, Answer(r), req[r].at # "idle"
    PROVE  \E q : /\ req' = [s \in Requests |-> IF s = r THEN q ELSE req[s]]
                  /\ Onward(r, q) /\ Well(q)'
<1>1. req' = [s \in Requests |-> IF s = r THEN Idle ELSE req[s]]
  BY DEF Answer, IInv, SlotsSound
<1>2. Onward(r, Idle) /\ Well(Idle)'
  BY DEF Onward, Well, Idle
<1>3. QED
  BY <1>1, <1>2

LEMMA StepMoves ==
    ASSUME IInv, DataInv, NEW r \in Requests, Step(r) \/ StatementFails(r)
    PROVE  \E q : /\ req' = [s \in Requests |-> IF s = r THEN q ELSE req[s]]
                  /\ Onward(r, q) /\ Well(q)'
<1> DEFINE Moves == \E q : /\ req' = [s \in Requests |-> IF s = r THEN q ELSE req[s]]
                           /\ Onward(r, q) /\ Well(q)'
<1>1. CASE InsertTimetable(r)
  <2> PICK q : q = [req[r] EXCEPT !.at = IF HasStorage THEN "upload" ELSE "complete",
                                  !.tid = created + 1]
    OBVIOUS
  <2>1. req[r] # Idle /\ req[r] \in Holder /\ Well(req[r]) /\ req[r].at = "insert"
    BY <1>1, WellHeld DEF InsertTimetable
  <2>2. created + 1 \in Ids /\ created + 1 \in 0 .. MaxUploads /\ created \in Nat
    BY <2>1, RoomLeft, TimetableAssumption DEF Ids, DataInv, Counted
  <2>3. /\ q \in Holder /\ q.at \in {"upload", "complete"} /\ q.dept = req[r].dept
        /\ q.hid = req[r].hid /\ q.tid = created + 1 /\ q.given = req[r].given
        /\ q.entries = req[r].entries
    BY <2>1, <2>2 DEF Holder
  <2>4. created' = created + 1 /\ req' = [s \in Requests |-> IF s = r THEN q ELSE req[s]]
    BY <1>1, <2>1 DEF InsertTimetable, IInv, SlotsSound
  <2>5. Well(q)'
    BY <2>1, <2>2, <2>3, <2>4 DEF Well, Uploading, Storing
  <2>6. QED
    BY <1>1, <2>1, <2>3, <2>4, <2>5 DEF Onward, Attending
<1>2. CASE FindOptions(r)
  <2> PICK courses, at :
          /\ req' = [req EXCEPT ![r].at = at, ![r].options = courses]
          /\ at \in {"mergeOptions", "selectOptions"}
          /\ \/ courses = CoursesOf(req[r].given)
             \/ req[r].dept \in DOMAIN options
                /\ courses = options[req[r].dept] \cup CoursesOf(req[r].given)
    BY <1>2 DEF FindOptions
  <2> PICK q : q = [req[r] EXCEPT !.at = at, !.options = courses]
    OBVIOUS
  <2>1. req[r] # Idle /\ req[r] \in Holder /\ Well(req[r]) /\ req[r].at = "findOptions"
    BY <1>2, WellHeld DEF FindOptions
  <2>2. courses \subseteq Courses
    <3>1. req[r].given \in Seq(Entry)
      BY <2>1 DEF Holder
    <3>2. QED
      BY <3>1, CoursesTyped DEF DataInv, TypeOK
  <2>3. /\ q \in Holder /\ q.at = at /\ q.dept = req[r].dept /\ q.hid = req[r].hid
        /\ q.tid = req[r].tid /\ q.given = req[r].given /\ q.entries = req[r].entries
    BY <2>1, <2>2 DEF Holder
  <2>4. created' = created /\ req' = [s \in Requests |-> IF s = r THEN q ELSE req[s]]
    BY <1>2, <2>1 DEF FindOptions, counts, IInv, SlotsSound
  <2>5. Well(q)'
    BY <2>1, <2>3, <2>4 DEF Well, Uploading, Storing
  <2>6. QED
    BY <2>1, <2>3, <2>4, <2>5 DEF Onward, Attending
<1>3. CASE MergeRead(r)
  <2> PICK t \in TimetablesOf(req[r].dept) :
          req' = [req EXCEPT ![r].at = "select", ![r].tid = t.id,
                             ![r].entries = t.entries \o req[r].given]
    BY <1>3 DEF MergeRead
  <2> PICK q : q = [req[r] EXCEPT !.at = "select", !.tid = t.id,
                                  !.entries = t.entries \o req[r].given]
    OBVIOUS
  <2>0. t \in timetables /\ t.dept = req[r].dept /\ req' = [req EXCEPT ![r] = q]
    BY DEF IInv, SlotsSound, TimetablesOf
  <2>1. req[r] # Idle /\ req[r] \in Holder /\ Well(req[r]) /\ req[r].at = "mergeRead"
    BY <1>3, WellHeld DEF MergeRead
  <2>2. t.entries \o req[r].given \in Seq(Entry) /\ t.id \in Ids
    BY <2>0, <2>1, ConcatProperties DEF DataInv, TypeOK, Row, Holder
  <2>3. t.id \in 1 .. created /\ t.id \in 0 .. MaxUploads
    BY <2>0, RowKnown
  <2>4. /\ q \in Holder /\ q.at = "select" /\ q.dept = req[r].dept /\ q.hid = req[r].hid
        /\ q.tid = t.id /\ q.given = req[r].given
    BY <2>1, <2>2, <2>3 DEF Holder
  <2>5. created' = created /\ req' = [s \in Requests |-> IF s = r THEN q ELSE req[s]]
    BY <1>3, <2>0, <2>1 DEF MergeRead, counts, IInv, SlotsSound
  <2>6. Well(q)'
    BY <2>1, <2>3, <2>4, <2>5 DEF Well, Uploading, Storing
  <2>7. <<q.tid, q.dept>> \in Homes
    BY <2>0, <2>4, RowKnown
  <2>8. QED
    BY <2>1, <2>4, <2>5, <2>6, <2>7 DEF Onward, Attending, Uploading, Storing
<1>4. CASE UploadTimetableFile(r) \/ UploadFileFails(r) \/ UpdateTimetableHistory(r)
           \/ PointDepartment(r)
  <2>1. PICK at \in {"complete", "point", "findOptions"} :
            Goto(r, at) /\ (at = "complete" => req[r].at = "upload")
    BY <1>4 DEF UploadTimetableFile, UploadFileFails, UpdateTimetableHistory, PointDepartment
  <2>2. req[r].at \in {"upload", "complete", "point"} /\ created' = created
    BY <1>4 DEF UploadTimetableFile, UploadFileFails, UpdateTimetableHistory, PointDepartment,
                counts
  <2>3. /\ at \in Storing /\ req[r].at \in Storing
        /\ req[r].at \notin {"idle", "insert", "mergeRead"}
        /\ at \in Attending => req[r].at \in Attending
    BY <2>1, <2>2 DEF Storing, Attending
  <2>4. QED
    BY <2>1, <2>2, <2>3, GotoWell
<1>5. CASE SelectOptions(r)
  <2>1. PICK at \in {"mergeOptions", "insertOptions"} : Goto(r, at)
    BY <1>5 DEF SelectOptions
  <2>2. req[r].at = "selectOptions" /\ created' = created
    BY <1>5 DEF SelectOptions, counts
  <2>3. /\ at \in Storing /\ req[r].at \in Storing
        /\ req[r].at \notin {"idle", "insert", "mergeRead"}
        /\ at \in Attending => req[r].at \in Attending
    BY <2>1, <2>2 DEF Storing, Attending
  <2>4. QED
    BY <2>1, <2>2, <2>3, GotoWell
<1>6. CASE SaveSelect(r) \/ DeleteTimetableFiles(r) \/ DeleteFilesFail(r)
  <2>1. PICK at \in {"write", "reinsert", "remove"} : Goto(r, at)
    BY <1>6 DEF SaveSelect, DeleteTimetableFiles, DeleteFilesFail
  <2>2. req[r].at \in {"select", "deleteFiles"} /\ created' = created
    BY <1>6 DEF SaveSelect, DeleteTimetableFiles, DeleteFilesFail, counts
  <2>3. /\ at \notin Storing /\ req[r].at \notin Storing
        /\ req[r].at \notin {"idle", "insert", "mergeRead"}
        /\ at \notin Attending
    BY <2>1, <2>2 DEF Storing, Attending
  <2>4. QED
    BY <2>1, <2>2, <2>3, GotoWell
<1>7. CASE \/ UploadUnreadable(r) \/ MergeOptions(r) \/ InsertOptions(r)
           \/ InsertOptionsRefused(r) \/ MergeReadNothing(r) \/ SaveSelectSame(r)
           \/ SaveWrite(r) \/ SaveReinsert(r) \/ SaveRefused(r) \/ RemoveTimetable(r)
           \/ StatementFails(r)
  <2>1. Answer(r) /\ req[r].at # "idle"
    BY <1>7 DEF UploadUnreadable, MergeOptions, InsertOptions, InsertOptionsRefused,
                MergeReadNothing, SaveSelectSame, SaveWrite, SaveReinsert, SaveRefused,
                RemoveTimetable, StatementFails, UploadDone, Saved, Refuse
  <2>2. QED
    BY <2>1, AnswerWell
<1>8. QED
  BY <1>1, <1>2, <1>3, <1>4, <1>5, <1>6, <1>7 DEF Step, Upload, Save, Delete

\* A request begins: an upload with a new history row, the others for a timetable
\* there is.
Fresh(r, q) ==
    /\ req[r] = Idle /\ q # Idle
    /\ \/ /\ q.at = "insert" /\ q.hid = uploads + 1 /\ q.tid = 0
          /\ uploads < MaxUploads /\ uploads' = uploads + 1
          /\ \E access, d, sheet : CreateTimetableHistory(r, access, d, sheet)
       \/ /\ q.at # "insert" /\ q.hid = None /\ UNCHANGED <<uploads, history>>
          /\ q.tid = 0 \/ <<q.tid, q.dept>> \in Homes

LEMMA ClientMoves ==
    ASSUME IInv, DataInv, NEW r \in Requests, Client(r)
    PROVE  \E q : /\ req' = [s \in Requests |-> IF s = r THEN q ELSE req[s]]
                  /\ Fresh(r, q) /\ Well(q)'
                  /\ UNCHANGED <<timetables, current, options, files, created>>
<1> PICK access \in Accesses :
        \/ \E d \in Departments, sheet \in Sheets : CreateTimetableHistory(r, access, d, sheet)
        \/ \E d \in Departments, h \in history, additions \in Additions :
              MergeFindHistory(r, access, d, h, additions)
        \/ \E d \in Departments, entries \in Edits : EditRead(r, access, d, entries)
        \/ \E t \in timetables : DeleteFind(r, access, t)
  BY DEF Client
<1> created \in Nat /\ uploads \in Nat /\ MaxUploads \in Nat /\ None \notin Nat
  BY TimetableAssumption DEF DataInv, Counted, IInv, Numbered
<1>1. ASSUME NEW d \in Departments, NEW sheet \in Sheets,
             CreateTimetableHistory(r, access, d, sheet)
      PROVE  \E q : /\ req' = [s \in Requests |-> IF s = r THEN q ELSE req[s]]
                    /\ Fresh(r, q) /\ Well(q)'
                    /\ UNCHANGED <<timetables, current, options, files, created>>
  <2> PICK q : q = Holding("insert", d, uploads + 1, 0, sheet, Valid(sheet))
    OBVIOUS
  <2>1. sheet \in Seq(Entry) /\ Valid(sheet) \in Seq(Entry)
    <3>1. sheet \in Seq(Entry)
      BY TimetableAssumption
    <3>2. Valid(sheet) \in Seq(GoodEntry)
      BY <3>1, ValidGood
    <3>3. GoodEntry \subseteq Entry
      BY DEF GoodEntry
    <3>4. QED
      BY <3>1, <3>2, <3>3, SeqMonotonic
  <2>2. uploads < MaxUploads /\ uploads + 1 \in Ids
    BY <1>1 DEF CreateTimetableHistory, Ids
  <2>3. /\ q.at = "insert" /\ q.hid = uploads + 1 /\ q.tid = 0 /\ q.given = sheet
        /\ q.entries = Valid(sheet) /\ q # Idle
    BY DEF Holding, Idle
  <2>4. q \in Holder
    BY <2>1, <2>2 DEF Holding, Holder
  <2>5. Well(q)'
    BY <1>1, <2>3, <2>4 DEF Well, Uploading, Storing, CreateTimetableHistory
  <2>6. Fresh(r, q)
    BY <1>1, <2>2, <2>3 DEF Fresh, CreateTimetableHistory, Begin
  <2>7. QED
    BY <1>1, <2>5, <2>6 DEF CreateTimetableHistory, Begin, IInv, SlotsSound
<1>2. ASSUME NEW d \in Departments, NEW h, NEW additions \in Additions,
             MergeFindHistory(r, access, d, h, additions)
      PROVE  \E q : /\ req' = [s \in Requests |-> IF s = r THEN q ELSE req[s]]
                    /\ Fresh(r, q) /\ Well(q)'
                    /\ UNCHANGED <<timetables, current, options, files, created>>
  <2> PICK q : q = Holding("mergeRead", d, None, 0, additions, <<>>)
    OBVIOUS
  <2>1. additions \in Seq(Entry) /\ <<>> \in Seq(Entry)
    BY TimetableAssumption
  <2>2. /\ q.at = "mergeRead" /\ q.hid = None /\ q.tid = 0 /\ q # Idle
    BY DEF Holding, Idle
  <2>3. q \in Holder
    BY <2>1 DEF Holding, Holder
  <2>4. Well(q)'
    BY <1>2, <2>2, <2>3 DEF Well, Uploading, Storing, MergeFindHistory
  <2>5. Fresh(r, q)
    BY <1>2, <2>2 DEF Fresh, MergeFindHistory, Begin, tables
  <2>6. QED
    BY <1>2, <2>4, <2>5 DEF MergeFindHistory, Begin, IInv, SlotsSound, tables
<1>3. ASSUME NEW d \in Departments, NEW t \in timetables, NEW entries, NEW at,
             Begin(r, Holding(at, d, None, t.id, entries, entries)),
             at \in {"select", "deleteFiles", "remove"},
             t.dept = d, entries \in Seq(Entry), UNCHANGED <<tables, uploads, created>>
      PROVE  \E q : /\ req' = [s \in Requests |-> IF s = r THEN q ELSE req[s]]
                    /\ Fresh(r, q) /\ Well(q)'
                    /\ UNCHANGED <<timetables, current, options, files, created>>
  <2> PICK q : q = Holding(at, d, None, t.id, entries, entries)
    OBVIOUS
  <2>1. <<t.id, t.dept>> \in Homes /\ t.id \in 1 .. created /\ t.id \in 0 .. MaxUploads
    BY RowKnown
  <2>2. /\ q.at = at /\ q.hid = None /\ q.tid = t.id /\ q.dept = d /\ q # Idle
    BY <1>3 DEF Holding, Idle
  <2>3. q \in Holder
    BY <1>3, <2>1 DEF Holding, Holder
  <2>4. Well(q)'
    BY <1>3, <2>1, <2>2, <2>3 DEF Well, Uploading, Storing
  <2>5. Fresh(r, q)
    BY <1>3, <2>1, <2>2 DEF Fresh, Begin, tables
  <2>6. QED
    BY <1>3, <2>4, <2>5 DEF Begin, IInv, SlotsSound, tables
<1>4. ASSUME NEW d \in Departments, NEW entries \in Edits, EditRead(r, access, d, entries)
      PROVE  \E q : /\ req' = [s \in Requests |-> IF s = r THEN q ELSE req[s]]
                    /\ Fresh(r, q) /\ Well(q)'
                    /\ UNCHANGED <<timetables, current, options, files, created>>
  <2>1. PICK t \in timetables :
            t.dept = d /\ Begin(r, Holding("select", d, None, t.id, entries, entries))
    BY <1>4 DEF EditRead, TimetablesOf
  <2>2. entries \in Seq(Entry) /\ UNCHANGED <<tables, uploads, created>>
    BY <1>4, TimetableAssumption DEF EditRead
  <2>3. QED
    BY <1>3, <2>1, <2>2
<1>5. ASSUME NEW t \in timetables, DeleteFind(r, access, t)
      PROVE  \E q : /\ req' = [s \in Requests |-> IF s = r THEN q ELSE req[s]]
                    /\ Fresh(r, q) /\ Well(q)'
                    /\ UNCHANGED <<timetables, current, options, files, created>>
  <2>1. PICK at \in {"deleteFiles", "remove"} :
            Begin(r, Holding(at, t.dept, None, t.id, <<>>, <<>>))
    BY <1>5 DEF DeleteFind
  <2>2. t.dept \in Departments
    BY RowKnown DEF Row
  <2>3. <<>> \in Seq(Entry) /\ UNCHANGED <<tables, uploads, created>>
    BY <1>5 DEF DeleteFind, counts
  <2>4. QED
    BY <1>3, <2>1, <2>2, <2>3
<1>6. QED
  BY <1>1, <1>2, <1>4, <1>5

-----------------------------------------------------------------------------
(* What a step does to each table.                                         *)

RowsOK ==
    /\ timetables \subseteq Row
    /\ \A t, u \in timetables : t.id = u.id => t = u

\* A request that has a timetable works for it in its own department.
LEMMA HeldHome ==
    ASSUME IInv, DataInv, NEW r \in Requests,
           req[r].at \notin {"idle", "insert", "mergeRead"}
    PROVE  /\ req[r] # Idle /\ req[r] \in Holder
           /\ <<req[r].tid, req[r].dept>> \in Homes
           /\ req[r].tid \in 1 .. created /\ req[r].tid \in Ids
<1>1. req[r] # Idle /\ req[r] \in Holder /\ Well(req[r])
  BY WellHeld
<1>2. req[r].tid # 0 /\ req[r].tid \in 0 .. MaxUploads
  BY <1>1 DEF Well, Holder
<1>3. <<req[r].tid, req[r].dept>> \in Homes
  BY <1>1, <1>2 DEF Homes
<1>4. <<req[r].tid, req[r].dept>>[1] \in 1 .. created
  BY <1>3 DEF DataInv, OneHome
<1>5. QED
  BY <1>1, <1>2, <1>3, <1>4, TimetableAssumption DEF Ids

\* New data in the row of an id.
LEMMA EntriesSet ==
    ASSUME DataInv, NEW id, NEW entries \in Seq(Entry)
    PROVE  \A u \in SetEntries(timetables, id, entries) :
              /\ u \in Row
              /\ \E t \in timetables :
                    /\ u.id = t.id /\ u.dept = t.dept
                    /\ u = IF t.id = id THEN [t EXCEPT !.entries = entries] ELSE t
                    /\ u.entries = IF t.id = id THEN entries ELSE t.entries
<1>1. TAKE u \in SetEntries(timetables, id, entries)
<1>2. PICK t \in timetables : u = IF t.id = id THEN [t EXCEPT !.entries = entries] ELSE t
  BY DEF SetEntries
<1>3. t \in Row
  BY RowKnown
<1>4. u \in Row /\ u.id = t.id /\ u.dept = t.dept
      /\ u.entries = IF t.id = id THEN entries ELSE t.entries
  BY <1>2, <1>3 DEF Row
<1>5. QED
  BY <1>2, <1>4

LEMMA RowsStep ==
    ASSUME IInv, DataInv, NEW r \in Requests, Step(r) \/ StatementFails(r)
    PROVE  /\ RowsOK'
           /\ \A t \in timetables' :
                 \/ <<t.id, t.dept>> \in Homes
                 \/ InsertTimetable(r) /\ t.id = created + 1 /\ t.dept = req[r].dept
<1> DEFINE New == [id |-> created + 1, dept |-> req[r].dept, entries |-> req[r].entries]
           Back == [id |-> req[r].tid, dept |-> req[r].dept, entries |-> req[r].entries]
<1>0. RowsOK /\ \A t \in timetables : <<t.id, t.dept>> \in Homes
  BY RowKnown DEF DataInv, TypeOK, RowsOK
<1>1. CASE timetables' \subseteq timetables
  BY <1>0, <1>1 DEF RowsOK
<1>2. CASE InsertTimetable(r)
  <2>1. req[r] \in Holder /\ created + 1 \in Ids /\ created \in Nat
    BY <1>2, WellHeld, RoomLeft DEF InsertTimetable, DataInv, Counted
  <2>2. New \in Row
    BY <2>1 DEF Holder, Row
  <2>3. \A t \in timetables : t.id # New.id
    <3>1. TAKE t \in timetables
    <3>2. t.id \in 1 .. created
      BY RowKnown
    <3>3. QED
      BY <2>1, <3>2
  <2>4. timetables' = timetables \cup {New}
    BY <1>2 DEF InsertTimetable
  <2>5. New.id = created + 1 /\ New.dept = req[r].dept
    OBVIOUS
  <2> HIDE DEF New
  <2>6. QED
    BY <1>0, <1>2, <2>2, <2>3, <2>4, <2>5 DEF RowsOK
<1>3. CASE SaveWrite(r)
  <2>1. req[r] \in Holder /\ timetables' = SetEntries(timetables, req[r].tid, req[r].entries)
    BY <1>3, WellHeld DEF SaveWrite
  <2>2. req[r].entries \in Seq(Entry)
    BY <2>1 DEF Holder
  <2>3. QED
    BY <1>0, <2>1, <2>2, EntriesSet DEF RowsOK
<1>4. CASE SaveReinsert(r)
  <2>1. req[r] \in Holder /\ req[r].tid \in Ids /\ <<req[r].tid, req[r].dept>> \in Homes
    BY <1>4, HeldHome DEF SaveReinsert
  <2>2. Back \in Row
    BY <2>1 DEF Holder, Row
  <2>3. timetables' = timetables \cup {Back} /\ \A t \in timetables : t.id # Back.id
    BY <1>4 DEF SaveReinsert
  <2>4. Back.id = req[r].tid /\ Back.dept = req[r].dept
    OBVIOUS
  <2> HIDE DEF Back
  <2>5. QED
    BY <1>0, <2>1, <2>2, <2>3, <2>4 DEF RowsOK
<1>5. ASSUME ~InsertTimetable(r), ~SaveWrite(r), ~SaveReinsert(r)
      PROVE  timetables' \subseteq timetables
  <2>1. CASE RemoveTimetable(r)
    BY <2>1 DEF RemoveTimetable, Without
  <2>2. CASE StatementFails(r)
    BY <2>2 DEF StatementFails, tables
  <2>3. CASE Upload(r)
    BY <1>5, <2>3 DEF Upload, UploadUnreadable, UploadTimetableFile, UploadFileFails,
        UpdateTimetableHistory, PointDepartment, FindOptions, MergeOptions, SelectOptions,
        InsertOptions, InsertOptionsRefused, tables
  <2>4. CASE Save(r)
    BY <1>5, <2>4 DEF Save, MergeRead, MergeReadNothing, SaveSelectSame, SaveSelect,
        SaveRefused, tables
  <2>5. CASE DeleteTimetableFiles(r) \/ DeleteFilesFail(r)
    BY <2>5 DEF DeleteTimetableFiles, DeleteFilesFail, tables
  <2>6. QED
    BY <2>1, <2>2, <2>3, <2>4, <2>5 DEF Step, Delete
<1>6. QED
  BY <1>1, <1>2, <1>3, <1>4, <1>5

FilesOK == files \subseteq [dept : Departments, id : Ids]

LEMMA FilesStep ==
    ASSUME IInv, DataInv, NEW r \in Requests, Step(r) \/ StatementFails(r)
    PROVE  FilesOK' /\ \A f \in files' : <<f.id, f.dept>> \in Homes
<1>0. FilesOK /\ \A f \in files : <<f.id, f.dept>> \in Homes
  BY DEF DataInv, TypeOK, FilesOK, Homes
<1>1. CASE files' \subseteq files
  BY <1>0, <1>1 DEF FilesOK
<1>2. CASE UploadTimetableFile(r)
  <2>1. req[r] \in Holder /\ req[r].tid \in Ids /\ <<req[r].tid, req[r].dept>> \in Homes
    BY <1>2, HeldHome DEF UploadTimetableFile
  <2> PICK f : f = [dept |-> req[r].dept, id |-> req[r].tid]
    OBVIOUS
  <2>2. files' = files \cup {f}
    BY <1>2 DEF UploadTimetableFile
  <2>3. f \in [dept : Departments, id : Ids] /\ f.id = req[r].tid /\ f.dept = req[r].dept
    BY <2>1 DEF Holder
  <2>4. QED
    BY <1>0, <2>1, <2>2, <2>3 DEF FilesOK
<1>3. ASSUME ~UploadTimetableFile(r) PROVE files' \subseteq files
  <2>1. CASE StatementFails(r)
    BY <2>1 DEF StatementFails, tables
  <2>2. CASE Upload(r)
    BY <1>3, <2>2 DEF Upload, UploadUnreadable, InsertTimetable, UploadFileFails,
        UpdateTimetableHistory, PointDepartment, FindOptions, MergeOptions, SelectOptions,
        InsertOptions, InsertOptionsRefused, tables
  <2>3. CASE Save(r)
    BY <2>3 DEF Save, MergeRead, MergeReadNothing, SaveSelectSame, SaveSelect, SaveWrite,
        SaveReinsert, SaveRefused, tables
  <2>4. CASE Delete(r)
    BY <2>4 DEF Delete, DeleteTimetableFiles, DeleteFilesFail, RemoveTimetable, tables
  <2>5. QED
    BY <2>1, <2>2, <2>3, <2>4 DEF Step
<1>4. QED
  BY <1>1, <1>2, <1>3

\* Clashes are between classes and teachers there are, at times there are.
LEMMA ClashesTyped ==
    ASSUME NEW s \in Seq(GoodEntry)
    PROVE  DetectClashes(s) \in Clashes
<1>1. \A i \in DOMAIN s : s[i] \in GoodEntry
  OBVIOUS
<1>2. \A i \in DOMAIN s : /\ s[i].slot \in Slots /\ s[i].teacher \in Teachers
                         /\ s[i].course \in Courses \cup {Null}
  BY <1>1 DEF GoodEntry, Complete, Entry
<1>3. Clashing(s, "course") \subseteq Courses \X Slots
  BY <1>2 DEF Clashing
<1>4. Clashing(s, "teacher") \subseteq Teachers \X Slots
  BY <1>2 DEF Clashing
<1>5. QED
  BY <1>3, <1>4 DEF DetectClashes, Clashes

LogOK ==
    /\ history \subseteq HistoryRow
    /\ \A g, h \in history : g.id = h.id => g = h

LEMMA LogStep ==
    ASSUME IInv, DataInv, NEW r \in Requests, Step(r) \/ StatementFails(r)
    PROVE  LogOK'
<1>0. LogOK
  BY DEF DataInv, TypeOK, LogOK
<1>1. CASE UpdateTimetableHistory(r)
  <2> DEFINE clashes == DetectClashes(req[r].entries)
             Done(h) == [h EXCEPT !.status = "completed", !.clashes = clashes]
  <2>1. req[r] \in Holder /\ Well(req[r]) /\ req[r] # Idle /\ req[r].at = "complete"
    BY <1>1, WellHeld DEF UpdateTimetableHistory
  <2>2. req[r].given \in Seq(Entry) /\ req[r].entries = Valid(req[r].given)
    BY <2>1 DEF Holder, Well, Uploading, Storing
  <2>3. clashes \in Clashes
    BY <2>2, ValidGood, ClashesTyped
  <2>4. history' = {IF h.id = req[r].hid THEN Done(h) ELSE h : h \in history}
    BY <1>1 DEF UpdateTimetableHistory
  <2> HIDE DEF clashes
  <2>5. \A h \in history : Done(h) \in HistoryRow /\ Done(h).id = h.id
    BY <1>0, <2>3 DEF LogOK, HistoryRow
  <2> HIDE DEF Done
  <2>6. QED
    BY <1>0, <2>4, <2>5 DEF LogOK
<1>2. ASSUME ~UpdateTimetableHistory(r) PROVE UNCHANGED history
  <2>1. CASE StatementFails(r)
    BY <2>1 DEF StatementFails, tables
  <2>2. CASE Upload(r)
    BY <1>2, <2>2 DEF Upload, UploadUnreadable, InsertTimetable, UploadTimetableFile,
        UploadFileFails, PointDepartment, FindOptions, MergeOptions, SelectOptions,
        InsertOptions, InsertOptionsRefused, tables
  <2>3. CASE Save(r)
    BY <2>3 DEF Save, MergeRead, MergeReadNothing, SaveSelectSame, SaveSelect, SaveWrite,
        SaveReinsert, SaveRefused, tables
  <2>4. CASE Delete(r)
    BY <2>4 DEF Delete, DeleteTimetableFiles, DeleteFilesFail, RemoveTimetable, tables
  <2>5. QED
    BY <2>1, <2>2, <2>3, <2>4 DEF Step
<1>3. CASE UNCHANGED history
  BY <1>0, <1>3 DEF LogOK
<1>4. QED
  BY <1>1, <1>2, <1>3

RestOK ==
    /\ DOMAIN current \subseteq Departments
    /\ \A d \in DOMAIN current : current[d] \in Ids \cup {None}
    /\ DOMAIN options \subseteq Departments
    /\ \A d \in DOMAIN options : options[d] \subseteq Courses

LEMMA RestStep ==
    ASSUME IInv, DataInv, NEW r \in Requests, Step(r) \/ StatementFails(r)
    PROVE  RestOK'
<1>0. RestOK
  BY DEF DataInv, TypeOK, RestOK
<1>1. CASE PointDepartment(r)
  <2>1. req[r] \in Holder
    BY <1>1, WellHeld DEF PointDepartment
  <2>2. QED
    BY <1>0, <1>1, <2>1 DEF RestOK, PointDepartment, Holder
<1>2. CASE MergeOptions(r) \/ InsertOptions(r)
  <2>1. req[r] \in Holder
    BY <1>2, WellHeld DEF MergeOptions, InsertOptions
  <2>2. QED
    BY <1>0, <1>2, <2>1 DEF RestOK, MergeOptions, InsertOptions, Holder
<1>3. ASSUME ~PointDepartment(r), ~MergeOptions(r), ~InsertOptions(r)
      PROVE  UNCHANGED <<current, options>>
  <2>1. CASE StatementFails(r)
    BY <2>1 DEF StatementFails, tables
  <2>2. CASE Upload(r)
    BY <1>3, <2>2 DEF Upload, UploadUnreadable, InsertTimetable, UploadTimetableFile,
        UploadFileFails, UpdateTimetableHistory, FindOptions, SelectOptions,
        InsertOptionsRefused, tables
  <2>3. CASE Save(r)
    BY <2>3 DEF Save, MergeRead, MergeReadNothing, SaveSelectSame, SaveSelect, SaveWrite,
        SaveReinsert, SaveRefused, tables
  <2>4. CASE Delete(r)
    BY <2>4 DEF Delete, DeleteTimetableFiles, DeleteFilesFail, RemoveTimetable, tables
  <2>5. QED
    BY <2>1, <2>2, <2>3, <2>4 DEF Step
<1>4. CASE UNCHANGED <<current, options>>
  BY <1>0, <1>4 DEF RestOK
<1>5. QED
  BY <1>1, <1>2, <1>3, <1>4

\* The numbers given so far.
LEMMA CountStep ==
    ASSUME NEW r \in Requests, Step(r) \/ StatementFails(r)
    PROVE  /\ uploads' = uploads
           /\ created' = created \/ (InsertTimetable(r) /\ created' = created + 1)
<1>1. CASE StatementFails(r)
  BY <1>1 DEF StatementFails
<1>2. CASE Upload(r)
  BY <1>2 DEF Upload, UploadUnreadable, InsertTimetable, UploadTimetableFile,
      UploadFileFails, UpdateTimetableHistory, PointDepartment, FindOptions, MergeOptions,
      SelectOptions, InsertOptions, InsertOptionsRefused, counts
<1>3. CASE Save(r)
  BY <1>3 DEF Save, MergeRead, MergeReadNothing, SaveSelectSame, SaveSelect, SaveWrite,
      SaveReinsert, SaveRefused, counts
<1>4. CASE Delete(r)
  BY <1>4 DEF Delete, DeleteTimetableFiles, DeleteFilesFail, RemoveTimetable, counts
<1>5. QED
  BY <1>1, <1>2, <1>3, <1>4 DEF Step

\* What is true of a request that waits stays true while timetables are inserted.
LEMMA WellStays ==
    ASSUME DataInv, NEW q, Well(q), created' \in {created, created + 1}
    PROVE  Well(q)'
<1>1. created \in Nat
  BY DEF DataInv, Counted
<1>2. q # Idle => q.tid \in 0 .. created'
  BY <1>1 DEF Well
<1>3. QED
  BY <1>2 DEF Well

\* Each of the parts of DataInv after a step of a request.
LEMMA SlotsStep ==
    ASSUME IInv, DataInv, NEW r \in Requests, NEW q,
           req' = [s \in Requests |-> IF s = r THEN q ELSE req[s]],
           Well(q)', created' \in {created, created + 1},
           q # Idle => \/ req[r] # Idle /\ q.hid = req[r].hid
                       \/ q.hid = uploads + 1 \/ q.hid = None
    PROVE  /\ SlotsWell' /\ HidsDiffer'
           /\ \A s \in Requests : req'[s] \in Holder \cup {Idle}
<1>1. SlotsWell'
  <2>1. ASSUME NEW s \in Requests PROVE Well(req[s])'
    <3> PICK p : p = IF s = r THEN q ELSE req[s]
      OBVIOUS
    <3>1. Well(p)'
      BY WellStays DEF DataInv, SlotsWell
    <3>2. req'[s] = p
      OBVIOUS
    <3>3. QED
      BY <3>1, <3>2 DEF Well
  <2>2. QED
    BY <2>1 DEF SlotsWell
<1>2. \A s \in Requests : req[s] # Idle => req[s].hid \in 1 .. uploads \cup {None}
  BY DEF IInv, SlotsSound, Sound
<1>3. uploads \in Nat /\ None \notin Nat
  BY TimetableAssumption DEF IInv, Numbered
<1>4. HidsDiffer'
  BY <1>2, <1>3 DEF DataInv, HidsDiffer
<1>5. \A s \in Requests : req'[s] \in Holder \cup {Idle}
  BY <1>1 DEF SlotsWell, Well
<1>6. QED
  BY <1>1, <1>4, <1>5

LEMMA WaitingStep ==
    ASSUME IInv, DataInv, NEW r \in Requests, Step(r) \/ StatementFails(r), NEW q,
           req' = [s \in Requests |-> IF s = r THEN q ELSE req[s]],
           q.at # "insert"
    PROVE  Counted'
<1>1. IsFiniteSet(Waiting) /\ Cardinality(Waiting) \in Nat
  BY FS_CardinalityType DEF DataInv, Counted
<1>2. Waiting' \subseteq Waiting
  BY DEF Waiting
<1>3. IsFiniteSet(Waiting') /\ Cardinality(Waiting') <= Cardinality(Waiting)
  BY <1>1, <1>2, FS_Subset
<1>4. Cardinality(Waiting') \in Nat
  BY <1>3, FS_CardinalityType
<1>5. created \in Nat /\ created + Cardinality(Waiting) <= uploads /\ uploads \in Nat
  BY DEF DataInv, Counted, IInv, Numbered
<1>6. CASE created' = created
  BY <1>1, <1>3, <1>4, <1>5, <1>6, CountStep DEF Counted
<1>7. CASE InsertTimetable(r) /\ created' = created + 1
  <2>1. req[r].at = "insert" /\ req[r].hid \in Waiting
    BY <1>7, RoomLeft DEF InsertTimetable
  <2>2. Waiting' \subseteq Waiting \ {req[r].hid}
    <3>1. SUFFICES ASSUME NEW s \in Requests, req'[s].at = "insert"
                   PROVE  req'[s].hid # req[r].hid /\ req'[s].hid \in Waiting
      BY DEF Waiting
    <3>2. s # r /\ req'[s] = req[s]
      BY <3>1
    <3>3. req[s] # Idle /\ req[r] # Idle /\ Well(req[r])
      BY <2>1, <3>1, <3>2, WellHeld
    <3>4. req[r].hid # None
      BY <2>1, <3>3 DEF Well, Uploading
    <3>5. QED
      BY <3>1, <3>2, <3>3, <3>4 DEF DataInv, HidsDiffer, Waiting
  <2>3. IsFiniteSet(Waiting \ {req[r].hid})
        /\ Cardinality(Waiting \ {req[r].hid}) = Cardinality(Waiting) - 1
    BY <1>1, <2>1, FS_RemoveElement
  <2>4. Cardinality(Waiting') <= Cardinality(Waiting) - 1
    BY <2>2, <2>3, FS_Subset
  <2>5. QED
    BY <1>1, <1>3, <1>4, <1>5, <1>7, <2>4, CountStep DEF Counted
<1>8. QED
  BY <1>6, <1>7, CountStep

LEMMA HomesStep ==
    ASSUME IInv, DataInv, NEW r \in Requests, Step(r) \/ StatementFails(r), NEW q,
           req' = [s \in Requests |-> IF s = r THEN q ELSE req[s]],
           Onward(r, q)
    PROVE  OneHome'
<1> DEFINE New == <<created + 1, req[r].dept>>
<1>1. \A p \in Homes' : p \in Homes \/ (InsertTimetable(r) /\ p = New)
  <2>1. \A t \in timetables' :
            <<t.id, t.dept>> \in Homes \/ (InsertTimetable(r) /\ <<t.id, t.dept>> = New)
    BY RowsStep
  <2>2. \A f \in files' : <<f.id, f.dept>> \in Homes
    BY FilesStep
  <2>3. \A s \in Requests : req'[s] # Idle /\ req'[s].tid # 0 =>
            LET p == <<req'[s].tid, req'[s].dept>>
            IN p \in Homes \/ (InsertTimetable(r) /\ p = New)
    <3>1. TAKE s \in Requests
    <3>2. CASE s # r
      BY <3>2 DEF Homes
    <3>3. CASE s = r /\ q # Idle
      BY <3>3 DEF Onward, Homes
    <3>4. QED
      BY <3>2, <3>3
  <2>4. QED
    BY <2>1, <2>2, <2>3 DEF Homes
<1>2. CASE ~InsertTimetable(r)
  BY <1>1, <1>2, CountStep DEF DataInv, OneHome
<1>3. CASE InsertTimetable(r)
  <2>1. created \in Nat /\ created' = created + 1
    BY <1>3 DEF DataInv, Counted, InsertTimetable
  <2>2. \A p \in Homes : p[1] \in 1 .. created /\ p[1] # New[1] /\ p[1] \in 1 .. created'
    BY <2>1 DEF DataInv, OneHome
  <2>3. New[1] \in 1 .. created'
    BY <2>1
  <2> HIDE DEF New
  <2>4. QED
    BY <1>1, <2>2, <2>3 DEF DataInv, OneHome
<1>4. QED
  BY <1>2, <1>3

LEMMA DataStep ==
    ASSUME IInv, IInv', DataInv, NEW r \in Requests, Step(r) \/ StatementFails(r)
    PROVE  DataInv'
<1> PICK q : /\ req' = [s \in Requests |-> IF s = r THEN q ELSE req[s]]
             /\ Onward(r, q) /\ Well(q)'
  BY StepMoves
<1>1. q.at # "insert"
  BY DEF Onward, Idle
<1>2. created' \in {created, created + 1}
  BY CountStep
<1>3. /\ SlotsWell' /\ HidsDiffer'
      /\ \A s \in Requests : req'[s] \in Holder \cup {Idle}
  BY <1>2, SlotsStep DEF Onward
<1>4. Counted' /\ OneHome'
  BY <1>1, WaitingStep, HomesStep
<1>5. RowsOK' /\ LogOK' /\ RestOK' /\ FilesOK'
  BY RowsStep, LogStep, RestStep, FilesStep
<1>6. uploads' \in 0 .. MaxUploads /\ created' \in 0 .. uploads'
  BY <1>4, FS_CardinalityType DEF IInv, Numbered, Counted
<1>7. TypeOK'
  BY <1>3, <1>5, <1>6 DEF TypeOK, RowsOK, LogOK, RestOK, FilesOK
<1>8. QED
  BY <1>3, <1>4, <1>7 DEF DataInv

LEMMA DataClient ==
    ASSUME IInv, IInv', DataInv, NEW r \in Requests, Client(r)
    PROVE  DataInv'
<1> PICK q : /\ req' = [s \in Requests |-> IF s = r THEN q ELSE req[s]]
             /\ Fresh(r, q) /\ Well(q)'
             /\ UNCHANGED <<timetables, current, options, files, created>>
  BY ClientMoves
<1>1. /\ SlotsWell' /\ HidsDiffer'
      /\ \A s \in Requests : req'[s] \in Holder \cup {Idle}
  BY SlotsStep DEF Fresh
<1>2. /\ created \in Nat /\ IsFiniteSet(Waiting) /\ Cardinality(Waiting) \in Nat
      /\ created + Cardinality(Waiting) <= uploads /\ uploads \in Nat
  BY FS_CardinalityType DEF DataInv, Counted, IInv, Numbered
<1>3. Counted'
  <2>1. CASE q.at = "insert"
    <3>1. uploads' = uploads + 1 /\ q.hid = uploads + 1
      BY <2>1 DEF Fresh
    <3>2. Waiting' \subseteq Waiting \cup {uploads + 1}
      BY <3>1 DEF Waiting
    <3>3. IsFiniteSet(Waiting \cup {uploads + 1})
          /\ Cardinality(Waiting \cup {uploads + 1}) <= Cardinality(Waiting) + 1
          /\ Cardinality(Waiting \cup {uploads + 1}) \in Nat
      <4>1. IsFiniteSet(Waiting \cup {uploads + 1})
            /\ Cardinality(Waiting \cup {uploads + 1})
                   \in {Cardinality(Waiting), Cardinality(Waiting) + 1}
        BY <1>2, FS_AddElement
      <4>2. QED
        BY <1>2, <4>1
    <3>4. IsFiniteSet(Waiting') /\ Cardinality(Waiting') \in Nat
          /\ Cardinality(Waiting') <= Cardinality(Waiting \cup {uploads + 1})
      BY <3>2, <3>3, FS_Subset, FS_CardinalityType
    <3>5. QED
      BY <1>2, <3>1, <3>3, <3>4 DEF Counted
  <2>2. CASE q.at # "insert"
    <3>1. Waiting' \subseteq Waiting /\ uploads' = uploads
      BY <2>2 DEF Waiting, Fresh
    <3>2. IsFiniteSet(Waiting') /\ Cardinality(Waiting') \in Nat
          /\ Cardinality(Waiting') <= Cardinality(Waiting)
      BY <1>2, <3>1, FS_Subset, FS_CardinalityType
    <3>3. QED
      BY <1>2, <3>1, <3>2 DEF Counted
  <2>3. QED
    BY <2>1, <2>2
<1>4. OneHome'
  <2>1. \A p \in Homes' : p \in Homes
    BY DEF Homes, Fresh
  <2>2. QED
    BY <2>1 DEF DataInv, OneHome
<1>5. LogOK'
  <2>1. CASE q.at # "insert"
    BY <2>1 DEF Fresh, DataInv, TypeOK, LogOK
  <2>2. CASE q.at = "insert"
    <3> PICK new : new = [id |-> uploads + 1, dept |-> q.dept, status |-> "processing",
                          clashes |-> NoClashes]
      OBVIOUS
    <3>1. q.dept \in Departments /\ uploads + 1 \in Ids
      BY <1>2, <2>2, TimetableAssumption DEF Fresh, Well, Holder, Ids
    <3>2. new \in HistoryRow /\ new.id = uploads + 1
      BY <3>1 DEF HistoryRow, Clashes, NoClashes
    <3>3. history' = history \cup {new}
      <4> PICK access, d, sheet : CreateTimetableHistory(r, access, d, sheet)
        BY <2>2 DEF Fresh
      <4>1. req'[r].dept = d /\ req'[r] = q
        BY DEF CreateTimetableHistory, Begin, Holding, IInv, SlotsSound
      <4>2. QED
        BY <4>1 DEF CreateTimetableHistory
    <3>4. \A h \in history : h.id # new.id
      BY <1>2, <3>2 DEF IInv, Numbered
    <3>5. QED
      BY <3>2, <3>3, <3>4 DEF DataInv, TypeOK, LogOK
  <2>3. QED
    BY <2>1, <2>2
<1>6. uploads' \in 0 .. MaxUploads /\ created' \in 0 .. uploads'
  BY <1>3, FS_CardinalityType DEF IInv, Numbered, Counted
<1>7. TypeOK'
  BY <1>1, <1>5, <1>6 DEF DataInv, TypeOK, LogOK
<1>8. QED
  BY <1>1, <1>3, <1>4, <1>7 DEF DataInv

LEMMA DataElsewhere ==
    ASSUME IInv, DataInv, NEW d \in Departments, Elsewhere(d)
    PROVE  DataInv'
<1>1. UNCHANGED <<uploads, created, req, files>>
  BY DEF Elsewhere, Meanwhile, DepartmentTimetablesDeleted, DepartmentHistoryDeleted,
         DepartmentOptionsDeleted, DepartmentRemoved, DepartmentCreated
<1>2. timetables' \subseteq timetables /\ history' \subseteq history
  BY DEF Elsewhere, DepartmentTimetablesDeleted, DepartmentHistoryDeleted,
         DepartmentOptionsDeleted, DepartmentRemoved, DepartmentCreated
<1>3. RestOK'
  <2>1. CASE DepartmentOptionsDeleted(d)
    BY <2>1 DEF DepartmentOptionsDeleted, DataInv, TypeOK, RestOK
  <2>2. CASE DepartmentRemoved(d)
    BY <2>2 DEF DepartmentRemoved, DataInv, TypeOK, RestOK
  <2>3. CASE DepartmentCreated(d)
    BY <2>3 DEF DepartmentCreated, DataInv, TypeOK, RestOK
  <2>4. CASE DepartmentTimetablesDeleted(d) \/ DepartmentHistoryDeleted(d)
    BY <2>4 DEF DepartmentTimetablesDeleted, DepartmentHistoryDeleted, DataInv, TypeOK, RestOK
  <2>5. QED
    BY <2>1, <2>2, <2>3, <2>4 DEF Elsewhere
<1>4. \A p \in Homes' : p \in Homes
  BY <1>1, <1>2 DEF Homes
<1>5. SlotsWell' /\ HidsDiffer' /\ Counted' /\ OneHome'
  BY <1>1, <1>4 DEF DataInv, SlotsWell, Well, HidsDiffer, Counted, Waiting, OneHome
<1>6. TypeOK'
  BY <1>1, <1>2, <1>3 DEF DataInv, TypeOK, RestOK
<1>7. QED
  BY <1>5, <1>6 DEF DataInv

LEMMA DataCrash ==
    ASSUME IInv, DataInv, Crash
    PROVE  DataInv'
<1>1. UNCHANGED <<tables, uploads, created>> /\ req' = [r \in Requests |-> Idle]
  BY DEF Crash
<1>2. Waiting' = {} /\ \A p \in Homes' : p \in Homes
  BY <1>1 DEF Waiting, Homes, Idle, tables
<1>3. SlotsWell' /\ HidsDiffer' /\ OneHome'
  BY <1>1, <1>2 DEF DataInv, SlotsWell, Well, HidsDiffer, OneHome
<1>4. Counted'
  <2>1. IsFiniteSet(Waiting') /\ Cardinality(Waiting') = 0
    BY <1>2, FS_EmptySet
  <2>2. Cardinality(Waiting) \in Nat /\ uploads \in Nat
    BY FS_CardinalityType DEF DataInv, Counted, IInv, Numbered
  <2>3. QED
    BY <1>1, <2>1, <2>2 DEF DataInv, Counted
<1>5. TypeOK'
  BY <1>1 DEF DataInv, TypeOK, tables
<1>6. QED
  BY <1>3, <1>4, <1>5 DEF DataInv

LEMMA DataInit == Init => DataInv
<1>1. SUFFICES ASSUME Init PROVE DataInv
  OBVIOUS
<1>2. Waiting = {} /\ Homes = {}
  BY <1>1 DEF Init, Waiting, Homes, Idle
<1>3. IsFiniteSet(Waiting) /\ Cardinality(Waiting) = 0
  BY <1>2, FS_EmptySet
<1>4. SlotsWell /\ HidsDiffer /\ OneHome /\ Counted
  BY <1>1, <1>2, <1>3 DEF Init, SlotsWell, Well, HidsDiffer, OneHome, Counted
<1>5. TypeOK
  BY <1>1, TimetableAssumption DEF Init, TypeOK
<1>6. QED
  BY <1>4, <1>5 DEF DataInv

LEMMA DataNext == IInv /\ IInv' /\ DataInv /\ [Next]_vars => DataInv'
<1>1. ASSUME DataInv, UNCHANGED vars PROVE DataInv'
  <2>1. UNCHANGED <<timetables, history, current, options, files, uploads, created, req>>
    BY <1>1 DEF vars, tables, counts
  <2>2. Homes' = Homes /\ Waiting' = Waiting
    BY <2>1 DEF Homes, Waiting
  <2>3. QED
    BY <1>1, <2>1, <2>2 DEF DataInv, TypeOK, SlotsWell, Well, HidsDiffer, Counted, OneHome
<1>2. QED
  BY <1>1, DataClient, DataStep, DataElsewhere, DataCrash DEF Next

-----------------------------------------------------------------------------
(* Files.                                                                  *)

\* A stored file is there, and nobody is about to delete it.
FilesInv ==
    /\ \A id \in stored : \E f \in files : f.id = id
    /\ \A r \in Requests : req[r].at = "deleteFiles" => req[r].tid \notin stored

LEMMA FilesStayStep ==
    ASSUME IInv, DataInv, FilesInv, NEW r \in Requests, Step(r) \/ StatementFails(r)
    PROVE  FilesInv'
<1> PICK q : /\ req' = [s \in Requests |-> IF s = r THEN q ELSE req[s]]
             /\ Onward(r, q)
  BY StepMoves
<1>0. q.at # "deleteFiles"
  BY DEF Onward, Idle
<1>1. CASE UploadTimetableFile(r)
  <2> PICK f : f = [dept |-> req[r].dept, id |-> req[r].tid]
    OBVIOUS
  <2>1. files' = files \cup {f} /\ f.id = req[r].tid
    BY <1>1 DEF UploadTimetableFile
  <2>2. stored' = IF Deleting(req[r].tid) THEN stored ELSE stored \cup {req[r].tid}
    BY <1>1 DEF UploadTimetableFile
  <2>3. \A id \in stored' : \E g \in files' : g.id = id
    BY <2>1, <2>2 DEF FilesInv
  <2>4. ASSUME NEW s \in Requests, req'[s].at = "deleteFiles" PROVE req'[s].tid \notin stored'
    <3>1. s # r /\ req'[s] = req[s]
      BY <1>0, <2>4
    <3>2. req[s].tid \notin stored
      BY <2>4, <3>1 DEF FilesInv
    <3>3. CASE req[s].tid = req[r].tid
      <4>1. Deleting(req[r].tid)
        BY <2>4, <3>1, <3>3 DEF Deleting
      <4>2. QED
        BY <2>2, <3>1, <3>2, <4>1
    <3>4. CASE req[s].tid # req[r].tid
      BY <2>2, <3>1, <3>2, <3>4
    <3>5. QED
      BY <3>3, <3>4
  <2>5. QED
    BY <2>3, <2>4 DEF FilesInv
<1>2. ASSUME UNCHANGED stored, \A id \in stored : \E f \in files' : f.id = id PROVE FilesInv'
  BY <1>0, <1>2 DEF FilesInv
<1>3. CASE DeleteTimetableFiles(r)
  <2> PICK f : f = [dept |-> req[r].dept, id |-> req[r].tid]
    OBVIOUS
  <2>1. files' = files \ {f} /\ f.id = req[r].tid /\ UNCHANGED stored
    BY <1>3 DEF DeleteTimetableFiles, record
  <2>2. req[r].tid \notin stored
    BY <1>3 DEF DeleteTimetableFiles, FilesInv
  <2>3. QED
    BY <1>2, <2>1, <2>2 DEF FilesInv
<1>4. ASSUME ~UploadTimetableFile(r), ~DeleteTimetableFiles(r) PROVE UNCHANGED <<files, stored>>
  <2>1. CASE StatementFails(r)
    BY <2>1 DEF StatementFails, tables
  <2>2. CASE Upload(r)
    BY <1>4, <2>2 DEF Upload, UploadUnreadable, InsertTimetable, UploadFileFails,
        UpdateTimetableHistory, PointDepartment, FindOptions, MergeOptions, SelectOptions,
        InsertOptions, InsertOptionsRefused, UploadDone, tables, record
  <2>3. CASE Save(r)
    BY <2>3 DEF Save, MergeRead, MergeReadNothing, SaveSelectSame, SaveSelect, SaveWrite,
        SaveReinsert, SaveRefused, Saved, tables, record
  <2>4. CASE DeleteFilesFail(r) \/ RemoveTimetable(r)
    BY <2>4 DEF DeleteFilesFail, RemoveTimetable, tables, record
  <2>5. QED
    BY <1>4, <2>1, <2>2, <2>3, <2>4 DEF Step, Delete
<1>5. QED
  BY <1>1, <1>2, <1>3, <1>4 DEF FilesInv

\* Whoever asks for the deletion of a timetable has its file forgotten.
LEMMA FilesStayClient ==
    ASSUME IInv, FilesInv, NEW r \in Requests, Client(r)
    PROVE  FilesInv'
<1> PICK access \in Accesses :
        \/ \E d \in Departments, sheet \in Sheets : CreateTimetableHistory(r, access, d, sheet)
        \/ \E d \in Departments, h \in history, additions \in Additions :
              MergeFindHistory(r, access, d, h, additions)
        \/ \E d \in Departments, entries \in Edits : EditRead(r, access, d, entries)
        \/ \E t \in timetables : DeleteFind(r, access, t)
  BY DEF Client
<1>1. ASSUME NEW q, req' = [req EXCEPT ![r] = q], UNCHANGED files, stored' \subseteq stored,
             q.at = "deleteFiles" => q.tid \notin stored'
      PROVE  FilesInv'
  <2>1. req' = [s \in Requests |-> IF s = r THEN q ELSE req[s]]
    BY <1>1 DEF IInv, SlotsSound
  <2>2. QED
    BY <1>1, <2>1 DEF FilesInv
<1>2. ASSUME NEW d \in Departments, NEW sheet \in Sheets,
             CreateTimetableHistory(r, access, d, sheet)
      PROVE  FilesInv'
  <2> PICK q : q = Holding("insert", d, uploads + 1, 0, sheet, Valid(sheet))
    OBVIOUS
  <2>1. q.at # "deleteFiles"
    BY DEF Holding
  <2>2. QED
    BY <1>1, <1>2, <2>1 DEF CreateTimetableHistory, Begin
<1>3. ASSUME NEW d \in Departments, NEW h \in history, NEW additions \in Additions,
             MergeFindHistory(r, access, d, h, additions)
      PROVE  FilesInv'
  <2> PICK q : q = Holding("mergeRead", d, None, 0, additions, <<>>)
    OBVIOUS
  <2>1. q.at # "deleteFiles"
    BY DEF Holding
  <2>2. QED
    BY <1>1, <1>3, <2>1 DEF MergeFindHistory, Begin, tables
<1>4. ASSUME NEW d \in Departments, NEW entries \in Edits, EditRead(r, access, d, entries)
      PROVE  FilesInv'
  <2>1. PICK t, q : q = Holding("select", d, None, t.id, entries, entries) /\ Begin(r, q)
    BY <1>4 DEF EditRead
  <2>2. q.at # "deleteFiles"
    BY <2>1 DEF Holding
  <2>3. QED
    BY <1>1, <1>4, <2>1, <2>2 DEF EditRead, Begin, tables
<1>5. ASSUME NEW t \in timetables, DeleteFind(r, access, t) PROVE FilesInv'
  <2>1. PICK at, q : q = Holding(at, t.dept, None, t.id, <<>>, <<>>) /\ Begin(r, q)
    BY <1>5 DEF DeleteFind
  <2>2. q.tid = t.id /\ stored' = stored \ {t.id}
    BY <1>5, <2>1 DEF Holding, DeleteFind
  <2>3. QED
    BY <1>1, <1>5, <2>1, <2>2 DEF DeleteFind, Begin, tables
<1>6. QED
  BY <1>2, <1>3, <1>4, <1>5

LEMMA FilesStayInit == Init => FilesInv
BY DEF Init, FilesInv, Idle

LEMMA FilesStayNext == IInv /\ DataInv /\ FilesInv /\ [Next]_vars => FilesInv'
<1>1. ASSUME FilesInv, UNCHANGED vars PROVE FilesInv'
  BY <1>1 DEF vars, tables, record, FilesInv
<1>2. ASSUME FilesInv, NEW d \in Departments, Elsewhere(d) PROVE FilesInv'
  <2>1. UNCHANGED <<files, stored, req>>
    BY <1>2 DEF Elsewhere, Meanwhile, DepartmentTimetablesDeleted, DepartmentHistoryDeleted,
                DepartmentOptionsDeleted, DepartmentRemoved, DepartmentCreated
  <2>2. QED
    BY <1>2, <2>1 DEF FilesInv
<1>3. ASSUME FilesInv, Crash PROVE FilesInv'
  BY <1>3 DEF Crash, tables, FilesInv, Idle
<1>4. QED
  BY <1>1, <1>2, <1>3, FilesStayClient, FilesStayStep DEF Next

-----------------------------------------------------------------------------
(* Clashes.                                                                *)

\* An upload that is under way has stored what it was given in its own timetable,
\* if anywhere, and its history row tells of no clashes yet.
Agrees(q) ==
    q.at \in Uploading =>
        /\ \A p \in unedited : p[2] = q.hid => p[1] = q.tid
        /\ \A t \in timetables : <<t.id, q.hid>> \in unedited => t.entries = q.entries
        /\ q.at \in Attending => \A h \in history : h.id = q.hid => h.status = "processing"

ClashInv ==
    /\ unedited \subseteq (1 .. created) \X (1 .. uploads)
    /\ \A r \in Requests : Agrees(req[r])
    /\ ClashesOfUpload

\* No history row changes, and no timetable that is as its upload stored it.
LEMMA ClashFrame ==
    ASSUME IInv, ClashInv, created \in Nat, created' \in {created, created + 1},
           uploads' \in {uploads, uploads + 1},
           history' \subseteq history, unedited' \subseteq unedited,
           \A t \in timetables' : \A h : <<t.id, h>> \in unedited' => t \in timetables,
           \A r \in Requests : req'[r].at \in Uploading =>
               /\ req[r].at \in Uploading
               /\ req'[r].hid = req[r].hid /\ req'[r].tid = req[r].tid
               /\ req'[r].entries = req[r].entries
               /\ req'[r].at \in Attending => req[r].at \in Attending
    PROVE  ClashInv'
<1>1. uploads \in Nat
  BY DEF IInv, Numbered
<1>2. (unedited \subseteq (1 .. created) \X (1 .. uploads))'
  <2>1. \A p \in unedited : p \in (1 .. created) \X (1 .. uploads)
    BY DEF ClashInv
  <2>2. (1 .. created) \subseteq 1 .. created' /\ (1 .. uploads) \subseteq 1 .. uploads'
    BY <1>1
  <2>3. QED
    BY <2>1, <2>2
<1>3. ClashesOfUpload'
  BY DEF ClashInv, ClashesOfUpload
<1>4. ASSUME NEW r \in Requests PROVE Agrees(req[r])'
  BY DEF ClashInv, Agrees
<1>5. QED
  BY <1>2, <1>3, <1>4 DEF ClashInv

\* An upload goes on with what it has.
LEMMA UploadKeeps ==
    ASSUME DataInv, NEW r \in Requests, NEW q, Onward(r, q), Well(q)', q.at \in Uploading
    PROVE  /\ req[r] # Idle /\ req[r].at \in Uploading /\ Well(req[r]) /\ q # Idle
           /\ q.hid = req[r].hid /\ q.entries = req[r].entries
           /\ q.tid = req[r].tid \/ (InsertTimetable(r) /\ q.tid = created + 1)
           /\ q.at \in Attending => req[r].at \in Attending
<1>1. req[r] # Idle /\ q # Idle /\ q.hid = req[r].hid /\ q.given = req[r].given
  BY DEF Onward, Idle, Uploading, Storing
<1>2. Well(req[r])
  BY DEF DataInv, SlotsWell
<1>3. q.hid # None /\ q.entries = Valid(q.given)
  BY <1>1 DEF Well
<1>4. req[r].at \in Uploading
  BY <1>1, <1>2, <1>3 DEF Well
<1>5. req[r].entries = Valid(req[r].given)
  BY <1>1, <1>2, <1>4 DEF Well
<1>6. /\ q.tid = req[r].tid \/ (InsertTimetable(r) /\ q.tid = created + 1)
      /\ q.at \in Attending => req[r].at \in Attending
  BY <1>1 DEF Onward
<1>7. q.entries = req[r].entries
  BY <1>1, <1>3, <1>5
<1>8. QED
  BY <1>1, <1>2, <1>4, <1>6, <1>7

LEMMA ClashStep ==
    ASSUME IInv, DataInv, ClashInv, NEW r \in Requests, Step(r) \/ StatementFails(r)
    PROVE  ClashInv'
<1> PICK q : /\ req' = [s \in Requests |-> IF s = r THEN q ELSE req[s]]
             /\ Onward(r, q) /\ Well(q)'
  BY StepMoves
<1> created \in Nat /\ uploads \in Nat /\ None \notin Nat
  BY TimetableAssumption DEF DataInv, Counted, IInv, Numbered
<1>0. created' \in {created, created + 1} /\ uploads' = uploads
  BY CountStep
<1>1. CASE InsertTimetable(r)
  <2> PICK new, link : /\ new = [id |-> created + 1, dept |-> req[r].dept,
                                 entries |-> req[r].entries]
                       /\ link = <<created + 1, req[r].hid>>
    OBVIOUS
  <2>1. /\ timetables' = timetables \cup {new} /\ unedited' = unedited \cup {link}
        /\ created' = created + 1 /\ history' = history /\ req[r].at = "insert"
    BY <1>1 DEF InsertTimetable
  <2>2. /\ req[r] # Idle /\ Well(req[r]) /\ req[r].hid \in 1 .. uploads /\ req[r].tid = 0
        /\ req[r].at \in Uploading /\ req[r].at \in Attending
    <3>1. req[r] # Idle /\ Well(req[r]) /\ Sound(req[r])
      BY <2>1, WellHeld DEF IInv, SlotsSound
    <3>2. QED
      BY <2>1, <3>1 DEF Well, Sound, Uploading, Attending
  <2>3. \A p \in unedited : p[1] \in 1 .. created /\ p[2] \in 1 .. uploads /\ p[2] # req[r].hid
    BY <2>2 DEF ClashInv, Agrees
  <2>4. (unedited \subseteq (1 .. created) \X (1 .. uploads))'
    BY <1>0, <2>1, <2>2 DEF ClashInv
  <2>5. \A t \in timetables : t.id \in 1 .. created
    BY RowKnown
  <2>6. ClashesOfUpload'
    <3>1. SUFFICES ASSUME NEW h \in history, NEW t \in timetables', h.status = "completed",
                          <<t.id, h.id>> \in unedited'
                   PROVE  h.dept = t.dept /\ h.clashes = DetectClashes(t.entries)
      BY <2>1 DEF ClashesOfUpload
    <3>2. h.id # req[r].hid
      BY <2>2, <3>1 DEF ClashInv, Agrees
    <3>3. <<t.id, h.id>> \in unedited
      BY <2>1, <3>1, <3>2
    <3>4. t.id # created + 1
      BY <2>3, <3>3
    <3>5. t \in timetables
      BY <2>1, <3>1, <3>4
    <3>6. QED
      BY <3>1, <3>3, <3>5 DEF ClashInv, ClashesOfUpload
  <2>7. ASSUME NEW s \in Requests PROVE Agrees(req[s])'
    <3>1. CASE s # r
      <4> PICK p : p = req[s]
        OBVIOUS
      <4>1. SUFFICES ASSUME p.at \in Uploading PROVE Agrees(p)'
        BY <3>1 DEF Agrees
      <4>2. p # Idle /\ p.hid # req[r].hid
        <5>1. p # Idle /\ Well(p)
          BY <4>1 DEF Uploading, Storing, Idle, DataInv, SlotsWell
        <5>2. p.hid # None
          BY <4>1, <5>1 DEF Well
        <5>3. QED
          BY <2>2, <3>1, <5>1, <5>2 DEF DataInv, HidsDiffer
      <4>3. Agrees(p)
        BY DEF ClashInv
      <4>4. \A t \in timetables' : <<t.id, p.hid>> \in unedited' => t.entries = p.entries
        BY <2>1, <2>3, <4>1, <4>2, <4>3 DEF Agrees
      <4>5. \A l \in unedited' : l[2] = p.hid => l[1] = p.tid
        BY <2>1, <4>1, <4>2, <4>3 DEF Agrees
      <4>6. QED
        BY <2>1, <4>1, <4>3, <4>4, <4>5 DEF Agrees
    <3>2. CASE s = r
      <4>1. SUFFICES ASSUME q.at \in Uploading PROVE Agrees(q)'
        BY <3>2 DEF Agrees
      <4>2. q.hid = req[r].hid /\ q.entries = req[r].entries
        BY <4>1, UploadKeeps
      <4>3. q.tid = created + 1
        <5>1. q # Idle /\ q.tid # 0
          BY <4>1, UploadKeeps DEF Well, Onward
        <5>2. QED
          BY <2>2, <4>1, <5>1, UploadKeeps
      <4>4. \A l \in unedited' : l[2] = q.hid => l[1] = q.tid
        BY <2>1, <2>3, <4>2, <4>3
      <4>5. \A t \in timetables' : <<t.id, q.hid>> \in unedited' => t.entries = q.entries
        <5>1. TAKE t \in timetables'
        <5>2. CASE t = new
          BY <4>2, <5>2
        <5>3. CASE t \in timetables
          BY <2>1, <2>3, <2>5, <4>2, <5>3
        <5>4. QED
          BY <2>1, <5>2, <5>3
      <4>6. \A h \in history' : h.id = q.hid => h.status = "processing"
        BY <2>1, <2>2, <4>2 DEF ClashInv, Agrees
      <4>7. QED
        BY <4>4, <4>5, <4>6 DEF Agrees
    <3>3. QED
      BY <3>1, <3>2
  <2>8. QED
    BY <2>4, <2>6, <2>7 DEF ClashInv
<1>2. ~InsertTimetable(r) => \A s \in Requests : req'[s].at \in Uploading =>
         /\ req[s].at \in Uploading
         /\ req'[s].hid = req[s].hid /\ req'[s].tid = req[s].tid
         /\ req'[s].entries = req[s].entries
         /\ req'[s].at \in Attending => req[s].at \in Attending
  BY UploadKeeps
<1>3. CASE UpdateTimetableHistory(r)
  <2> DEFINE clashes == DetectClashes(req[r].entries)
             Done(h) == [h EXCEPT !.status = "completed", !.clashes = clashes]
  <2>1. /\ req[r].at = "complete" /\ UNCHANGED <<timetables, unedited, created>>
        /\ history' = {IF h.id = req[r].hid THEN Done(h) ELSE h : h \in history}
        /\ req' = [req EXCEPT ![r].at = "point"]
    BY <1>3 DEF UpdateTimetableHistory, Goto, counts, record
  <2>2. /\ req[r] # Idle /\ req[r].hid \in 1 .. uploads
        /\ req[r].at \in Uploading /\ <<req[r].tid, req[r].dept>> \in Homes
        /\ \A h \in history : h.id = req[r].hid => h.dept = req[r].dept
    <3>1. req[r] # Idle /\ Well(req[r]) /\ Sound(req[r])
      BY <2>1, WellHeld DEF IInv, SlotsSound
    <3>2. <<req[r].tid, req[r].dept>> \in Homes
      BY <2>1, HeldHome
    <3>3. QED
      BY <2>1, <3>1, <3>2 DEF Well, Sound, Uploading, Storing
  <2>3. \A h \in history : /\ Done(h).id = h.id /\ Done(h).dept = h.dept
                          /\ Done(h).clashes = clashes
    BY DEF IInv, Numbered, RowShape
  <2> HIDE DEF Done
  <2>4. ASSUME NEW h \in history', NEW t \in timetables, h.status = "completed",
               <<t.id, h.id>> \in unedited
        PROVE  h.dept = t.dept /\ h.clashes = DetectClashes(t.entries)
    <3>1. CASE h.id = req[r].hid
      <4>1. PICK g \in history : g.id = req[r].hid /\ h = Done(g)
        BY <2>1, <2>3, <3>1
      <4>2. t.entries = req[r].entries /\ t.id = req[r].tid
        BY <2>2, <2>4, <3>1 DEF ClashInv, Agrees
      <4>3. <<t.id, t.dept>> = <<req[r].tid, req[r].dept>>
        BY <2>2, <4>2, RowKnown DEF DataInv, OneHome
      <4>4. QED
        BY <2>2, <2>3, <4>1, <4>2, <4>3
    <3>2. CASE h.id # req[r].hid
      <4>1. h \in history
        BY <2>1, <2>3, <3>2
      <4>2. QED
        BY <2>4, <4>1 DEF ClashInv, ClashesOfUpload
    <3>3. QED
      BY <3>1, <3>2
  <2>5. ClashesOfUpload'
    BY <2>1, <2>4 DEF ClashesOfUpload
  <2>6. ASSUME NEW s \in Requests PROVE Agrees(req[s])'
    <3> PICK p : p = req'[s]
      OBVIOUS
    <3>1. SUFFICES ASSUME p.at \in Uploading PROVE Agrees(p)'
      BY DEF Agrees
    <3>2. /\ req[s].at \in Uploading /\ Agrees(req[s])
          /\ p.hid = req[s].hid /\ p.tid = req[s].tid /\ p.entries = req[s].entries
          /\ p.at \in Attending => req[s].at \in Attending
      <4>1. ~InsertTimetable(r)
        BY <2>1 DEF InsertTimetable
      <4>2. QED
        BY <1>2, <3>1, <4>1 DEF ClashInv
    <3>3. p.at \in Attending => \A h \in history' : h.id = p.hid => h.status = "processing"
      <4>1. SUFFICES ASSUME p.at \in Attending, NEW h \in history', h.id = p.hid
                     PROVE  h.status = "processing"
        OBVIOUS
      <4>2. s # r
        BY <2>1, <2>2, <4>1 DEF Attending, IInv, SlotsSound, Sound, HolderShape
      <4>3. req[s] # Idle /\ Well(req[s])
        BY <3>2 DEF Uploading, Storing, Idle, DataInv, SlotsWell
      <4>4. h.id # req[r].hid
        BY <2>2, <3>2, <4>1, <4>2, <4>3 DEF DataInv, HidsDiffer
      <4>5. h \in history
        BY <2>1, <2>3, <4>4
      <4>6. QED
        BY <3>2, <4>1, <4>5 DEF Agrees
    <3>4. QED
      BY <2>1, <3>2, <3>3 DEF Agrees
  <2>7. QED
    BY <1>0, <2>1, <2>5, <2>6 DEF ClashInv
<1>4. CASE SaveWrite(r) \/ SaveReinsert(r) \/ RemoveTimetable(r)
  <2>1. /\ unedited' = Touched(req[r].tid) /\ history' = history /\ req'[r] = Idle
        /\ ~InsertTimetable(r)
    BY <1>4 DEF SaveWrite, SaveReinsert, RemoveTimetable, Saved, Answer, InsertTimetable,
                IInv, SlotsSound
  <2>2. \A t \in timetables' : t \in timetables \/ t.id = req[r].tid
    <3>1. CASE SaveWrite(r)
      <4>1. timetables' = SetEntries(timetables, req[r].tid, req[r].entries)
            /\ req[r].entries \in Seq(Entry)
        BY <3>1, WellHeld DEF SaveWrite, Holder
      <4>2. QED
        BY <4>1, EntriesSet
    <3>2. CASE SaveReinsert(r)
      BY <3>2 DEF SaveReinsert
    <3>3. CASE RemoveTimetable(r)
      BY <3>3 DEF RemoveTimetable, Without
    <3>4. QED
      BY <1>4, <3>1, <3>2, <3>3
  <2>3. unedited' \subseteq unedited /\ \A p \in unedited' : p[1] # req[r].tid
    BY <2>1 DEF Touched
  <2>4. \A t \in timetables' : \A h : <<t.id, h>> \in unedited' => t \in timetables
    BY <2>2, <2>3
  <2>5. QED
    BY <1>0, <1>2, <2>1, <2>3, <2>4, ClashFrame
<1>5. ASSUME ~InsertTimetable(r), ~UpdateTimetableHistory(r), ~SaveWrite(r), ~SaveReinsert(r),
             ~RemoveTimetable(r)
      PROVE  UNCHANGED <<timetables, history, unedited>>
  <2>1. CASE StatementFails(r)
    BY <2>1 DEF StatementFails, tables
  <2>2. CASE Upload(r)
    BY <1>5, <2>2 DEF Upload, UploadUnreadable, UploadTimetableFile, UploadFileFails,
        PointDepartment, FindOptions, MergeOptions, SelectOptions, InsertOptions,
        InsertOptionsRefused, UploadDone, tables, record
  <2>3. CASE Save(r)
    BY <1>5, <2>3 DEF Save, MergeRead, MergeReadNothing, SaveSelectSame, SaveSelect,
        SaveRefused, tables, record
  <2>4. CASE Delete(r)
    BY <1>5, <2>4 DEF Delete, DeleteTimetableFiles, DeleteFilesFail, tables, record
  <2>5. QED
    BY <2>1, <2>2, <2>3, <2>4 DEF Step
<1>6. QED
  BY <1>0, <1>1, <1>2, <1>3, <1>4, <1>5, ClashFrame

LEMMA ClashClient ==
    ASSUME IInv, DataInv, ClashInv, NEW r \in Requests, Client(r)
    PROVE  ClashInv'
<1> PICK q : /\ req' = [s \in Requests |-> IF s = r THEN q ELSE req[s]]
             /\ Fresh(r, q) /\ Well(q)'
             /\ UNCHANGED <<timetables, current, options, files, created>>
  BY ClientMoves
<1> created \in Nat /\ uploads \in Nat /\ None \notin Nat
  BY TimetableAssumption DEF DataInv, Counted, IInv, Numbered
<1>1. UNCHANGED unedited
  BY DEF Client, CreateTimetableHistory, MergeFindHistory, EditRead, DeleteFind
<1>2. CASE q.at # "insert"
  <2>1. UNCHANGED <<uploads, history>> /\ q.hid = None
    BY <1>2 DEF Fresh
  <2>2. q.at \notin Uploading
    BY <2>1 DEF Fresh, Well
  <2>3. QED
    BY <1>1, <2>1, <2>2, ClashFrame
<1>3. CASE q.at = "insert"
  <2>1. /\ uploads' = uploads + 1 /\ q.hid = uploads + 1 /\ q.tid = 0
    BY <1>3 DEF Fresh
  <2> PICK new : history' = history \cup {new} /\ new.id = uploads + 1
                 /\ new.status = "processing"
    <3>1. PICK access, d, sheet : CreateTimetableHistory(r, access, d, sheet)
      BY <1>3 DEF Fresh
    <3> PICK new : new = [id |-> uploads + 1, dept |-> d, status |-> "processing",
                          clashes |-> NoClashes]
      OBVIOUS
    <3>2. history' = history \cup {new} /\ new.id = uploads + 1 /\ new.status = "processing"
      BY <3>1 DEF CreateTimetableHistory
    <3>3. QED
      BY <3>2
  <2>2. (unedited \subseteq (1 .. created) \X (1 .. uploads))'
    <3>1. \A p \in unedited : p \in (1 .. created) \X (1 .. uploads)
      BY DEF ClashInv
    <3>2. (1 .. uploads) \subseteq 1 .. uploads'
      BY <2>1
    <3>3. QED
      BY <1>1, <3>1, <3>2
  <2>3. \A p \in unedited : p[2] \in 1 .. uploads
    BY DEF ClashInv
  <2>4. \A h \in history : h.id \in 1 .. uploads
    BY DEF IInv, Numbered
  <2>5. ClashesOfUpload'
    BY <1>1, <2>3 DEF ClashInv, ClashesOfUpload
  <2>6. ASSUME NEW s \in Requests PROVE Agrees(req[s])'
    <3>1. CASE s = r
      <4>1. Agrees(q)'
        BY <1>1, <2>1, <2>3, <2>4 DEF Agrees
      <4>2. QED
        BY <3>1, <4>1 DEF Agrees
    <3>2. CASE s # r
      <4> PICK p : p = req[s]
        OBVIOUS
      <4>1. Agrees(p) /\ (p.at \in Uploading => p.hid # uploads + 1)
        <5>1. Sound(p) /\ Agrees(p) /\ Well(p)
          BY DEF IInv, SlotsSound, ClashInv, DataInv, SlotsWell
        <5>2. QED
          BY <5>1 DEF Sound, Uploading, Storing, Idle
      <4>2. Agrees(p)'
        BY <1>1, <4>1 DEF Agrees
      <4>3. QED
        BY <3>2, <4>2 DEF Agrees
    <3>3. QED
      BY <3>1, <3>2
  <2>7. QED
    BY <2>2, <2>5, <2>6 DEF ClashInv
<1>4. QED
  BY <1>2, <1>3

LEMMA ClashInit == Init => ClashInv
BY DEF Init, ClashInv, Agrees, Idle, Uploading, Storing, ClashesOfUpload

LEMMA ClashNext == IInv /\ DataInv /\ ClashInv /\ [Next]_vars => ClashInv'
<1>1. ASSUME IInv, DataInv, ClashInv, UNCHANGED vars PROVE ClashInv'
  BY <1>1 DEF vars, tables, counts, record, ClashInv, Agrees, ClashesOfUpload
<1>2. DataInv => created \in Nat
  BY DEF DataInv, Counted
<1>3. ASSUME IInv, DataInv, ClashInv, NEW d \in Departments, Elsewhere(d) PROVE ClashInv'
  <2>1. UNCHANGED <<uploads, created, req, unedited>>
    BY <1>3 DEF Elsewhere, Meanwhile, DepartmentTimetablesDeleted, DepartmentHistoryDeleted,
                DepartmentOptionsDeleted, DepartmentRemoved, DepartmentCreated
  <2>2. timetables' \subseteq timetables /\ history' \subseteq history
    BY <1>3 DEF Elsewhere, DepartmentTimetablesDeleted, DepartmentHistoryDeleted,
                DepartmentOptionsDeleted, DepartmentRemoved, DepartmentCreated
  <2>3. QED
    BY <1>2, <1>3, <2>1, <2>2, ClashFrame
<1>4. ASSUME IInv, DataInv, ClashInv, Crash PROVE ClashInv'
  <2>1. UNCHANGED <<tables, uploads, created, unedited>> /\ req' = [r \in Requests |-> Idle]
    BY <1>4 DEF Crash
  <2>2. \A r \in Requests : req'[r].at \notin Uploading
    BY <2>1 DEF Idle, Uploading, Storing
  <2>3. UNCHANGED <<timetables, history>>
    BY <2>1 DEF tables
  <2>4. QED
    BY <1>2, <1>4, <2>1, <2>2, <2>3, ClashFrame
<1>5. QED
  BY <1>1, <1>3, <1>4, ClashClient, ClashStep DEF Next

-----------------------------------------------------------------------------
(* Requests that run alone.                                                *)

\* The row an upload stored.
Written(q) == [id |-> q.tid, dept |-> q.dept, entries |-> q.entries]

\* The rows of the department of a request that runs alone: what the answered
\* requests left, and what this one wrote; a save holds what it will write in the
\* newest of them.
RowsFit(q) ==
    LET before == serial[q.dept].rows
    IN /\ TimetablesOf(q.dept) = IF q.at \in Storing THEN before \cup {Written(q)} ELSE before
       /\ q.at \in {"select", "write"} =>
             \E t \in before :
                /\ IsNewest(t, before)
                /\ t.id = q.tid
                /\ q.entries = q.given \/ q.entries = t.entries \o q.given
       /\ q.at # "reinsert"

\* The options it is about to write have those there are, and those it was given.
OptionsFit(q) ==
    /\ q.at = "mergeOptions" =>
          /\ q.dept \in DOMAIN options
          /\ options[q.dept] \cup CoursesOf(q.given) \subseteq q.options
    /\ q.at \in {"selectOptions", "insertOptions"} =>
          q.dept \notin DOMAIN options /\ CoursesOf(q.given) \subseteq q.options

Offered(d) ==
    serial[d].courses # {} => d \in DOMAIN options /\ serial[d].courses \subseteq options[d]

\* The department d, if the requests for it ran one after the other.
InOrder(d) ==
    serial[d] # None =>
        /\ \A r, s \in Requests :
              req[r] # Idle /\ req[s] # Idle /\ req[r].dept = d /\ req[s].dept = d => r = s
        /\ serial[d] = [rows |-> serial[d].rows, courses |-> serial[d].courses]
        /\ ~Busy(d) => TimetablesOf(d) = serial[d].rows
        /\ Offered(d)
        /\ \A r \in Requests :
              req[r] # Idle /\ req[r].dept = d => RowsFit(req[r]) /\ OptionsFit(req[r])

SerialInv ==
    /\ serial = [d \in Departments |-> serial[d]]
    /\ \A d \in Departments : InOrder(d)

\* Nothing of the department changes.
LEMMA DepartmentStays ==
    ASSUME NEW d \in Departments, InOrder(d),
           serial'[d] = serial[d],
           TimetablesOf(d)' = TimetablesOf(d),
           d \in DOMAIN options' <=> d \in DOMAIN options,
           d \in DOMAIN options => options'[d] = options[d],
           \A r \in Requests : (req'[r] # Idle /\ req'[r].dept = d) =>
               (req'[r] = req[r]),
           \A r \in Requests : (req[r] # Idle /\ req[r].dept = d) =>
               (req'[r] = req[r])
    PROVE  InOrder(d)'
<1>1. SUFFICES ASSUME serial[d] # None PROVE InOrder(d)'
  BY DEF InOrder
<1>2. Busy(d)' <=> Busy(d)
  BY DEF Busy
<1>3. Offered(d)'
  BY <1>1 DEF InOrder, Offered
<1>4. ASSUME NEW r \in Requests, req'[r] # Idle, req'[r].dept = d
      PROVE  (RowsFit(req[r]) /\ OptionsFit(req[r]))'
  <2> PICK q : q = req[r]
    OBVIOUS
  <2>1. req'[r] = q /\ q # Idle /\ q.dept = d
    BY <1>4
  <2>2. RowsFit(q) /\ OptionsFit(q)
    BY <1>1, <2>1 DEF InOrder
  <2>3. RowsFit(q)'
    BY <2>1, <2>2 DEF RowsFit
  <2>4. OptionsFit(q)'
    BY <2>1, <2>2 DEF OptionsFit
  <2>5. QED
    BY <2>1, <2>3, <2>4 DEF RowsFit, OptionsFit
<1>5. QED
  BY <1>1, <1>2, <1>3, <1>4 DEF InOrder

\* A step of the only request for a department: what must be true of what it leaves.
LEMMA DepartmentMoves ==
    ASSUME NEW d \in Departments, InOrder(d), serial[d] # None,
           NEW r \in Requests, NEW q,
           req' = [s \in Requests |-> IF s = r THEN q ELSE req[s]],
           \A s \in Requests : req[s] # Idle /\ req[s].dept = d => s = r,
           serial'[d] # None =>
               /\ serial'[d] = [rows |-> serial'[d].rows, courses |-> serial'[d].courses]
               /\ Offered(d)'
               /\ q = Idle => TimetablesOf(d)' = serial'[d].rows
               /\ q # Idle => q.dept = d /\ RowsFit(q)' /\ OptionsFit(q)'
    PROVE  InOrder(d)'
<1>1. SUFFICES ASSUME serial'[d] # None PROVE InOrder(d)'
  BY DEF InOrder
<1>2. \A s \in Requests : req'[s] # Idle /\ req'[s].dept = d => s = r
  OBVIOUS
<1>3. ~Busy(d)' => q = Idle
  BY <1>1 DEF Busy
<1>4. ASSUME NEW s \in Requests, req'[s] # Idle, req'[s].dept = d
      PROVE  (RowsFit(req[s]) /\ OptionsFit(req[s]))'
  <2>1. req'[s] = q /\ q # Idle
    BY <1>2, <1>4
  <2>2. QED
    BY <1>1, <2>1 DEF RowsFit, OptionsFit
<1>5. QED
  BY <1>1, <1>2, <1>3, <1>4 DEF InOrder

\* What a step of a request does to the other departments: nothing.
LEMMA OtherRows ==
    ASSUME IInv, DataInv, SerialInv, NEW r \in Requests, Step(r) \/ StatementFails(r),
           NEW d \in Departments, d # req[r].dept
    PROVE  TimetablesOf(d)' = TimetablesOf(d)
<1>1. CASE InsertTimetable(r)
  <2> PICK new : new = [id |-> created + 1, dept |-> req[r].dept, entries |-> req[r].entries]
    OBVIOUS
  <2>1. timetables' = timetables \cup {new} /\ new.dept # d
    BY <1>1 DEF InsertTimetable
  <2>2. QED
    BY <2>1 DEF TimetablesOf
<1>2. CASE SaveWrite(r) \/ SaveReinsert(r) \/ RemoveTimetable(r)
  <2>1. <<req[r].tid, req[r].dept>> \in Homes /\ req[r] \in Holder
    BY <1>2, HeldHome DEF SaveWrite, SaveReinsert, RemoveTimetable
  <2>2. \A t \in timetables : t.id = req[r].tid => t.dept # d
    <3>1. ASSUME NEW t \in timetables, t.id = req[r].tid
          PROVE  <<t.id, t.dept>> = <<req[r].tid, req[r].dept>>
      BY <2>1, <3>1, RowKnown DEF DataInv, OneHome
    <3>2. QED
      BY <3>1
  <2>3. CASE SaveWrite(r)
    <3>1. timetables' = SetEntries(timetables, req[r].tid, req[r].entries)
          /\ req[r].entries \in Seq(Entry)
      BY <2>1, <2>3 DEF SaveWrite, Holder
    <3>2. \A u \in timetables' : u.dept = d => u \in timetables
      BY <2>2, <3>1, EntriesSet
    <3>3. \A t \in timetables : t.dept = d => t \in timetables'
      BY <2>2, <3>1 DEF SetEntries
    <3>4. QED
      BY <3>2, <3>3 DEF TimetablesOf
  <2>4. CASE SaveReinsert(r)
    <3> PICK back : back = [id |-> req[r].tid, dept |-> req[r].dept,
                            entries |-> req[r].entries]
      OBVIOUS
    <3>1. timetables' = timetables \cup {back} /\ back.dept # d
      BY <2>4 DEF SaveReinsert
    <3>2. QED
      BY <3>1 DEF TimetablesOf
  <2>5. CASE RemoveTimetable(r)
    BY <2>2, <2>5 DEF RemoveTimetable, Without, TimetablesOf
  <2>6. QED
    BY <1>2, <2>3, <2>4, <2>5
<1>3. ASSUME ~InsertTimetable(r), ~SaveWrite(r), ~SaveReinsert(r), ~RemoveTimetable(r)
      PROVE  UNCHANGED timetables
  <2>1. CASE StatementFails(r)
    BY <2>1 DEF StatementFails, tables
  <2>2. CASE Upload(r)
    BY <1>3, <2>2 DEF Upload, UploadUnreadable, UploadTimetableFile, UploadFileFails,
        UpdateTimetableHistory, PointDepartment, FindOptions, MergeOptions, SelectOptions,
        InsertOptions, InsertOptionsRefused, tables
  <2>3. CASE Save(r)
    BY <1>3, <2>3 DEF Save, MergeRead, MergeReadNothing, SaveSelectSame, SaveSelect,
        SaveRefused, tables
  <2>4. CASE Delete(r)
    BY <1>3, <2>4 DEF Delete, DeleteTimetableFiles, DeleteFilesFail, tables
  <2>5. QED
    BY <2>1, <2>2, <2>3, <2>4 DEF Step
<1>4. QED
  BY <1>1, <1>2, <1>3 DEF TimetablesOf

LEMMA OtherOptions ==
    ASSUME NEW r \in Requests, Step(r) \/ StatementFails(r), NEW d, d # req[r].dept
    PROVE  /\ d \in DOMAIN options' <=> d \in DOMAIN options
           /\ d \in DOMAIN options => options'[d] = options[d]
<1>1. CASE MergeOptions(r)
  BY <1>1 DEF MergeOptions
<1>2. CASE InsertOptions(r)
  BY <1>2 DEF InsertOptions
<1>3. ASSUME ~MergeOptions(r), ~InsertOptions(r) PROVE UNCHANGED options
  <2>1. CASE StatementFails(r)
    BY <2>1 DEF StatementFails, tables
  <2>2. CASE Upload(r)
    BY <1>3, <2>2 DEF Upload, UploadUnreadable, InsertTimetable, UploadTimetableFile,
        UploadFileFails, UpdateTimetableHistory, PointDepartment, FindOptions, SelectOptions,
        InsertOptionsRefused, tables
  <2>3. CASE Save(r)
    BY <2>3 DEF Save, MergeRead, MergeReadNothing, SaveSelectSame, SaveSelect, SaveWrite,
        SaveReinsert, SaveRefused, tables
  <2>4. CASE Delete(r)
    BY <2>4 DEF Delete, DeleteTimetableFiles, DeleteFilesFail, RemoveTimetable, tables
  <2>5. QED
    BY <2>1, <2>2, <2>3, <2>4 DEF Step
<1>4. QED
  BY <1>1, <1>2, <1>3

\* A step of a request gives the account of its own department, and no other; one
\* that was given up stays so.
LEMMA OtherSerial ==
    ASSUME SerialInv, NEW r \in Requests, Step(r) \/ StatementFails(r),
           req[r].dept \in Departments
    PROVE  /\ serial' = [d \in Departments |-> serial'[d]]
           /\ \A d \in Departments : d # req[r].dept => serial'[d] = serial[d]
           /\ serial[req[r].dept] = None => serial'[req[r].dept] = None
<1>1. ASSUME Refuse(r) \/ UNCHANGED serial \/ \E then : Account(req[r].dept, then)
      PROVE  /\ serial' = [d \in Departments |-> serial'[d]]
             /\ \A d \in Departments : d # req[r].dept => serial'[d] = serial[d]
             /\ serial[req[r].dept] = None => serial'[req[r].dept] = None
  BY <1>1 DEF Refuse, Account, SerialInv
<1>2. CASE StatementFails(r)
  BY <1>1, <1>2 DEF StatementFails
<1>3. CASE Upload(r)
  <2>1. Refuse(r) \/ UNCHANGED serial \/ UploadDone(r)
    BY <1>3 DEF Upload, UploadUnreadable, InsertTimetable, UploadTimetableFile,
        UploadFileFails, UpdateTimetableHistory, PointDepartment, FindOptions, MergeOptions,
        SelectOptions, InsertOptions, InsertOptionsRefused, record
  <2>2. QED
    BY <1>1, <2>1 DEF UploadDone
<1>4. CASE Save(r)
  <2>1. Refuse(r) \/ UNCHANGED serial \/ Saved(r)
    BY <1>4 DEF Save, MergeRead, MergeReadNothing, SaveSelectSame, SaveSelect, SaveWrite,
        SaveReinsert, SaveRefused, record
  <2>2. QED
    BY <1>1, <2>1 DEF Saved
<1>5. CASE Delete(r)
  BY <1>1, <1>5 DEF Delete, DeleteTimetableFiles, DeleteFilesFail, RemoveTimetable, record
<1>6. QED
  BY <1>2, <1>3, <1>4, <1>5 DEF Step

\* A request for d that runs alone.
Alone(r, d) ==
    /\ IInv /\ DataInv /\ SerialInv
    /\ req[r] # Idle /\ req[r].dept = d /\ serial[d] # None

LEMMA AloneFits ==
    ASSUME NEW r \in Requests, NEW d, Alone(r, d)
    PROVE  /\ req[r] \in Holder /\ d \in Departments /\ Well(req[r])
           /\ InOrder(d) /\ RowsFit(req[r]) /\ OptionsFit(req[r]) /\ Offered(d)
           /\ serial[d] = [rows |-> serial[d].rows, courses |-> serial[d].courses]
           /\ \A s \in Requests : req[s] # Idle /\ req[s].dept = d => s = r
           /\ req[r].dept = d /\ req[r] # Idle /\ serial[d] # None
<1>1. req[r] \in Holder /\ Well(req[r])
  BY DEF Alone, DataInv, SlotsWell, Well
<1>2. d \in Departments
  BY <1>1 DEF Alone, Holder
<1>3. InOrder(d)
  BY <1>2 DEF Alone, SerialInv
<1>4. QED
  BY <1>1, <1>2, <1>3 DEF Alone, InOrder

LEMMA OwnGoto ==
    ASSUME NEW r \in Requests, NEW d, Alone(r, d), NEW at, Goto(r, at),
           UNCHANGED <<timetables, options, serial>>,
           at \in Storing <=> req[r].at \in Storing,
           at \notin {"idle", "select", "reinsert", "selectOptions", "mergeOptions"},
           at = "write" => req[r].at = "select",
           at = "insertOptions" => req[r].at = "selectOptions"
    PROVE  InOrder(d)'
<1> PICK q : q = [req[r] EXCEPT !.at = at]
  OBVIOUS
<1>1. /\ req[r] \in Holder /\ d \in Departments /\ InOrder(d) /\ serial[d] # None
      /\ \A s \in Requests : req[s] # Idle /\ req[s].dept = d => s = r
      /\ RowsFit(req[r]) /\ OptionsFit(req[r]) /\ req[r].dept = d
  BY AloneFits
<1>2. /\ q.at = at /\ q.dept = d /\ q.tid = req[r].tid /\ q.given = req[r].given
      /\ q.entries = req[r].entries /\ q.options = req[r].options
      /\ q # Idle
  BY <1>1 DEF Holder, Idle
<1>3. req' = [s \in Requests |-> IF s = r THEN q ELSE req[s]]
  BY DEF Goto, Alone, IInv, SlotsSound
<1>4. RowsFit(q)'
  BY <1>1, <1>2 DEF RowsFit, Written, TimetablesOf
<1>5. OptionsFit(q)'
  BY <1>1, <1>2 DEF OptionsFit
<1>6. Offered(d)' /\ serial'[d] = [rows |-> serial'[d].rows, courses |-> serial'[d].courses]
  BY <1>1 DEF InOrder, Offered
<1>7. QED
  BY <1>1, <1>2, <1>3, <1>4, <1>5, <1>6, DepartmentMoves

\* A request that ends.
LEMMA OwnAnswer ==
    ASSUME NEW r \in Requests, NEW d, Alone(r, d), Answer(r),
           serial'[d] # None =>
               /\ serial'[d] = [rows |-> serial'[d].rows, courses |-> serial'[d].courses]
               /\ Offered(d)'
               /\ TimetablesOf(d)' = serial'[d].rows
    PROVE  InOrder(d)'
<1>1. /\ d \in Departments /\ InOrder(d) /\ serial[d] # None
      /\ \A s \in Requests : req[s] # Idle /\ req[s].dept = d => s = r
  BY AloneFits
<1>2. req' = [s \in Requests |-> IF s = r THEN Idle ELSE req[s]]
  BY DEF Answer, Alone, IInv, SlotsSound
<1>3. QED
  BY <1>1, <1>2, DepartmentMoves

LEMMA OwnInsert ==
    ASSUME NEW r \in Requests, NEW d, Alone(r, d), InsertTimetable(r)
    PROVE  InOrder(d)'
<1>a. PICK q : q = [req[r] EXCEPT !.at = IF HasStorage THEN "upload" ELSE "complete",
                                  !.tid = created + 1]
  OBVIOUS
<1>b. PICK new : new = [id |-> created + 1, dept |-> d, entries |-> req[r].entries]
  OBVIOUS
<1>1. /\ req[r] \in Holder /\ d \in Departments /\ InOrder(d) /\ serial[d] # None
      /\ \A s \in Requests : req[s] # Idle /\ req[s].dept = d => s = r
      /\ RowsFit(req[r]) /\ OptionsFit(req[r]) /\ req[r].dept = d
  BY AloneFits
<1>2. /\ q.at \in {"upload", "complete"} /\ q.dept = d /\ q.tid = created + 1
      /\ q.entries = req[r].entries /\ q # Idle
  BY <1>a, <1>1 DEF Holder, Idle
<1>3. req' = [s \in Requests |-> IF s = r THEN q ELSE req[s]]
  BY <1>a DEF InsertTimetable, Alone, IInv, SlotsSound
<1>4. /\ timetables' = timetables \cup {new} /\ UNCHANGED <<serial, options>>
      /\ req[r].at = "insert"
  BY <1>b, <1>1 DEF InsertTimetable
<1>5. Written(q) = new
  BY <1>b, <1>2 DEF Written
<1>6. TimetablesOf(d)' = TimetablesOf(d) \cup {new}
  BY <1>b, <1>4 DEF TimetablesOf
<1>7. TimetablesOf(d) = serial[d].rows
  BY <1>1, <1>4 DEF RowsFit, Storing
<1>8. RowsFit(q)'
  BY <1>2, <1>4, <1>5, <1>6, <1>7 DEF RowsFit, Storing
<1>9. OptionsFit(q)'
  BY <1>2 DEF OptionsFit
<1>10. Offered(d)' /\ serial'[d] = [rows |-> serial'[d].rows, courses |-> serial'[d].courses]
  BY <1>1, <1>4 DEF InOrder, Offered
<1>11. QED
  BY <1>1, <1>2, <1>3, <1>8, <1>9, <1>10, DepartmentMoves

LEMMA OwnFindOptions ==
    ASSUME NEW r \in Requests, NEW d, Alone(r, d), FindOptions(r)
    PROVE  InOrder(d)'
<1>a. PICK courses, at :
        /\ req' = [req EXCEPT ![r] = [req[r] EXCEPT !.at = at, !.options = courses]]
        /\ \/ /\ d \in DOMAIN options /\ at = "mergeOptions"
              /\ courses = options[d] \cup CoursesOf(req[r].given)
           \/ /\ d \notin DOMAIN options /\ at = "selectOptions"
              /\ courses = CoursesOf(req[r].given)
  <2>1. req[r].dept = d
    BY AloneFits
  <2>2. PICK courses, at :
          /\ req' = [req EXCEPT ![r].at = at, ![r].options = courses]
          /\ \/ /\ d \in DOMAIN options /\ at = "mergeOptions"
                /\ courses = options[d] \cup CoursesOf(req[r].given)
             \/ /\ d \notin DOMAIN options /\ at = "selectOptions"
                /\ courses = CoursesOf(req[r].given)
    <3>1. CASE d \in DOMAIN options
      BY <2>1, <3>1 DEF FindOptions
    <3>2. CASE d \notin DOMAIN options
      BY <2>1, <3>2 DEF FindOptions
    <3>3. QED
      BY <3>1, <3>2
  <2>3. req' = [req EXCEPT ![r] = [req[r] EXCEPT !.at = at, !.options = courses]]
    BY <2>2 DEF Alone, IInv, SlotsSound
  <2>4. QED
    BY <2>2, <2>3
<1>b. PICK q : q = [req[r] EXCEPT !.at = at, !.options = courses]
  OBVIOUS
<1>1. /\ req[r] \in Holder /\ d \in Departments /\ InOrder(d) /\ serial[d] # None
      /\ \A s \in Requests : req[s] # Idle /\ req[s].dept = d => s = r
      /\ RowsFit(req[r]) /\ req[r].dept = d /\ req[r].at = "findOptions"
      /\ UNCHANGED <<timetables, serial, options>>
  BY AloneFits DEF FindOptions, tables, record
<1>2. /\ q.at = at /\ q.dept = d /\ q.tid = req[r].tid /\ q.given = req[r].given
      /\ q.entries = req[r].entries /\ q.options = courses /\ q # Idle
  BY <1>b, <1>1 DEF Holder, Idle
<1>3. req' = [s \in Requests |-> IF s = r THEN q ELSE req[s]]
  BY <1>a, <1>b DEF Alone, IInv, SlotsSound
<1>4. RowsFit(q)'
  BY <1>a, <1>1, <1>2 DEF RowsFit, Written, TimetablesOf, Storing
<1>5. OptionsFit(q)'
  BY <1>a, <1>1, <1>2 DEF OptionsFit
<1>6. Offered(d)' /\ serial'[d] = [rows |-> serial'[d].rows, courses |-> serial'[d].courses]
  BY <1>1 DEF InOrder, Offered
<1>7. QED
  BY <1>1, <1>2, <1>3, <1>4, <1>5, <1>6, DepartmentMoves

\* The end of an upload: its row and its courses are accounted for.
LEMMA OwnUploadDone ==
    ASSUME NEW r \in Requests, NEW d, Alone(r, d), UploadDone(r), UNCHANGED timetables,
           req[r].at \in Storing,
           d \in DOMAIN options',
           CoursesOf(req[r].given) \subseteq options'[d],
           d \in DOMAIN options => options[d] \subseteq options'[d]
    PROVE  InOrder(d)'
<1> PICK row : row = [id |-> req[r].tid, dept |-> d, entries |-> Valid(req[r].given)]
  OBVIOUS
<1>1. /\ req[r] \in Holder /\ d \in Departments /\ InOrder(d) /\ serial[d] # None
      /\ RowsFit(req[r]) /\ req[r].dept = d /\ Well(req[r]) /\ Offered(d) /\ req[r] # Idle
  BY AloneFits
<1>2. Answer(r) /\ serial'[d] = [rows |-> serial[d].rows \cup {row},
                                 courses |-> serial[d].courses \cup CoursesOf(req[r].given)]
  BY <1>1 DEF UploadDone, Account, Alone, SerialInv
<1>3. Written(req[r]) = row
  BY <1>1 DEF Well, Uploading, Written
<1>4. TimetablesOf(d)' = serial[d].rows \cup {row}
  BY <1>1, <1>3 DEF RowsFit, TimetablesOf
<1>5. Offered(d)'
  BY <1>1, <1>2 DEF Offered
<1>6. QED
  BY <1>2, <1>4, <1>5, OwnAnswer

LEMMA OwnOptions ==
    ASSUME NEW r \in Requests, NEW d, Alone(r, d), MergeOptions(r) \/ InsertOptions(r)
    PROVE  InOrder(d)'
<1>1. req[r].dept = d /\ OptionsFit(req[r])
  BY AloneFits
<1>2. req[r].at \in Storing /\ UploadDone(r) /\ UNCHANGED timetables
  BY DEF MergeOptions, InsertOptions, Storing
<1>3. CASE MergeOptions(r)
  <2>1. /\ d \in DOMAIN options /\ options[d] \cup CoursesOf(req[r].given) \subseteq req[r].options
        /\ d \in DOMAIN options' /\ options'[d] = req[r].options
    BY <1>1, <1>3 DEF MergeOptions, OptionsFit
  <2>2. QED
    BY <1>2, <2>1, OwnUploadDone
<1>4. CASE InsertOptions(r)
  <2>1. /\ d \notin DOMAIN options /\ CoursesOf(req[r].given) \subseteq req[r].options
        /\ d \in DOMAIN options' /\ options'[d] = req[r].options
    BY <1>1, <1>4 DEF InsertOptions, OptionsFit
  <2>2. QED
    BY <1>2, <2>1, OwnUploadDone
<1>5. QED
  BY <1>3, <1>4

LEMMA OwnMergeRead ==
    ASSUME NEW r \in Requests, NEW d, Alone(r, d), MergeRead(r)
    PROVE  InOrder(d)'
<1>1. /\ req[r] \in Holder /\ d \in Departments /\ InOrder(d) /\ serial[d] # None
      /\ \A s \in Requests : req[s] # Idle /\ req[s].dept = d => s = r
      /\ RowsFit(req[r]) /\ req[r].dept = d /\ req[r].at = "mergeRead"
      /\ UNCHANGED <<timetables, serial, options>>
  BY AloneFits DEF MergeRead, tables, record
<1>a. PICK t \in TimetablesOf(d) :
          /\ IsNewest(t, timetables)
          /\ req' = [req EXCEPT ![r].at = "select", ![r].tid = t.id,
                                ![r].entries = t.entries \o req[r].given]
  BY <1>1 DEF MergeRead
<1>b. PICK q : q = [req[r] EXCEPT !.at = "select", !.tid = t.id,
                                  !.entries = t.entries \o req[r].given]
  OBVIOUS
<1>2. /\ q.at = "select" /\ q.dept = d /\ q.tid = t.id /\ q.given = req[r].given
      /\ q.entries = t.entries \o req[r].given /\ q # Idle
  BY <1>b, <1>1 DEF Holder, Idle
<1>3. req' = [s \in Requests |-> IF s = r THEN q ELSE req[s]]
  BY <1>a, <1>b DEF Alone, IInv, SlotsSound
<1>4. TimetablesOf(d) = serial[d].rows /\ TimetablesOf(d)' = TimetablesOf(d)
  BY <1>1 DEF RowsFit, Storing, TimetablesOf
<1>5. IsNewest(t, serial[d].rows)
  BY <1>a, <1>4 DEF IsNewest, TimetablesOf
<1>6. RowsFit(q)'
  BY <1>1, <1>2, <1>4, <1>5 DEF RowsFit, Storing, IsNewest
<1>7. OptionsFit(q)'
  BY <1>2 DEF OptionsFit
<1>8. Offered(d)' /\ serial'[d] = [rows |-> serial'[d].rows, courses |-> serial'[d].courses]
  BY <1>1 DEF InOrder, Offered
<1>9. QED
  BY <1>1, <1>2, <1>3, <1>6, <1>7, <1>8, DepartmentMoves

LEMMA OwnMergeReadNothing ==
    ASSUME NEW r \in Requests, NEW d, Alone(r, d), MergeReadNothing(r)
    PROVE  InOrder(d)'
<1>1. /\ InOrder(d) /\ serial[d] # None /\ RowsFit(req[r]) /\ req[r].dept = d
      /\ req[r].at = "mergeRead" /\ Answer(r) /\ UNCHANGED <<timetables, serial, options>>
  BY AloneFits DEF MergeReadNothing, tables, record
<1>2. TimetablesOf(d)' = serial[d].rows
  BY <1>1 DEF RowsFit, Storing, TimetablesOf
<1>3. Offered(d)' /\ serial'[d] = [rows |-> serial'[d].rows, courses |-> serial'[d].courses]
  BY <1>1 DEF InOrder, Offered
<1>4. QED
  BY <1>1, <1>2, <1>3, OwnAnswer

\* What a save by a request that runs alone writes in the row it found is what is
\* accounted for: the row is the newest, and no other is.
LEMMA SavedRows ==
    ASSUME NEW r \in Requests, NEW d, Alone(r, d), Saved(r),
           req[r].at \in {"select", "write"}
    PROVE  /\ Answer(r)
           /\ serial'[d] = [rows |-> serial'[d].rows, courses |-> serial[d].courses]
           /\ serial'[d].rows = {IF t.id = req[r].tid THEN [t EXCEPT !.entries = req[r].entries]
                                 ELSE t : t \in TimetablesOf(d)}
           /\ \E t \in TimetablesOf(d) : t.id = req[r].tid
<1> DEFINE before == TimetablesOf(d)
           Now(t) == IF IsNewest(t, before)
                     THEN [t EXCEPT !.entries =
                              IF req[r].entries = req[r].given THEN req[r].given
                              ELSE t.entries \o req[r].given]
                     ELSE t
           Then(t) == IF t.id = req[r].tid THEN [t EXCEPT !.entries = req[r].entries] ELSE t
<1>1. /\ req[r].dept = d /\ d \in Departments /\ RowsFit(req[r])
      /\ serial[d] = [rows |-> serial[d].rows, courses |-> serial[d].courses]
      /\ serial = [e \in Departments |-> serial[e]] /\ serial[d] # None /\ DataInv
  BY AloneFits DEF Alone, SerialInv
<1>2. before = serial[d].rows
  BY <1>1 DEF RowsFit, Storing
<1>3. serial'[d] = [rows |-> {Now(t) : t \in before}, courses |-> serial[d].courses]
  <2>1. serial' = [serial EXCEPT ![d] = [serial[d] EXCEPT !.rows = {Now(t) : t \in serial[d].rows}]]
    BY <1>1, <1>2 DEF Saved, Account
  <2> HIDE DEF Now
  <2>2. QED
    BY <1>1, <1>2, <2>1
<1>4. PICK top \in before :
          /\ IsNewest(top, before) /\ top.id = req[r].tid
          /\ req[r].entries = req[r].given \/ req[r].entries = top.entries \o req[r].given
  BY <1>1, <1>2 DEF RowsFit
<1>5. ASSUME NEW t \in before PROVE Now(t) = Then(t)
  <2>1. t \in Row /\ top \in Row /\ t.dept = d /\ top.dept = d
        /\ (t.id = top.id => t = top)
    BY <1>1 DEF TimetablesOf, DataInv, TypeOK
  <2>2. t.id \in Nat /\ top.id \in Nat
    BY <2>1 DEF Row, Ids
  <2>3. IsNewest(t, before) => t.id >= top.id
    BY <1>4, <2>1 DEF IsNewest
  <2>4. t.id <= top.id
    BY <1>4, <2>1 DEF IsNewest
  <2>5. IsNewest(t, before) <=> t = top
    BY <1>4, <2>1, <2>2, <2>3, <2>4
  <2>6. QED
    BY <1>4, <2>1, <2>5
<1>6. {Now(t) : t \in before} = {Then(t) : t \in before}
  BY <1>5
<1>7. Answer(r)
  BY DEF Saved
<1> HIDE DEF Now, before
<1>8. QED
  BY <1>3, <1>4, <1>6, <1>7 DEF before

LEMMA OwnSave ==
    ASSUME NEW r \in Requests, NEW d, Alone(r, d), SaveSelectSame(r) \/ SaveWrite(r)
    PROVE  InOrder(d)'
<1> DEFINE Then(t) == IF t.id = req[r].tid THEN [t EXCEPT !.entries = req[r].entries] ELSE t
<1>1. Saved(r) /\ req[r].at \in {"select", "write"} /\ UNCHANGED options
  BY DEF SaveSelectSame, SaveWrite, tables
<1>2. /\ Answer(r)
      /\ serial'[d] = [rows |-> serial'[d].rows, courses |-> serial[d].courses]
      /\ serial'[d].rows = {Then(t) : t \in TimetablesOf(d)}
      /\ \E t \in TimetablesOf(d) : t.id = req[r].tid
  BY <1>1, SavedRows
<1>3. DataInv /\ Offered(d)
  BY AloneFits DEF Alone
<1>4. \A t \in timetables : Then(t).dept = t.dept
  BY <1>3 DEF DataInv, TypeOK, Row
<1>5. TimetablesOf(d)' = {Then(t) : t \in TimetablesOf(d)}
  <2>1. CASE SaveWrite(r)
    <3>1. timetables' = {Then(t) : t \in timetables}
      BY <2>1 DEF SaveWrite, SetEntries
    <3> HIDE DEF Then
    <3>2. QED
      BY <1>4, <3>1 DEF TimetablesOf
  <2>2. CASE SaveSelectSame(r)
    <3>1. PICK t \in timetables : t.id = req[r].tid /\ t.entries = req[r].entries
      BY <2>2 DEF SaveSelectSame
    <3>2. \A u \in timetables : Then(u) = u
      <4>1. TAKE u \in timetables
      <4>2. u \in Row /\ (u.id = t.id => u = t)
        BY <1>3 DEF DataInv, TypeOK
      <4>3. u = [u EXCEPT !.entries = u.entries]
        BY <4>2 DEF Row
      <4>4. QED
        BY <3>1, <4>2, <4>3
    <3>3. UNCHANGED timetables
      BY <2>2 DEF SaveSelectSame, tables
    <3> HIDE DEF Then
    <3>4. QED
      BY <3>2, <3>3 DEF TimetablesOf
  <2>3. QED
    BY <2>1, <2>2
<1>6. Offered(d)'
  BY <1>1, <1>2, <1>3 DEF Offered
<1>7. TimetablesOf(d)' = serial'[d].rows
  BY <1>2, <1>5
<1>8. serial'[d] = [rows |-> serial'[d].rows, courses |-> serial'[d].courses]
  BY <1>2
<1>9. QED
  BY <1>2, <1>6, <1>7, <1>8, OwnAnswer

LEMMA OwnRemove ==
    ASSUME NEW r \in Requests, NEW d, Alone(r, d), RemoveTimetable(r)
    PROVE  InOrder(d)'
<1>1. /\ req[r].dept = d /\ d \in Departments /\ RowsFit(req[r]) /\ Offered(d)
      /\ serial[d] = [rows |-> serial[d].rows, courses |-> serial[d].courses]
      /\ serial = [e \in Departments |-> serial[e]] /\ serial[d] # None
      /\ req[r].at = "remove" /\ Answer(r) /\ UNCHANGED options
  BY AloneFits DEF Alone, SerialInv, RemoveTimetable
<1>2. TimetablesOf(d) = serial[d].rows
  BY <1>1 DEF RowsFit, Storing
<1>3. serial'[d] = [rows |-> Without(serial[d].rows, req[r].tid), courses |-> serial[d].courses]
  <2>1. serial' = [serial EXCEPT ![d] =
                      [serial[d] EXCEPT !.rows = Without(serial[d].rows, req[r].tid)]]
    BY <1>1 DEF RemoveTimetable, Account
  <2>2. QED
    BY <1>1, <2>1
<1>4. TimetablesOf(d)' = Without(TimetablesOf(d), req[r].tid)
  BY DEF RemoveTimetable, Without, TimetablesOf
<1>5. Offered(d)'
  BY <1>1, <1>3 DEF Offered
<1>6. QED
  BY <1>1, <1>2, <1>3, <1>4, <1>5, OwnAnswer

LEMMA OwnRefuse ==
    ASSUME NEW r \in Requests, NEW d, Alone(r, d), Refuse(r)
    PROVE  InOrder(d)'
<1>1. req[r].dept = d /\ d \in Departments
  BY AloneFits
<1>2. serial'[d] = None
  BY <1>1 DEF Refuse, Alone, SerialInv
<1>3. QED
  BY <1>2 DEF InOrder

LEMMA OwnStep ==
    ASSUME NEW r \in Requests, NEW d, Alone(r, d), Step(r) \/ StatementFails(r)
    PROVE  InOrder(d)'
<1>1. RowsFit(req[r]) /\ OptionsFit(req[r]) /\ req[r].dept = d
  BY AloneFits
<1>2. CASE \/ UploadUnreadable(r) \/ InsertOptionsRefused(r) \/ SaveRefused(r)
           \/ StatementFails(r)
  BY <1>2, OwnRefuse DEF UploadUnreadable, InsertOptionsRefused, SaveRefused, StatementFails
<1>3. CASE UploadTimetableFile(r) \/ UploadFileFails(r) \/ UpdateTimetableHistory(r)
           \/ PointDepartment(r)
  <2>1. PICK at \in {"complete", "point", "findOptions"} : Goto(r, at)
    BY <1>3 DEF UploadTimetableFile, UploadFileFails, UpdateTimetableHistory, PointDepartment
  <2>2. /\ UNCHANGED <<timetables, options, serial>>
        /\ req[r].at \in {"upload", "complete", "point"}
    BY <1>3 DEF UploadTimetableFile, UploadFileFails, UpdateTimetableHistory, PointDepartment,
                tables, record
  <2>3. at \in Storing /\ req[r].at \in Storing
    BY <2>2 DEF Storing
  <2>4. QED
    BY <2>1, <2>2, <2>3, OwnGoto
<1>4. CASE SelectOptions(r)
  <2>1. Goto(r, "insertOptions")
    BY <1>1, <1>4 DEF SelectOptions, OptionsFit
  <2>2. UNCHANGED <<timetables, options, serial>> /\ req[r].at = "selectOptions"
    BY <1>4 DEF SelectOptions, tables, record
  <2>3. "insertOptions" \in Storing /\ req[r].at \in Storing
    BY <2>2 DEF Storing
  <2>4. QED
    BY <2>1, <2>2, <2>3, OwnGoto
<1>5. CASE SaveSelect(r)
  <2>1. req[r].at = "select" /\ UNCHANGED <<timetables, options, serial>>
    BY <1>5 DEF SaveSelect, tables, record
  <2>2. \E t \in timetables : t.id = req[r].tid
    BY <1>1, <2>1 DEF RowsFit, Storing, TimetablesOf
  <2>3. Goto(r, "write")
    BY <1>5, <2>2 DEF SaveSelect
  <2>4. "write" \notin Storing /\ req[r].at \notin Storing
    BY <2>1 DEF Storing
  <2>5. QED
    BY <2>1, <2>3, <2>4, OwnGoto
<1>6. CASE SaveReinsert(r)
  BY <1>1, <1>6 DEF SaveReinsert, RowsFit
<1>7. CASE DeleteTimetableFiles(r) \/ DeleteFilesFail(r)
  <2>1. /\ Goto(r, "remove") /\ req[r].at = "deleteFiles"
        /\ UNCHANGED <<timetables, options, serial>>
    BY <1>7 DEF DeleteTimetableFiles, DeleteFilesFail, tables, record
  <2>2. "remove" \notin Storing /\ req[r].at \notin Storing
    BY <2>1 DEF Storing
  <2>3. QED
    BY <2>1, <2>2, OwnGoto
<1>8. QED
  BY <1>2, <1>3, <1>4, <1>5, <1>6, <1>7, OwnInsert, OwnFindOptions, OwnOptions, OwnMergeRead,
     OwnMergeReadNothing, OwnSave, OwnRemove DEF Step, Upload, Save, Delete

LEMMA SerialStep ==
    ASSUME IInv, DataInv, SerialInv, NEW r \in Requests, Step(r) \/ StatementFails(r)
    PROVE  SerialInv'
<1> PICK q : /\ req' = [s \in Requests |-> IF s = r THEN q ELSE req[s]]
             /\ Onward(r, q)
  BY StepMoves
<1>1. req[r] # Idle /\ req[r].dept \in Departments
  BY DEF Onward, DataInv, SlotsWell, Well, Holder
<1>2. /\ serial' = [d \in Departments |-> serial'[d]]
      /\ \A d \in Departments : d # req[r].dept => serial'[d] = serial[d]
      /\ serial[req[r].dept] = None => serial'[req[r].dept] = None
  BY <1>1, OtherSerial
<1>3. ASSUME NEW d \in Departments PROVE InOrder(d)'
  <2>1. CASE d # req[r].dept
    <3>1. /\ d \in DOMAIN options' <=> d \in DOMAIN options
          /\ d \in DOMAIN options => options'[d] = options[d]
      BY <2>1, OtherOptions
    <3>2. \A s \in Requests : /\ req'[s] # Idle /\ req'[s].dept = d => req'[s] = req[s]
                              /\ req[s] # Idle /\ req[s].dept = d => req'[s] = req[s]
      BY <2>1 DEF Onward
    <3>3. TimetablesOf(d)' = TimetablesOf(d) /\ serial'[d] = serial[d] /\ InOrder(d)
      BY <1>2, <2>1, OtherRows DEF SerialInv
    <3>4. QED
      BY <3>1, <3>2, <3>3, DepartmentStays
  <2>2. CASE d = req[r].dept /\ serial[d] = None
    BY <1>2, <2>2 DEF InOrder
  <2>3. CASE d = req[r].dept /\ serial[d] # None
    BY <1>1, <2>3, OwnStep DEF Alone
  <2>4. QED
    BY <2>1, <2>2, <2>3
<1>4. QED
  BY <1>2, <1>3 DEF SerialInv

\* A request begins: if it is alone, its department is as the requests before left it.
LEMMA SerialBegin ==
    ASSUME IInv, DataInv, SerialInv, NEW r \in Requests, NEW q, Begin(r, q), q # Idle,
           q.dept \in Departments, UNCHANGED <<timetables, options>>,
           q.at \in {"insert", "mergeRead", "select", "deleteFiles", "remove"},
           q.at = "select" =>
               /\ \E t \in TimetablesOf(q.dept) : IsNewest(t, timetables) /\ t.id = q.tid
               /\ q.entries = q.given
    PROVE  SerialInv'
<1>1. req[r] = Idle /\ req' = [s \in Requests |-> IF s = r THEN q ELSE req[s]]
  BY DEF Begin, IInv, SlotsSound
<1>2. serial' = IF Busy(q.dept) THEN [serial EXCEPT ![q.dept] = None] ELSE serial
  BY DEF Begin
<1>3. ASSUME NEW d \in Departments PROVE InOrder(d)'
  <2>1. CASE d # q.dept
    <3>1. serial'[d] = serial[d] /\ InOrder(d) /\ TimetablesOf(d)' = TimetablesOf(d)
      BY <1>2, <2>1 DEF SerialInv, TimetablesOf
    <3>2. \A s \in Requests : /\ req'[s] # Idle /\ req'[s].dept = d => req'[s] = req[s]
                              /\ req[s] # Idle /\ req[s].dept = d => req'[s] = req[s]
      BY <1>1, <2>1
    <3>3. QED
      BY <3>1, <3>2, DepartmentStays
  <2>2. CASE d = q.dept /\ serial'[d] = None
    BY <2>2 DEF InOrder
  <2>3. CASE d = q.dept /\ serial'[d] # None
    <3>1. ~Busy(d) /\ serial' = serial
      BY <1>2, <2>3 DEF SerialInv
    <3>2. /\ InOrder(d) /\ TimetablesOf(d) = serial[d].rows
          /\ \A s \in Requests : req[s] # Idle /\ req[s].dept = d => s = r
      BY <2>3, <3>1 DEF SerialInv, InOrder, Busy
    <3>3. q.at = "select" => \E t \in serial[d].rows : IsNewest(t, serial[d].rows) /\ t.id = q.tid
      BY <2>3, <3>2 DEF IsNewest, TimetablesOf
    <3>4. RowsFit(q)'
      <4>1. TimetablesOf(d)' = serial'[d].rows
        BY <3>1, <3>2 DEF TimetablesOf
      <4>2. q.at \notin Storing /\ q.at \notin {"write", "reinsert"}
        BY DEF Storing
      <4>3. QED
        BY <2>3, <3>1, <3>3, <4>1, <4>2 DEF RowsFit, IsNewest
    <3>5. OptionsFit(q)'
      BY DEF OptionsFit
    <3>6. Offered(d)' /\ serial'[d] = [rows |-> serial'[d].rows, courses |-> serial'[d].courses]
      BY <2>3, <3>1, <3>2 DEF InOrder, Offered
    <3>7. serial[d] # None
      BY <2>3, <3>1
    <3>8. QED
      BY <1>1, <2>3, <3>2, <3>4, <3>5, <3>6, <3>7, DepartmentMoves
  <2>4. QED
    BY <2>1, <2>2, <2>3
<1>4. QED
  BY <1>2, <1>3 DEF SerialInv

LEMMA SerialClient ==
    ASSUME IInv, DataInv, SerialInv, NEW r \in Requests, Client(r)
    PROVE  SerialInv'
<1> PICK access \in Accesses :
        \/ \E d \in Departments, sheet \in Sheets : CreateTimetableHistory(r, access, d, sheet)
        \/ \E d \in Departments, h \in history, additions \in Additions :
              MergeFindHistory(r, access, d, h, additions)
        \/ \E d \in Departments, entries \in Edits : EditRead(r, access, d, entries)
        \/ \E t \in timetables : DeleteFind(r, access, t)
  BY DEF Client
<1>1. ASSUME NEW d \in Departments, NEW sheet \in Sheets,
             CreateTimetableHistory(r, access, d, sheet)
      PROVE  SerialInv'
  <2>1. PICK q : q = Holding("insert", d, uploads + 1, 0, sheet, Valid(sheet))
    OBVIOUS
  <2>2. q.at = "insert" /\ q.dept = d /\ q # Idle
    BY <2>1 DEF Holding, Idle
  <2>3. Begin(r, q) /\ UNCHANGED <<timetables, options>>
    BY <1>1, <2>1 DEF CreateTimetableHistory
  <2>4. QED
    BY <2>2, <2>3, SerialBegin
<1>2. ASSUME NEW d \in Departments, NEW h \in history, NEW additions \in Additions,
             MergeFindHistory(r, access, d, h, additions)
      PROVE  SerialInv'
  <2>1. PICK q : q = Holding("mergeRead", d, None, 0, additions, <<>>)
    OBVIOUS
  <2>2. q.at = "mergeRead" /\ q.dept = d /\ q # Idle
    BY <2>1 DEF Holding, Idle
  <2>3. Begin(r, q) /\ UNCHANGED <<timetables, options>>
    BY <1>2, <2>1 DEF MergeFindHistory, tables
  <2>4. QED
    BY <2>2, <2>3, SerialBegin
<1>3. ASSUME NEW d \in Departments, NEW entries \in Edits, EditRead(r, access, d, entries)
      PROVE  SerialInv'
  <2>1. PICK t \in TimetablesOf(d) :
            /\ IsNewest(t, timetables)
            /\ Begin(r, Holding("select", d, None, t.id, entries, entries))
    BY <1>3 DEF EditRead
  <2>2. PICK q : q = Holding("select", d, None, t.id, entries, entries)
    OBVIOUS
  <2>3. q.at = "select" /\ q.dept = d /\ q.tid = t.id /\ q.entries = q.given /\ q # Idle
    BY <2>2 DEF Holding, Idle
  <2>4. Begin(r, q) /\ UNCHANGED <<timetables, options>>
    BY <1>3, <2>1, <2>2 DEF EditRead, tables
  <2>5. QED
    BY <2>1, <2>3, <2>4, SerialBegin
<1>4. ASSUME NEW t \in timetables, DeleteFind(r, access, t) PROVE SerialInv'
  <2>1. PICK at \in {"deleteFiles", "remove"} :
            Begin(r, Holding(at, t.dept, None, t.id, <<>>, <<>>))
    BY <1>4 DEF DeleteFind
  <2>2. PICK q : q = Holding(at, t.dept, None, t.id, <<>>, <<>>)
    OBVIOUS
  <2>3. q.at = at /\ q.dept = t.dept /\ q # Idle /\ t.dept \in Departments
    BY <2>2, RowKnown DEF Holding, Idle, Row
  <2>4. Begin(r, q) /\ UNCHANGED <<timetables, options>>
    BY <1>4, <2>1, <2>2 DEF DeleteFind, tables
  <2>5. QED
    BY <2>1, <2>3, <2>4, SerialBegin
<1>5. QED
  BY <1>1, <1>2, <1>3, <1>4

\* A deletion of a department, one statement of it, gives up its account alone.
LEMMA SerialElsewhere ==
    ASSUME SerialInv, NEW e \in Departments, Elsewhere(e)
    PROVE  SerialInv'
<1>1. UNCHANGED req /\ serial' = [serial EXCEPT ![e] = None]
  BY DEF Elsewhere, Meanwhile, DepartmentTimetablesDeleted, DepartmentHistoryDeleted,
         DepartmentOptionsDeleted, DepartmentRemoved, DepartmentCreated
<1>2. timetables' = timetables \/ timetables' = timetables \ TimetablesOf(e)
  BY DEF Elsewhere, DepartmentTimetablesDeleted, DepartmentHistoryDeleted,
         DepartmentOptionsDeleted, DepartmentRemoved, DepartmentCreated
<1>3. options' = options \/ options' = [d \in DOMAIN options \ {e} |-> options[d]]
  BY DEF Elsewhere, DepartmentTimetablesDeleted, DepartmentHistoryDeleted,
         DepartmentOptionsDeleted, DepartmentRemoved, DepartmentCreated
<1>4. ASSUME NEW d \in Departments PROVE InOrder(d)'
  <2>1. CASE d = e
    BY <1>1, <2>1 DEF SerialInv, InOrder
  <2>2. CASE d # e
    <3>1. serial'[d] = serial[d] /\ InOrder(d)
      BY <1>1, <2>2 DEF SerialInv
    <3>2. TimetablesOf(d)' = TimetablesOf(d)
      BY <1>2, <2>2 DEF TimetablesOf
    <3>3. /\ d \in DOMAIN options' <=> d \in DOMAIN options
          /\ d \in DOMAIN options => options'[d] = options[d]
      BY <1>3, <2>2
    <3>4. QED
      BY <1>1, <3>1, <3>2, <3>3, DepartmentStays
  <2>3. QED
    BY <2>1, <2>2
<1>5. QED
  BY <1>1, <1>4 DEF SerialInv

LEMMA SerialCrash ==
    ASSUME SerialInv, Crash
    PROVE  SerialInv'
<1>1. /\ req' = [r \in Requests |-> Idle] /\ UNCHANGED <<timetables, options>>
      /\ serial' = [d \in Departments |-> IF Busy(d) THEN None ELSE serial[d]]
  BY DEF Crash, tables, Busy
<1>2. ASSUME NEW d \in Departments, serial'[d] # None PROVE InOrder(d)'
  <2>1. ~Busy(d) /\ serial'[d] = serial[d] /\ InOrder(d)
    BY <1>1, <1>2 DEF SerialInv
  <2>2. QED
    BY <1>1, <1>2, <2>1 DEF InOrder, Offered, TimetablesOf
<1>3. QED
  BY <1>1, <1>2 DEF SerialInv, InOrder

LEMMA SerialInit == Init => SerialInv
BY DEF Init, SerialInv, InOrder, Offered, TimetablesOf

LEMMA SerialNext == IInv /\ DataInv /\ SerialInv /\ [Next]_vars => SerialInv'
<1>1. ASSUME SerialInv, UNCHANGED vars PROVE SerialInv'
  <2>1. UNCHANGED <<timetables, options, req, serial>>
    BY <1>1 DEF vars, tables, record
  <2>2. ASSUME NEW d \in Departments PROVE InOrder(d)'
    BY <1>1, <2>1, DepartmentStays DEF SerialInv, TimetablesOf
  <2>3. QED
    BY <1>1, <2>1, <2>2 DEF SerialInv
<1>2. QED
  BY <1>1, SerialClient, SerialStep, SerialElsewhere, SerialCrash DEF Next

-----------------------------------------------------------------------------
(* Timetables are documents of TimetableStore.                             *)

\* What a request will store or append was given to it.
Given(q) ==
    /\ q.at = "insert" => q.entries \in {Valid(sheet) : sheet \in Sheets}
    /\ q.at = "mergeRead" => q.given \in Additions

StoreInv == \A r \in Requests : Given(req[r])

Saving == {"select", "write", "reinsert"}

\* What a slot holds afterwards, if that has to be saved; the other drafts stay.
LEMMA DraftsMove ==
    ASSUME NEW r \in Requests, NEW q,
           req' = [s \in Requests |-> IF s = r THEN q ELSE req[s]]
    PROVE  /\ q.at \notin Saving => Drafts' \in SUBSET Drafts
           /\ q.at \notin Saving /\ req[r].at \notin Saving => Drafts' = Drafts
           /\ q.at \in Saving /\ req[r].at \notin Saving => Drafts' = Drafts \cup {Drafted(q)}
           /\ q.at \in Saving /\ req[r].at \in Saving /\ Drafted(q) = Drafted(req[r])
                 => Drafts' = Drafts
           /\ q.at \notin Saving => Drafts' \in {Drafts, Drafts \ {Drafted(req[r])}}
<1> DEFINE Others == {Drafted(req[s]) : s \in {s \in Requests \ {r} : req[s].at \in Saving}}
<1>1. req[r].at \in Saving => Drafts = Others \cup {Drafted(req[r])}
  BY DEF Drafts, Saving
<1>2. req[r].at \notin Saving => Drafts = Others
  BY DEF Drafts, Saving
<1>3. q.at \in Saving => Drafts' = Others \cup {Drafted(q)}
  <2>1. SUFFICES ASSUME q.at \in Saving PROVE Drafts' = Others \cup {Drafted(q)}
    OBVIOUS
  <2>2. req'[r] = q /\ \A s \in Requests \ {r} : req'[s] = req[s]
    OBVIOUS
  <2>3. Drafts' = {Drafted(req'[s]) : s \in {s \in Requests : req'[s].at \in Saving}}
    BY DEF Drafts, Saving, Drafted
  <2>4. QED
    BY <2>1, <2>2, <2>3
<1>4. q.at \notin Saving => Drafts' = Others
  <2>1. SUFFICES ASSUME q.at \notin Saving PROVE Drafts' = Others
    OBVIOUS
  <2>2. req'[r] = q /\ \A s \in Requests \ {r} : req'[s] = req[s]
    OBVIOUS
  <2>3. Drafts' = {Drafted(req'[s]) : s \in {s \in Requests : req'[s].at \in Saving}}
    BY DEF Drafts, Saving, Drafted
  <2>4. QED
    BY <2>1, <2>2, <2>3
<1> HIDE DEF Others
<1>5. QED
  BY <1>1, <1>2, <1>3, <1>4

\* A step that leaves the tables to others drops drafts, or none.
LEMMA Dropped ==
    ASSUME UNCHANGED <<timetables, created>>, Drafts' \in SUBSET Drafts
    PROVE  Store!Next
BY DEF Store!Drop, Store!Next

\* Of the steps of a request, four write timetables.
LEMMA RowsRest ==
    ASSUME NEW r \in Requests, Step(r) \/ StatementFails(r),
           ~InsertTimetable(r), ~SaveWrite(r), ~SaveReinsert(r), ~RemoveTimetable(r)
    PROVE  UNCHANGED <<timetables, created>>
<1>1. CASE StatementFails(r)
  BY <1>1, CountStep DEF StatementFails, tables
<1>2. CASE Upload(r)
  BY <1>2, CountStep DEF Upload, UploadUnreadable, UploadTimetableFile, UploadFileFails,
      UpdateTimetableHistory, PointDepartment, FindOptions, MergeOptions, SelectOptions,
      InsertOptions, InsertOptionsRefused, tables
<1>3. CASE Save(r)
  BY <1>3, CountStep DEF Save, MergeRead, MergeReadNothing, SaveSelectSame, SaveSelect, SaveRefused,
      tables
<1>4. CASE DeleteTimetableFiles(r) \/ DeleteFilesFail(r)
  BY <1>4, CountStep DEF DeleteTimetableFiles, DeleteFilesFail, tables
<1>5. QED
  BY <1>1, <1>2, <1>3, <1>4 DEF Step, Delete

\* But for a merge that reads and a save that looks for its row, a step of a request
\* leaves it with nothing new to store, append or save.
LEMMA NothingNew ==
    ASSUME IInv, DataInv, NEW r \in Requests, Step(r) \/ StatementFails(r),
           ~MergeRead(r), ~SaveSelect(r),
           NEW q, req' = [s \in Requests |-> IF s = r THEN q ELSE req[s]]
    PROVE  q.at \notin {"insert", "mergeRead"} \cup Saving
<1>1. ASSUME Answer(r) PROVE q.at = "idle"
  BY <1>1 DEF Answer, IInv, SlotsSound, Idle
<1>2. ASSUME NEW at, Goto(r, at), req[r].at # "idle" PROVE q.at = at
  <2>1. q = [req[r] EXCEPT !.at = at]
    BY <1>2 DEF Goto, IInv, SlotsSound
  <2>2. QED
    BY <1>2, <2>1, WellHeld DEF Holder
<1>3. CASE Save(r) \/ StatementFails(r) \/ Delete(r)
  <2>1. Answer(r) \/ (Goto(r, "remove") /\ req[r].at # "idle")
    BY <1>3 DEF Save, MergeReadNothing, SaveSelectSame, SaveWrite, SaveReinsert,
       SaveRefused, StatementFails, Delete, DeleteTimetableFiles, DeleteFilesFail,
       RemoveTimetable, Saved, Refuse
  <2>2. QED
    BY <1>1, <1>2, <2>1 DEF Saving
<1>4. CASE InsertTimetable(r)
  <2>1. PICK at \in {"upload", "complete"} :
            req' = [req EXCEPT ![r].at = at, ![r].tid = created + 1]
    BY <1>4 DEF InsertTimetable
  <2>2. q = [req[r] EXCEPT !.at = at, !.tid = created + 1]
    BY <2>1 DEF IInv, SlotsSound
  <2>3. req[r] \in Holder
    BY <1>4, WellHeld DEF InsertTimetable
  <2>4. QED
    BY <2>2, <2>3 DEF Holder, Saving
<1>5. CASE FindOptions(r)
  <2> DEFINE d == req[r].dept
             new == CoursesOf(req[r].given)
             at == IF d \in DOMAIN options THEN "mergeOptions" ELSE "selectOptions"
             o == IF d \in DOMAIN options THEN options[d] \cup new ELSE new
  <2>1. req' = [req EXCEPT ![r].at = at, ![r].options = o]
    BY <1>5 DEF FindOptions
  <2>2. at \in {"mergeOptions", "selectOptions"}
    OBVIOUS
  <2>3. req[r] \in Holder
    BY <1>5, WellHeld DEF FindOptions
  <2> HIDE DEF at, o
  <2>4. q = [req[r] EXCEPT !.at = at, !.options = o]
    BY <2>1 DEF IInv, SlotsSound
  <2>5. QED
    BY <2>2, <2>3, <2>4 DEF Holder, Saving
<1>6. CASE Upload(r) /\ ~InsertTimetable(r) /\ ~FindOptions(r)
  <2>1. \/ Answer(r)
        \/ \E at \in {"complete", "point", "findOptions", "mergeOptions", "insertOptions"} :
              Goto(r, at) /\ req[r].at # "idle"
    BY <1>6 DEF Upload, UploadUnreadable, UploadTimetableFile, UploadFileFails,
       UpdateTimetableHistory, PointDepartment, MergeOptions, SelectOptions,
       InsertOptions, InsertOptionsRefused, UploadDone, Refuse
  <2>2. QED
    BY <1>1, <1>2, <2>1 DEF Saving
<1>7. QED
  BY <1>3, <1>4, <1>5, <1>6 DEF Step

\* A row of the department, or none, gives way to what a request saves.
LEMMA SaveServed ==
    ASSUME NEW r \in Requests, req[r].at \in Saving,
           Drafts' \in {Drafts, Drafts \ {Drafted(req[r])}},
           timetables' = {t \in timetables : t.id # req[r].tid} \cup {Drafted(req[r])},
           UNCHANGED created
    PROVE  Store!Next
<1>1. Drafted(req[r]) \in Drafts
  BY DEF Drafts, Saving
<1>2. Drafted(req[r]).id = req[r].tid
  BY DEF Drafted
<1>3. Store!Put(Drafted(req[r]))
  BY <1>2 DEF Store!Put
<1>4. QED
  BY <1>1, <1>3 DEF Store!Next

LEMMA StoreStep ==
    ASSUME IInv, DataInv, StoreInv, NEW r \in Requests, Step(r) \/ StatementFails(r)
    PROVE  StoreInv' /\ [Store!Next]_(Store!vars)
<1> PICK q : /\ req' = [s \in Requests |-> IF s = r THEN q ELSE req[s]]
             /\ Onward(r, q)
  BY StepMoves
<1>1. ASSUME Given(q) PROVE StoreInv'
  BY <1>1 DEF StoreInv, Given
<1>2. CASE MergeRead(r)
  <2>1. PICK t \in timetables :
            /\ IsNewest(t, timetables) /\ t.dept = req[r].dept
            /\ req' = [req EXCEPT ![r].at = "select", ![r].tid = t.id,
                                  ![r].entries = t.entries \o req[r].given]
    BY <1>2 DEF MergeRead, TimetablesOf
  <2>2. req[r] \in Holder /\ req[r].at = "mergeRead" /\ req[r].given \in Additions
    BY <1>2, WellHeld DEF MergeRead, StoreInv, Given
  <2>3. q = [req[r] EXCEPT !.at = "select", !.tid = t.id, !.entries = t.entries \o req[r].given]
    BY <2>1 DEF IInv, SlotsSound
  <2>4. /\ q.at = "select" /\ q.tid = t.id /\ q.dept = t.dept
        /\ q.entries = t.entries \o req[r].given
    BY <2>1, <2>2, <2>3 DEF Holder
  <2>5. t \in Row
    BY DEF DataInv, TypeOK
  <2>6. Drafted(q) = [t EXCEPT !.entries = t.entries \o req[r].given]
    <3>1. q.tid = t.id /\ q.dept = t.dept
      BY <2>4
    <3>2. Drafted(q) = [t EXCEPT !.entries = q.entries]
      BY <2>5, <3>1 DEF Drafted, Row
    <3>3. QED
      BY <2>4, <3>2
  <2>7. Drafts' = Drafts \cup {Drafted(q)}
    BY <2>2, <2>4, DraftsMove DEF Saving
  <2>8. UNCHANGED <<timetables, created>>
    BY <1>2 DEF MergeRead, tables, counts
  <2>9. t \in Store!Newest(timetables)
    BY <2>1 DEF Store!Newest, IsNewest
  <2>10. Store!Merge(t)
    BY <2>2, <2>6, <2>7, <2>8 DEF Store!Merge, Store!Draft
  <2>11. QED
    BY <1>1, <2>4, <2>9, <2>10 DEF Given, Store!Next
<1>3. CASE SaveSelect(r)
  <2>1. PICK at \in {"write", "reinsert"} : req' = [req EXCEPT ![r].at = at]
    BY <1>3 DEF SaveSelect, Goto
  <2>2. req[r] \in Holder /\ req[r].at = "select"
    BY <1>3, WellHeld DEF SaveSelect
  <2>3. q = [req[r] EXCEPT !.at = at]
    BY <2>1 DEF IInv, SlotsSound
  <2>4. q.at = at /\ q.tid = req[r].tid /\ q.dept = req[r].dept /\ q.entries = req[r].entries
    BY <2>2, <2>3 DEF Holder
  <2>5. Drafts' = Drafts
    BY <2>1, <2>2, <2>4, DraftsMove DEF Saving, Drafted
  <2>6. UNCHANGED <<timetables, created>>
    BY <1>3 DEF SaveSelect, tables, counts
  <2>7. QED
    BY <1>1, <2>1, <2>4, <2>5, <2>6, Dropped DEF Given
<1>4. CASE ~MergeRead(r) /\ ~SaveSelect(r)
  <2>1. q.at \notin {"insert", "mergeRead"} \cup Saving
    BY <1>4, NothingNew
  <2>2. StoreInv'
    BY <1>1, <2>1 DEF Given
  <2>3. CASE InsertTimetable(r)
    <3>1. req[r] \in Holder /\ req[r].at = "insert"
      BY <2>3, WellHeld DEF InsertTimetable
    <3>2. req[r].dept \in Departments /\ req[r].entries \in {Valid(sheet) : sheet \in Sheets}
      BY <3>1 DEF Holder, StoreInv, Given
    <3>3. Drafts' = Drafts
      BY <2>1, <3>1, DraftsMove DEF Saving
    <3>4. /\ created' = created + 1
          /\ timetables' = timetables \cup
                {[id |-> created + 1, dept |-> req[r].dept, entries |-> req[r].entries]}
      BY <2>3 DEF InsertTimetable
    <3>5. Store!Add(req[r].dept, req[r].entries)
      BY <3>3, <3>4 DEF Store!Add
    <3>6. QED
      BY <2>2, <3>2, <3>5 DEF Store!Next
  <2>4. CASE SaveWrite(r)
    <3>1. /\ req[r].at = "write" /\ req[r] # Idle /\ req[r] \in Holder
          /\ <<req[r].tid, req[r].dept>> \in Homes
          /\ timetables' = SetEntries(timetables, req[r].tid, req[r].entries)
          /\ UNCHANGED created
      BY <2>4, HeldHome DEF SaveWrite, counts
    <3>2. Drafts' \in {Drafts, Drafts \ {Drafted(req[r])}} /\ Drafts' \in SUBSET Drafts
      BY <2>1, DraftsMove
    <3>3. ASSUME NEW t \in timetables, t.id = req[r].tid
          PROVE  Store!Next
      <4>1. t \in Row /\ <<t.id, t.dept>> \in Homes
        BY RowKnown
      <4>2. t.dept = req[r].dept
        <5>1. <<t.id, t.dept>>[1] = <<req[r].tid, req[r].dept>>[1]
          BY <3>3
        <5>2. <<t.id, t.dept>> = <<req[r].tid, req[r].dept>>
          BY <3>1, <4>1, <5>1 DEF DataInv, OneHome
        <5>3. QED
          BY <5>2
      <4>3. [t EXCEPT !.entries = req[r].entries] = Drafted(req[r])
        BY <3>3, <4>1, <4>2 DEF Row, Drafted
      <4>4. \A u \in timetables : u.id = req[r].tid => u = t
        BY <3>3 DEF DataInv, TypeOK
      <4>5. timetables' = {u \in timetables : u.id # req[r].tid} \cup {Drafted(req[r])}
        BY <3>1, <3>3, <4>3, <4>4 DEF SetEntries
      <4>6. QED
        BY <3>1, <3>2, <4>5, SaveServed DEF Saving
    <3>4. CASE \A t \in timetables : t.id # req[r].tid
      <4>1. UNCHANGED timetables
        BY <3>1, <3>4 DEF SetEntries
      <4>2. QED
        BY <2>2, <3>1, <3>2, <4>1, Dropped
    <3>5. QED
      BY <2>2, <3>3, <3>4
  <2>5. CASE SaveReinsert(r)
    <3>1. /\ req[r].at \in Saving
          /\ timetables = {t \in timetables : t.id # req[r].tid}
          /\ timetables' = timetables \cup {Drafted(req[r])}
          /\ UNCHANGED created
      BY <2>5 DEF SaveReinsert, Drafted, Saving, counts
    <3>2. Drafts' \in {Drafts, Drafts \ {Drafted(req[r])}}
      BY <2>1, DraftsMove
    <3>3. QED
      BY <2>2, <3>1, <3>2, SaveServed
  <2>6. CASE RemoveTimetable(r)
    <3>1. /\ timetables' = {t \in timetables : t.id # req[r].tid}
          /\ req[r].at = "remove"
          /\ UNCHANGED created
      BY <2>6 DEF RemoveTimetable, Without, counts
    <3>2. Drafts' = Drafts
      BY <2>1, <3>1, DraftsMove DEF Saving
    <3>3. ASSUME NEW t \in timetables, t.id = req[r].tid
          PROVE  Store!Next
      <4>1. timetables' = timetables \ {t}
        BY <3>1, <3>3 DEF DataInv, TypeOK
      <4>2. QED
        BY <3>1, <3>2, <4>1 DEF Store!Remove, Store!Next
    <3>4. CASE \A t \in timetables : t.id # req[r].tid
      <4>1. UNCHANGED timetables
        BY <3>1, <3>4
      <4>2. QED
        BY <2>2, <3>1, <3>2, <4>1, Dropped
    <3>5. QED
      BY <2>2, <3>3, <3>4
  <2>7. CASE ~InsertTimetable(r) /\ ~SaveWrite(r) /\ ~SaveReinsert(r) /\ ~RemoveTimetable(r)
    <3>1. UNCHANGED <<timetables, created>>
      BY <2>7, RowsRest
    <3>2. Drafts' \in SUBSET Drafts
      BY <2>1, DraftsMove
    <3>3. QED
      BY <2>2, <3>1, <3>2, Dropped
  <2>8. QED
    BY <2>3, <2>4, <2>5, <2>6, <2>7
<1>5. QED
  BY <1>2, <1>3, <1>4

LEMMA StoreClient ==
    ASSUME IInv, DataInv, StoreInv, NEW r \in Requests, Client(r)
    PROVE  StoreInv' /\ [Store!Next]_(Store!vars)
<1>1. req[r].at \notin Saving
  BY DEF Client, CreateTimetableHistory, MergeFindHistory, EditRead, DeleteFind, Begin, Idle, Saving
<1>2. ASSUME NEW q, req' = [req EXCEPT ![r] = q]
      PROVE  /\ req' = [s \in Requests |-> IF s = r THEN q ELSE req[s]]
             /\ Given(q) => StoreInv'
  <2>1. req' = [s \in Requests |-> IF s = r THEN q ELSE req[s]]
    BY <1>2 DEF IInv, SlotsSound
  <2>2. QED
    BY <2>1 DEF StoreInv, Given
<1>3. ASSUME NEW q, req' = [req EXCEPT ![r] = q], Given(q), q.at \notin Saving
      PROVE  StoreInv' /\ [Store!Next]_(Store!vars)
  <2>1. Drafts' \in SUBSET Drafts
    BY <1>2, <1>3, DraftsMove
  <2>2. UNCHANGED <<timetables, created>>
    BY ClientMoves
  <2>3. QED
    BY <1>2, <1>3, <2>1, <2>2, Dropped
<1>4. ASSUME NEW access, NEW d \in Departments, NEW sheet \in Sheets,
             CreateTimetableHistory(r, access, d, sheet)
      PROVE  StoreInv' /\ [Store!Next]_(Store!vars)
  <2> PICK q : q = Holding("insert", d, uploads + 1, 0, sheet, Valid(sheet))
    OBVIOUS
  <2>1. q.at = "insert" /\ q.entries = Valid(sheet)
    BY DEF Holding
  <2>2. Given(q) /\ q.at \notin Saving
    BY <2>1 DEF Given, Saving
  <2>3. QED
    BY <1>3, <1>4, <2>2 DEF CreateTimetableHistory, Begin
<1>5. ASSUME NEW access, NEW d \in Departments, NEW h \in history, NEW additions \in Additions,
             MergeFindHistory(r, access, d, h, additions)
      PROVE  StoreInv' /\ [Store!Next]_(Store!vars)
  <2> PICK q : q = Holding("mergeRead", d, None, 0, additions, <<>>)
    OBVIOUS
  <2>1. q.at = "mergeRead" /\ q.given = additions
    BY DEF Holding
  <2>2. Given(q) /\ q.at \notin Saving
    BY <2>1 DEF Given, Saving
  <2>3. QED
    BY <1>3, <1>5, <2>2 DEF MergeFindHistory, Begin
<1>6. ASSUME NEW access, NEW d \in Departments, NEW entries \in Edits,
             EditRead(r, access, d, entries)
      PROVE  StoreInv' /\ [Store!Next]_(Store!vars)
  <2>1. PICK t \in timetables : /\ t.dept = d /\ IsNewest(t, timetables)
                                /\ Begin(r, Holding("select", d, None, t.id, entries, entries))
    BY <1>6 DEF EditRead, TimetablesOf
  <2> PICK q : q = Holding("select", d, None, t.id, entries, entries)
    OBVIOUS
  <2>2. q.at = "select" /\ q.tid = t.id /\ q.dept = d /\ q.entries = entries
    BY DEF Holding
  <2>3. req' = [req EXCEPT ![r] = q]
    BY <2>1 DEF Begin
  <2>4. t \in Row
    BY DEF DataInv, TypeOK
  <2>5. Drafted(q) = [t EXCEPT !.entries = entries]
    BY <2>1, <2>2, <2>4 DEF Drafted, Row
  <2>6. Drafts' = Drafts \cup {Drafted(q)}
    BY <1>1, <1>2, <2>2, <2>3, DraftsMove DEF Saving
  <2>7. t \in Store!Newest(timetables)
    BY <2>1 DEF Store!Newest, IsNewest
  <2>8. UNCHANGED <<timetables, created>>
    BY ClientMoves
  <2>9. Store!Edit(t)
    BY <2>5, <2>6, <2>8 DEF Store!Edit, Store!Draft
  <2>10. Given(q)
    BY <2>2 DEF Given
  <2>11. QED
    BY <1>2, <2>3, <2>7, <2>9, <2>10 DEF Store!Next
<1>7. ASSUME NEW access, NEW t \in timetables, DeleteFind(r, access, t)
      PROVE  StoreInv' /\ [Store!Next]_(Store!vars)
  <2>1. PICK at \in {"deleteFiles", "remove"} :
            Begin(r, Holding(at, t.dept, None, t.id, <<>>, <<>>))
    BY <1>7 DEF DeleteFind
  <2> PICK q : q = Holding(at, t.dept, None, t.id, <<>>, <<>>)
    OBVIOUS
  <2>2. q.at = at
    BY DEF Holding
  <2>3. Given(q) /\ q.at \notin Saving
    BY <2>1, <2>2 DEF Given, Saving
  <2>4. QED
    BY <1>3, <2>1, <2>3 DEF Begin
<1>8. QED
  BY <1>4, <1>5, <1>6, <1>7 DEF Client

LEMMA StoreElsewhere ==
    ASSUME StoreInv, NEW d \in Departments, Elsewhere(d)
    PROVE  StoreInv' /\ [Store!Next]_(Store!vars)
<1>1. UNCHANGED <<req, created>>
  BY DEF Elsewhere, Meanwhile, DepartmentTimetablesDeleted, DepartmentHistoryDeleted,
         DepartmentOptionsDeleted, DepartmentRemoved, DepartmentCreated
<1>2. StoreInv' /\ UNCHANGED Drafts
  BY <1>1 DEF StoreInv, Given, Drafts, Drafted
<1>3. CASE DepartmentTimetablesDeleted(d)
  <2>1. timetables' = {t \in timetables : t.dept # d}
    BY <1>3 DEF DepartmentTimetablesDeleted, TimetablesOf
  <2>2. Store!RemoveAll(d)
    BY <1>1, <1>2, <2>1 DEF Store!RemoveAll
  <2>3. QED
    BY <1>2, <2>2 DEF Store!Next
<1>4. CASE ~DepartmentTimetablesDeleted(d)
  <2>1. UNCHANGED timetables
    BY <1>4 DEF Elsewhere, DepartmentHistoryDeleted, DepartmentOptionsDeleted,
                DepartmentRemoved, DepartmentCreated
  <2>2. QED
    BY <1>1, <1>2, <2>1, Dropped
<1>5. QED
  BY <1>3, <1>4

LEMMA StoreCrash ==
    ASSUME Crash
    PROVE  StoreInv' /\ [Store!Next]_(Store!vars)
<1>1. UNCHANGED <<timetables, created>> /\ req' = [r \in Requests |-> Idle]
  BY DEF Crash, tables
<1>2. \A r \in Requests : req'[r] = Idle
  BY <1>1
<1>3. StoreInv'
  BY <1>2 DEF StoreInv, Given, Idle
<1>4. Drafts' = {}
  BY <1>2 DEF Drafts, Idle
<1>5. QED
  BY <1>1, <1>3, <1>4, Dropped

LEMMA StoreInit == Init => StoreInv /\ Store!Init
<1>1. SUFFICES ASSUME Init PROVE StoreInv /\ Store!Init
  OBVIOUS
<1>2. timetables = {} /\ created = 0 /\ \A r \in Requests : req[r] = Idle
  BY <1>1 DEF Init
<1>3. Drafts = {}
  BY <1>2 DEF Drafts, Idle
<1>4. QED
  BY <1>2, <1>3 DEF StoreInv, Given, Idle, Store!Init

LEMMA StoreNext ==
    ASSUME IInv, DataInv, StoreInv, [Next]_vars
    PROVE  StoreInv' /\ [Store!Next]_(Store!vars)
<1>1. CASE UNCHANGED vars
  BY <1>1 DEF vars, tables, counts, StoreInv, Given, Drafts, Drafted, Store!vars
<1>2. QED
  BY <1>1, StoreStep, StoreClient, StoreElsewhere, StoreCrash DEF Next

-----------------------------------------------------------------------------
(* What the runs check.                                                    *)

\* Nobody is sent to the log of an upload that is under way or of another
\* department (processTimetable), however uploads, deletions and failures
\* interleave.
THEOREM PointersComplete == Spec => []CurrentCompleted
<1>1. IInv => CurrentCompleted
  BY DEF IInv
<1>2. QED
  BY <1>1, InvInit, InvNext, PTL DEF Spec

\* A history row in "processing" has an upload under way, or one that ended with an
\* error or a restart (processTimetable).
THEOREM LogsAttended == Spec => []ProcessingAttended
<1>1. IInv => ProcessingAttended
  BY DEF IInv
<1>2. QED
  BY <1>1, InvInit, InvNext, PTL DEF Spec

\* The tables and the requests of upload, editor and deletion hold what their types
\* say, and the ids of timetables and of history rows are unique, however the requests
\* interleave (TimetableService).
THEOREM TypeCorrect == Spec => []TypeOK
<1>1. DataInv => TypeOK
  BY DEF DataInv
<1>2. QED
  BY <1>1, InvInit, InvNext, DataInit, DataNext, PTL DEF Spec

\* A file that was stored stays until the deletion of its own timetable is asked
\* for (deleteTimetableFiles lists the prefix of one timetable): no other upload,
\* save, deletion or failure takes it away.
THEOREM FilesStay == Spec => []FileKept
<1>1. ASSUME DataInv, FilesInv PROVE FileKept
  <2>1. SUFFICES ASSUME NEW t \in timetables, t.id \in stored
                 PROVE  [dept |-> t.dept, id |-> t.id] \in files
    BY DEF FileKept
  <2>2. PICK f \in files : f.id = t.id
    BY <1>1, <2>1 DEF FilesInv
  <2>3. f = [dept |-> f.dept, id |-> f.id]
    BY <1>1 DEF DataInv, TypeOK
  <2>4. <<t.id, t.dept>> \in Homes /\ <<f.id, f.dept>> \in Homes
    BY DEF Homes
  <2>5. <<t.id, t.dept>> = <<f.id, f.dept>>
    BY <1>1, <2>2, <2>4 DEF DataInv, OneHome
  <2>6. QED
    BY <2>3, <2>5
<1>2. QED
  BY <1>1, InvInit, InvNext, DataInit, DataNext, FilesStayInit, FilesStayNext, PTL DEF Spec

\* The clashes that a completed history row shows are those of the timetable its
\* upload stored, as long as nobody changed that timetable's entries: no late save or
\* upload of another timetable gets in between (processTimetable).
THEOREM ClashesAgree == Spec => []ClashesOfUpload
<1>1. ClashInv => ClashesOfUpload
  BY DEF ClashInv
<1>2. QED
  BY <1>1, InvInit, InvNext, DataInit, DataNext, ClashInit, ClashNext, PTL DEF Spec

\* Requests of a department that did not overlap, fail or meet a deletion of it
\* leave what they would leave one after the other (processTimetable,
\* mergeSkippedClasses, updateTimetableEntriesFromEditor, deleteTimetable), whatever
\* the requests of other departments do in between.
THEOREM RunsInOrder == Spec => []SerialRuns
<1>1. SerialInv => SerialRuns
  BY DEF SerialInv, InOrder, SerialRuns
<1>2. QED
  BY <1>1, InvInit, InvNext, DataInit, DataNext, SerialInit, SerialNext, PTL DEF Spec

\* Without overlap, every course of an answered upload is offered by its department
\* (updateAvailableOptions).
THEOREM CoursesStayOffered == Spec => []CoursesOffered
<1>1. SerialInv => CoursesOffered
  BY DEF SerialInv, InOrder, Offered, CoursesOffered
<1>2. QED
  BY <1>1, InvInit, InvNext, DataInit, DataNext, SerialInit, SerialNext, PTL DEF Spec

\* However uploads, merges, edits and deletions overlap, fail or are cut by a restart,
\* timetables are documents of one department each, and what a save puts there is an
\* edit, or classes appended to the version of that very timetable which was the
\* department's newest when it was read (TimetableService).
THEOREM TimetablesAreStore == Spec => KeepsStore
<1>1. Init => IInv /\ DataInv /\ StoreInv /\ Store!Init
  BY InvInit, DataInit, StoreInit
<1>2. ASSUME IInv, DataInv, StoreInv, [Next]_vars
      PROVE  IInv' /\ DataInv' /\ StoreInv' /\ [Store!Next]_(Store!vars)
  BY <1>2, InvNext, DataNext, StoreNext
<1>3. QED
  BY <1>1, <1>2, PTL DEF Spec, KeepsStore, Store!Spec
=============================================================================
