-------------------------- MODULE NotificationProofs --------------------------
(***************************************************************************)
(* The safety of push notifications for any users, tokens, departments,    *)
(* slots, batches, attempts, jobs and restarts: types, devices, counts of  *)
(* a job's tries, its log rows, and that every step is one of AtLeastOnce  *)
(* or none.                                                                *)
(*                                                                         *)
(* What happened to an entry of a job in work is known only together with  *)
(* what its worker has left, so the invariants come in pairs: one of the   *)
(* tables and one of the worker (DevicesOK and Remembered, TriesOK and     *)
(* RunTried, LogsOK and RunCounted).                                       *)
(***************************************************************************)
EXTENDS Notification, TLAPS, SequenceTheorems, FiniteSetTheorems

Ids(entries) == {e.id : e \in entries}

\* The entries of a job come from different devices.
Distinct(entries) == \A e, f \in entries : e.id = f.id => e = f

GoodPart == {p \in Part : p.entries # {} /\ Distinct(p.entries)}

\* A job that is still open has a try left.
GoodJob == {x \in Job : /\ x.part \in GoodPart
                        /\ x.status \notin {"completed", "failed"} => x.attempts < Attempts}

JobsOK == jobs \in Seq(GoodJob) /\ Len(jobs) <= MaxJobs

GoodRequest ==
    Request \cup {Adding(parts) : parts \in {s \in Seq(GoodPart) : Len(s) \in 1 .. 2}}

Worker == [at : WorkerLabel, job : Nat, left : SUBSET Entry,
           delivered : Nat, failed : Nat, invalid : SUBSET Entry]

EntriesOfJob(j) == jobs[j].part.entries

\* A worker that is not free holds an active job of its queue.
Holds(k) ==
    /\ worker[k].at # "free"
    /\ worker[k].job \in DOMAIN jobs
    /\ jobs[worker[k].job].status = "active"
    /\ jobs[worker[k].job].part.kind = k
    /\ worker[k].left \subseteq EntriesOfJob(worker[k].job)
    /\ worker[k].invalid \subseteq EntriesOfJob(worker[k].job)
    /\ worker[k].at # "send" => worker[k].left = {}

WorkersOK == worker \in [Kinds -> Worker] /\ \A k \in Kinds : worker[k] = Free \/ Holds(k)

\* Rows, requests, and what is remembered of tokens: a registration that has found
\* its row finds it again, unless the token was given up meanwhile.
Remembered(r) ==
    req[r].at = "regUpdate" /\ req[r].token \notin removable =>
        \E x \in devices : x.id = req[r].id /\ x.user = req[r].user /\ x.token = req[r].token

DevicesOK ==
    /\ devices \subseteq Device
    /\ stored \in 0 .. MaxRows
    /\ \A x \in devices : x.id <= stored
    /\ UniqueDevices

TableInv ==
    /\ DevicesOK
    /\ req \in [Requests -> GoodRequest]
    /\ crashes \in 0 .. MaxCrashes
    /\ \A r \in Requests : Remembered(r)
    /\ \A k \in Kinds : \A e \in worker[k].invalid : e.token \in removable
    /\ RegisteredStays

\* What is known of a job x with tries n, confirmed entries and log rows: how often
\* an entry was tried follows from the runs that ended, and one that may be under way.
JobFits(x, n, sent, rows) ==
    /\ \A id \in RowIds :
          /\ n[id] <= Attempts + MaxStalls
          /\ id \notin Ids(x.part.entries) => n[id] = 0
          /\ x.status \in {"waiting", "delayed"} => n[id] <= x.attempts + x.stalls
          /\ x.status = "active" => n[id] <= x.attempts + x.stalls + 1
          /\ x.status = "completed" /\ id \in Ids(x.part.entries) => n[id] > 0
    /\ sent \subseteq x.part.entries
    /\ \A i \in DOMAIN rows :
          /\ rows[i].total = Cardinality(x.part.entries)
          /\ rows[i].delivered + rows[i].failed = rows[i].total
          /\ rows[i].delivered <= Cardinality(sent)
    /\ x.status = "completed" => \E i \in DOMAIN rows : ~rows[i].error

\* What is known of the run w of job x: entries it has left were not tried in it, the
\* others were, and are counted.
RunFits(w, x, n, sent, rows) ==
    /\ \A id \in Ids(w.left) : n[id] <= x.attempts + x.stalls
    /\ \A id \in Ids(x.part.entries) : id \in Ids(w.left) \/ n[id] > 0
    /\ w.delivered + w.failed = Cardinality(x.part.entries \ w.left)
    /\ w.delivered <= Cardinality(sent \ w.left)
    /\ w.at = "finish" => \E i \in DOMAIN rows : ~rows[i].error

Fits(j) ==
    IF j \in DOMAIN jobs THEN JobFits(jobs[j], tries[j], confirmed[j], logs[j])
    ELSE (\A id \in RowIds : tries[j][id] = 0) /\ confirmed[j] = {} /\ logs[j] = <<>>

Runs(k) ==
    worker[k] # Free =>
        RunFits(worker[k], jobs[worker[k].job], tries[worker[k].job],
                confirmed[worker[k].job], logs[worker[k].job])

JobInv ==
    /\ JobsOK
    /\ WorkersOK
    /\ logs \in [JobIds -> Seq(LogRow)]
    /\ tries \in [JobIds -> [RowIds -> Nat]]
    /\ confirmed \in [JobIds -> SUBSET Entry]
    /\ \A j \in JobIds : Fits(j)
    /\ \A k \in Kinds : Runs(k)

IInv == TableInv /\ JobInv

-----------------------------------------------------------------------------
(* Lemmas on parts, jobs and workers.                                      *)

\* Devices are stored once per id, so what is read of them is a good part.
LEMMA EntriesGood ==
    ASSUME DevicesOK, NEW rows \in SUBSET devices, rows # {},
           NEW kind \in Kinds, NEW platform \in {"ios", "android"}
    PROVE  [kind |-> kind, platform |-> platform, entries |-> EntriesOf(rows)] \in GoodPart
<1>1. \A x \in rows : x.id \in RowIds /\ x.token \in Tokens
  BY DEF DevicesOK, Device
<1>2. EntriesOf(rows) \subseteq Entry /\ EntriesOf(rows) # {}
  <2>1. \A x \in rows : [id |-> x.id, token |-> x.token] \in Entry
    BY <1>1 DEF Entry
  <2>2. QED
    BY <2>1 DEF EntriesOf
<1>3. Distinct(EntriesOf(rows))
  <2> SUFFICES ASSUME NEW x \in rows, NEW y \in rows, x.id = y.id PROVE x.token = y.token
    BY DEF Distinct, EntriesOf
  <2>1. QED
    BY DEF DevicesOK, UniqueDevices
<1>4. QED
  BY <1>2, <1>3 DEF GoodPart, Part

\* No part, or one, for the rows of a platform.
LEMMA OnePart ==
    ASSUME DevicesOK, NEW rows \in SUBSET devices,
           NEW kind \in Kinds, NEW platform \in {"ios", "android"}, NEW parts,
           parts = IF rows = {} THEN <<>>
                   ELSE <<[kind |-> kind, platform |-> platform, entries |-> EntriesOf(rows)]>>
    PROVE  parts \in Seq(GoodPart) /\ Len(parts) = IF rows = {} THEN 0 ELSE 1
<1>1. CASE rows = {}
  BY <1>1, EmptySeq
<1>2. CASE rows # {}
  <2>1. PICK p \in GoodPart :
            p = [kind |-> kind, platform |-> platform, entries |-> EntriesOf(rows)]
    BY <1>2, EntriesGood
  <2>2. parts = <<p>>
    BY <1>2, <2>1
  <2>3. QED
    BY <1>2, <2>2
<1>3. QED
  BY <1>1, <1>2

LEMMA PartsGood ==
    ASSUME DevicesOK, NEW rows \in SUBSET devices, rows # {}, NEW kind \in Kinds
    PROVE  PartsOf(kind, rows) \in Seq(GoodPart) /\ Len(PartsOf(kind, rows)) \in 1 .. 2
<1>1. PICK ios \in SUBSET devices : ios = {x \in rows : x.platform = "ios"}
  OBVIOUS
<1>2. PICK others \in SUBSET devices : others = rows \ ios
  OBVIOUS
<1>3. PICK a : a = IF ios = {} THEN <<>>
                   ELSE <<[kind |-> kind, platform |-> "ios", entries |-> EntriesOf(ios)]>>
  OBVIOUS
<1>4. PICK b : b = IF others = {} THEN <<>>
                   ELSE <<[kind |-> kind, platform |-> "android", entries |-> EntriesOf(others)]>>
  OBVIOUS
<1>5. PartsOf(kind, rows) = a \o b
  BY <1>1, <1>2, <1>3, <1>4 DEF PartsOf
<1>6. a \in Seq(GoodPart) /\ Len(a) = IF ios = {} THEN 0 ELSE 1
  BY <1>3, OnePart
<1>7. b \in Seq(GoodPart) /\ Len(b) = IF others = {} THEN 0 ELSE 1
  BY <1>4, OnePart
<1>8. ios # {} \/ others # {}
  BY <1>1, <1>2
<1>9. a \o b \in Seq(GoodPart) /\ Len(a \o b) = Len(a) + Len(b)
  BY <1>6, <1>7, ConcatProperties
<1>10. QED
  BY <1>5, <1>6, <1>7, <1>8, <1>9

\* A job has finitely many entries: at most one for each device ever stored.
LEMMA PartFinite ==
    ASSUME NEW p \in GoodPart, NEW some \in SUBSET p.entries
    PROVE  IsFiniteSet(some) /\ Cardinality(some) \in Nat
<1> DEFINE f == [e \in some |-> e.id]
<1>1. \A e \in some : e.id \in RowIds
  BY DEF GoodPart, Part, Entry
<1>2. \A e, g \in some : e.id = g.id => e = g
  BY DEF GoodPart, Distinct
<1>3. f \in Injection(some, RowIds)
  BY <1>1, <1>2 DEF Injection, IsInjective
<1>4. IsFiniteSet(RowIds)
  BY FS_Interval, NotificationAssumption DEF RowIds
<1>5. QED
  BY <1>3, <1>4, FS_Injection, FS_CardinalityType

\* The jobs are numbered from 1, within the bound.
LEMMA JobFacts ==
    ASSUME JobsOK
    PROVE  /\ Len(jobs) \in Nat
           /\ DOMAIN jobs = 1 .. Len(jobs)
           /\ DOMAIN jobs \subseteq JobIds
           /\ \A j \in DOMAIN jobs : jobs[j] \in GoodJob
<1>1. Len(jobs) \in Nat /\ DOMAIN jobs = 1 .. Len(jobs)
  BY LenProperties DEF JobsOK
<1>2. \A j \in DOMAIN jobs : jobs[j] \in GoodJob
  BY <1>1, ElementOfSeq DEF JobsOK
<1>3. DOMAIN jobs \subseteq JobIds
  BY <1>1, NotificationAssumption DEF JobsOK, JobIds
<1>4. QED
  BY <1>1, <1>2, <1>3

\* A step that changes one job leaves the others, and how many there are.
LEMMA OneJob ==
    ASSUME JobsOK, NEW j \in DOMAIN jobs, NEW x \in GoodJob, jobs' = [jobs EXCEPT ![j] = x]
    PROVE  /\ JobsOK'
           /\ DOMAIN jobs' = DOMAIN jobs
           /\ \A i \in DOMAIN jobs : jobs'[i] = IF i = j THEN x ELSE jobs[i]
<1>1. j \in 1 .. Len(jobs)
  BY JobFacts
<1>2. /\ jobs' \in Seq(GoodJob)
      /\ Len(jobs') = Len(jobs)
      /\ \A i \in 1 .. Len(jobs) : jobs'[i] = IF i = j THEN x ELSE jobs[i]
  BY <1>1, ExceptSeq DEF JobsOK
<1>3. DOMAIN jobs' = 1 .. Len(jobs)
  BY <1>2, LenProperties
<1>4. QED
  BY <1>2, <1>3, JobFacts DEF JobsOK

\* A job that is added comes after the others, which stay.
LEMMA NewJob ==
    ASSUME JobsOK, Len(jobs) < MaxJobs, NEW x \in GoodJob, jobs' = Append(jobs, x)
    PROVE  /\ JobsOK'
           /\ Len(jobs) + 1 \notin DOMAIN jobs
           /\ Len(jobs) + 1 \in JobIds
           /\ DOMAIN jobs' = DOMAIN jobs \cup {Len(jobs) + 1}
           /\ jobs'[Len(jobs) + 1] = x
           /\ \A i \in DOMAIN jobs : jobs'[i] = jobs[i]
<1>1. Len(jobs) \in Nat /\ DOMAIN jobs = 1 .. Len(jobs)
  BY JobFacts
<1>2. /\ jobs' \in Seq(GoodJob)
      /\ Len(jobs') = Len(jobs) + 1
      /\ \A i \in 1 .. Len(jobs) : jobs'[i] = jobs[i]
      /\ jobs'[Len(jobs) + 1] = x
  BY AppendProperties DEF JobsOK
<1>3. DOMAIN jobs' = 1 .. Len(jobs) + 1
  BY <1>2, LenProperties
<1>4. Len(jobs) + 1 <= MaxJobs /\ Len(jobs) + 1 \in JobIds
  BY <1>1, NotificationAssumption DEF JobIds
<1>5. QED
  BY <1>1, <1>2, <1>3, <1>4 DEF JobsOK

\* What the steps of Bull make of a job is a job.
LEMMA JobValues ==
    ASSUME NEW x \in GoodJob
    PROVE  /\ \A s \in {"completed", "failed"} : [x EXCEPT !.status = s] \in GoodJob
           /\ x.attempts < Attempts => \A s \in {"waiting", "active", "delayed"} :
                  [x EXCEPT !.status = s] \in GoodJob
           /\ x.attempts < Attempts /\ x.stalls < MaxStalls =>
                  [x EXCEPT !.stalls = @ + 1, !.status = "waiting"] \in GoodJob
           /\ x.attempts < Attempts =>
                  [x EXCEPT !.attempts = @ + 1,
                            !.status = IF x.attempts + 1 < Attempts THEN "delayed" ELSE "failed"]
                      \in GoodJob
<1>1. x \in Job /\ x.part \in GoodPart
  BY DEF GoodJob
<1>2. ASSUME NEW s \in {"completed", "failed"} PROVE [x EXCEPT !.status = s] \in GoodJob
  BY <1>1, <1>2 DEF GoodJob, Job
<1>3. ASSUME x.attempts < Attempts, NEW s \in {"waiting", "active", "delayed"}
      PROVE  [x EXCEPT !.status = s] \in GoodJob
  BY <1>1, <1>3 DEF GoodJob, Job
<1>4. ASSUME x.attempts < Attempts, x.stalls < MaxStalls
      PROVE  [x EXCEPT !.stalls = @ + 1, !.status = "waiting"] \in GoodJob
  <2>1. x.stalls + 1 \in 0 .. MaxStalls
    BY <1>1, <1>4 DEF Job, MaxStalls
  <2>2. QED
    BY <1>1, <1>4, <2>1 DEF GoodJob, Job
<1>5. ASSUME x.attempts < Attempts,
             NEW s, s = IF x.attempts + 1 < Attempts THEN "delayed" ELSE "failed"
      PROVE  [x EXCEPT !.attempts = @ + 1, !.status = s] \in GoodJob
  <2>1. x.attempts + 1 \in 0 .. Attempts
    BY <1>1, <1>5, NotificationAssumption DEF Job
  <2>2. QED
    BY <1>1, <1>5, <2>1 DEF GoodJob, Job
<1>6. QED
  BY <1>2, <1>3, <1>4, <1>5

-----------------------------------------------------------------------------
(* The tables: devices, registrations, requests.                           *)

\* What was registered stays as long as rows go with their tokens given up.
LEMMA Kept ==
    ASSUME TableInv, removable \subseteq removable', registered' = registered,
           \A r \in Requests : req'[r] = req[r] \/ req'[r].at # "regUpdate",
           \A x \in devices : x.token \notin removable' =>
               \E y \in devices' : y.id = x.id /\ y.user = x.user /\ y.token = x.token
    PROVE  RegisteredStays' /\ \A r \in Requests : Remembered(r)'
<1>1. ASSUME NEW ut \in registered', ut[2] \notin removable' PROVE DevicesOf(ut[1], ut[2])' # {}
  <2>1. PICK x \in devices : x.user = ut[1] /\ x.token = ut[2]
    BY <1>1 DEF TableInv, RegisteredStays, DevicesOf
  <2>2. PICK y \in devices' : y.user = x.user /\ y.token = x.token
    BY <1>1, <2>1
  <2>3. QED
    BY <2>1, <2>2 DEF DevicesOf
<1>2. ASSUME NEW r \in Requests PROVE Remembered(r)'
  <2> SUFFICES ASSUME req'[r].at = "regUpdate", req'[r].token \notin removable'
               PROVE  \E y \in devices' : /\ y.id = req'[r].id /\ y.user = req'[r].user
                                           /\ y.token = req'[r].token
    BY DEF Remembered
  <2>1. req'[r] = req[r]
    OBVIOUS
  <2>2. PICK x \in devices : x.id = req[r].id /\ x.user = req[r].user /\ x.token = req[r].token
    BY <2>1 DEF TableInv, Remembered
  <2>3. QED
    BY <2>1, <2>2
<1>3. QED
  BY <1>1, <1>2 DEF RegisteredStays

\* Fewer rows are still unique.
LEMMA Fewer ==
    ASSUME DevicesOK, devices' \subseteq devices, stored' = stored
    PROVE  DevicesOK'
BY DEF DevicesOK, UniqueDevices

\* A step of the worker that gives up no token leaves the tables.
LEMMA TablesSame ==
    ASSUME TableInv, UNCHANGED <<devices, stored, registered>>,
           removable \subseteq removable', crashes' \in 0 .. MaxCrashes,
           req' \in [Requests -> GoodRequest],
           \A r \in Requests : req'[r] = req[r] \/ req'[r].at # "regUpdate",
           \A k \in Kinds : \A e \in worker'[k].invalid : e.token \in removable'
    PROVE  TableInv'
<1>1. DevicesOK'
  BY DEF TableInv, DevicesOK, UniqueDevices
<1>2. RegisteredStays' /\ \A r \in Requests : Remembered(r)'
  BY Kept
<1>3. QED
  BY <1>1, <1>2 DEF TableInv

LEMMA IdleGood == Idle \in GoodRequest /\ Idle.at = "idle"
BY DEF Idle, GoodRequest, Request

LEMMA RequestFields ==
    ASSUME NEW q \in GoodRequest
    PROVE  /\ q.at = "regInsert" =>
                  /\ q.user \in Users /\ q.token \in Tokens
                  /\ q.platform \in Platforms /\ q.dept \in Departments0
           /\ q.at = "regUpdate" =>
                  /\ q.id \in RowIds /\ q.user \in Users /\ q.token \in Tokens
                  /\ q.platform \in Platforms /\ q.dept \in Departments0
           /\ q.at = "add" => q.parts \in Seq(GoodPart) /\ Len(q.parts) \in 1 .. 2
<1>1. CASE q = Idle
  BY <1>1 DEF Idle
<1>2. CASE \E u \in Users, t \in Tokens, p \in Platforms, d \in Departments0 :
              q = Registering("regInsert", 0, u, t, p, d)
  BY <1>2 DEF Registering
<1>3. CASE \E id \in RowIds, u \in Users, t \in Tokens, p \in Platforms, d \in Departments0 :
              q = Registering("regUpdate", id, u, t, p, d)
  BY <1>3 DEF Registering
<1>4. CASE \E parts \in Seq(GoodPart) : Len(parts) \in 1 .. 2 /\ q = Adding(parts)
  BY <1>4 DEF Adding
<1>5. QED
  BY <1>1, <1>2, <1>3, <1>4 DEF GoodRequest, Request

LEMMA FindKeeps ==
    ASSUME TableInv, NEW r \in Requests, NEW u \in Users, NEW t \in Tokens,
           NEW p \in Platforms, NEW d \in Departments0, RegisterFind(r, u, t, p, d)
    PROVE  TableInv'
<1>1. UNCHANGED <<devices, stored, worker, crashes, registered, removable>>
  BY DEF RegisterFind, history
<1>2. DevicesOK'
  BY <1>1 DEF TableInv, DevicesOK, UniqueDevices
<1>3. PICK q : /\ req' = [req EXCEPT ![r] = q]
               /\ \/ q = Registering("regInsert", 0, u, t, p, d)
                  \/ \E x \in DevicesOf(u, t) : q = Registering("regUpdate", x.id, u, t, p, d)
  BY DEF RegisterFind
<1>4. /\ q \in GoodRequest
      /\ q.at = "regUpdate" => \E x \in devices : x.id = q.id /\ x.user = q.user /\ x.token = q.token
  <2>1. CASE q = Registering("regInsert", 0, u, t, p, d)
    BY <2>1 DEF Registering, GoodRequest, Request
  <2>2. ASSUME NEW x \in DevicesOf(u, t), q = Registering("regUpdate", x.id, u, t, p, d)
        PROVE  <1>4!1 /\ <1>4!2
    <3>1. x \in devices /\ x.user = u /\ x.token = t /\ x.id \in RowIds
      BY DEF DevicesOf, TableInv, DevicesOK, Device
    <3>2. q.id = x.id /\ q.user = u /\ q.token = t
      BY <2>2 DEF Registering
    <3>3. QED
      BY <2>2, <3>1, <3>2 DEF GoodRequest, Request
  <2>3. QED
    BY <1>3, <2>1, <2>2
<1>5. req' \in [Requests -> GoodRequest]
  BY <1>3, <1>4 DEF TableInv
<1>6. \A s \in Requests : Remembered(s)'
  BY <1>1, <1>3, <1>4 DEF TableInv, Remembered
<1>7. RegisteredStays'
  BY <1>1 DEF TableInv, RegisteredStays, DevicesOf
<1>8. QED
  BY <1>1, <1>2, <1>5, <1>6, <1>7 DEF TableInv

\* The update finds the row that the request saw, or its token was given up.
LEMMA UpdateKeeps ==
    ASSUME TableInv, NEW r \in Requests, RegisterUpdate(r)
    PROVE  TableInv'
<1>1. UNCHANGED <<stored, worker, crashes, removable>> /\ req[r].at = "regUpdate"
  BY DEF RegisterUpdate
<1>2. PICK q \in GoodRequest : q = req[r] /\ q.id \in RowIds /\ q.platform \in Platforms
                               /\ q.dept \in Departments0
  BY <1>1, RequestFields DEF TableInv
<1>3. req' = [req EXCEPT ![r] = Idle] /\ registered' = registered \cup {<<q.user, q.token>>}
  BY <1>2 DEF RegisterUpdate, Answer
<1> DEFINE new(x) == [x EXCEPT !.platform = q.platform,
                               !.dept = IF q.dept = None THEN @ ELSE q.dept]
<1>4. devices' = {IF x.id = q.id THEN new(x) ELSE x : x \in devices}
  BY <1>2 DEF RegisterUpdate
<1>5. \A x \in devices : new(x) \in Device /\ new(x).id = x.id /\ new(x).user = x.user
                          /\ new(x).token = x.token
  BY <1>2 DEF TableInv, DevicesOK, Device
<1> HIDE DEF new
<1>6. \A y \in devices' : /\ y \in Device
                           /\ \E x \in devices : /\ y.id = x.id /\ y.user = x.user /\ y.token = x.token
                                                  /\ y = IF x.id = q.id THEN new(x) ELSE x
  BY <1>4, <1>5 DEF TableInv, DevicesOK
<1>7. \A x \in devices : \E y \in devices' : y.id = x.id /\ y.user = x.user /\ y.token = x.token
  BY <1>4, <1>5
<1>8. DevicesOK'
  <2>1. UniqueDevices'
    <3> SUFFICES ASSUME NEW y \in devices', NEW z \in devices',
                        y.id = z.id \/ (y.user = z.user /\ y.token = z.token)
                 PROVE  y = z
      BY DEF UniqueDevices
    <3>1. PICK x \in devices : /\ y.id = x.id /\ y.user = x.user /\ y.token = x.token
                               /\ y = IF x.id = q.id THEN new(x) ELSE x
      BY <1>6
    <3>2. PICK v \in devices : /\ z.id = v.id /\ z.user = v.user /\ z.token = v.token
                               /\ z = IF v.id = q.id THEN new(v) ELSE v
      BY <1>6
    <3>3. x = v
      BY <3>1, <3>2 DEF TableInv, DevicesOK, UniqueDevices
    <3>4. QED
      BY <3>1, <3>2, <3>3
  <2>2. QED
    BY <1>1, <1>6, <2>1 DEF TableInv, DevicesOK
<1>9. q.token \notin removable =>
          \E x \in devices : x.user = q.user /\ x.token = q.token
  BY <1>1, <1>2 DEF TableInv, Remembered
<1>10. RegisteredStays'
  <2> SUFFICES ASSUME NEW ut \in registered', ut[2] \notin removable
               PROVE  \E y \in devices' : y.user = ut[1] /\ y.token = ut[2]
    BY <1>1 DEF RegisteredStays, DevicesOf
  <2>1. PICK x \in devices : x.user = ut[1] /\ x.token = ut[2]
    BY <1>3, <1>9 DEF TableInv, RegisteredStays, DevicesOf
  <2>2. QED
    BY <1>7, <2>1
<1>11. ASSUME NEW s \in Requests PROVE Remembered(s)'
  <2>1. CASE s = r
    BY <1>3, <2>1, IdleGood DEF Remembered, TableInv
  <2>2. CASE s # r
    <3>1. req'[s] = req[s]
      BY <1>3, <2>2 DEF TableInv
    <3>2. QED
      BY <1>1, <1>7, <3>1 DEF TableInv, Remembered
  <2>3. QED
    BY <2>1, <2>2
<1>12. req' \in [Requests -> GoodRequest]
  BY <1>3, IdleGood DEF TableInv
<1>13. QED
  BY <1>1, <1>8, <1>10, <1>11, <1>12 DEF TableInv

\* The row is new, and the index lets no second one of its user and token in.
LEMMA InsertKeeps ==
    ASSUME TableInv, NEW r \in Requests, RegisterInsert(r)
    PROVE  TableInv'
<1>1. UNCHANGED <<worker, crashes, removable>> /\ req' = [req EXCEPT ![r] = Idle]
  BY DEF RegisterInsert, Answer
<1>2. req' \in [Requests -> GoodRequest]
  BY <1>1, IdleGood DEF TableInv
<1>3. \A s \in Requests : req'[s] = req[s] \/ req'[s].at # "regUpdate"
  BY <1>1, IdleGood DEF TableInv
<1>4. CASE UNCHANGED <<devices, stored, registered>>
  BY <1>1, <1>2, <1>3, <1>4, TablesSame DEF TableInv
<1>5. CASE ~UNCHANGED <<devices, stored, registered>>
  <2>1. PICK q \in GoodRequest :
            /\ q = req[r] /\ q.user \in Users /\ q.token \in Tokens
            /\ q.platform \in Platforms /\ q.dept \in Departments0
    BY RequestFields DEF TableInv, RegisterInsert
  <2>2. PICK new : new = [id |-> stored + 1, user |-> q.user, token |-> q.token,
                          platform |-> q.platform, dept |-> q.dept]
    OBVIOUS
  <2>3. /\ DevicesOf(q.user, q.token) = {} /\ stored < MaxRows /\ stored' = stored + 1
        /\ devices' = devices \cup {new}
        /\ registered' = registered \cup {<<q.user, q.token>>}
    BY <1>5, <2>1, <2>2 DEF RegisterInsert
  <2>4. stored + 1 \in RowIds /\ stored \in Nat
    BY <2>3, NotificationAssumption DEF TableInv, DevicesOK, RowIds
  <2>5. new \in Device /\ new.id = stored + 1 /\ new.user = q.user /\ new.token = q.token
    BY <2>1, <2>2, <2>4 DEF Device
  <2>6. \A x \in devices : x.id \in Nat /\ x.id # new.id /\ ~(x.user = new.user /\ x.token = new.token)
    BY <2>3, <2>4, <2>5 DEF TableInv, DevicesOK, DevicesOf, Device, RowIds
  <2>7. UniqueDevices'
    BY <2>3, <2>6 DEF TableInv, DevicesOK, UniqueDevices
  <2>8. DevicesOK'
    <3>1. \A x \in devices' : x.id <= stored'
      BY <2>3, <2>4, <2>5, <2>6 DEF TableInv, DevicesOK
    <3>2. stored' \in 0 .. MaxRows
      BY <2>3, <2>4, NotificationAssumption DEF RowIds
    <3>3. QED
      BY <2>3, <2>5, <2>7, <3>1, <3>2 DEF TableInv, DevicesOK
  <2>9. \A s \in Requests : Remembered(s)'
    BY <1>1, <1>3, <2>3 DEF TableInv, Remembered
  <2>10. RegisteredStays'
    <3> SUFFICES ASSUME NEW ut \in registered', ut[2] \notin removable
                 PROVE  \E y \in devices' : y.user = ut[1] /\ y.token = ut[2]
      BY <1>1 DEF RegisteredStays, DevicesOf
    <3>1. CASE ut \in registered
      BY <2>3, <3>1 DEF TableInv, RegisteredStays, DevicesOf
    <3>2. CASE ut = <<q.user, q.token>>
      BY <2>3, <2>5, <3>2
    <3>3. QED
      BY <2>3, <3>1, <3>2
  <2>11. QED
    BY <1>1, <1>2, <2>8, <2>9, <2>10 DEF TableInv
<1>6. QED
  BY <1>4, <1>5

LEMMA ClientKeeps ==
    ASSUME TableInv, NEW r \in Requests, Client(r) \/ Step(r)
    PROVE  TableInv'
<1>1. ASSUME NEW u \in Users, NEW t \in Tokens, NEW p \in Platforms, NEW d \in Departments0,
             RegisterFind(r, u, t, p, d)
      PROVE  TableInv'
  BY <1>1, FindKeeps
<1>2. ASSUME NEW q \in GoodRequest, q.at # "regUpdate", req' = [req EXCEPT ![r] = q],
             UNCHANGED <<devices, stored, worker, crashes, registered, removable>>
      PROVE  TableInv'
  <2>1. req' \in [Requests -> GoodRequest]
    BY <1>2 DEF TableInv
  <2>2. \A s \in Requests : req'[s] = req[s] \/ req'[s].at # "regUpdate"
    BY <1>2 DEF TableInv
  <2>3. QED
    BY <1>2, <2>1, <2>2, TablesSame DEF TableInv
<1>3. ASSUME NEW kind \in Kinds, NEW target \in SUBSET Departments \cup {Departments0},
             SendFind(r, kind, target)
      PROVE  TableInv'
  <2>1. PICK rows \in Chosen(kind, target) :
            rows # {} /\ req' = [req EXCEPT ![r] = Adding(PartsOf(kind, rows))]
    BY <1>3 DEF SendFind
  <2>2. rows \in SUBSET devices
    BY DEF Chosen
  <2>3. Adding(PartsOf(kind, rows)) \in GoodRequest
    BY <2>1, <2>2, PartsGood DEF TableInv, GoodRequest
  <2>4. Adding(PartsOf(kind, rows)).at # "regUpdate"
    BY DEF Adding
  <2>5. QED
    BY <1>2, <1>3, <2>1, <2>3, <2>4 DEF SendFind, history
<1>4. CASE AddJob(r)
  <2>1. PICK parts \in Seq(GoodPart) : parts = req[r].parts /\ Len(parts) \in 1 .. 2
    BY <1>4, RequestFields DEF AddJob, TableInv
  <2>2. PICK rest \in Seq(GoodPart) : rest = Tail(parts) /\ Len(rest) = Len(parts) - 1
    <3>1. parts # <<>>
      <4>1. Len(<<>>) = 0
        BY EmptySeq
      <4>2. QED
        BY <2>1, <4>1
    <3>2. QED
      BY <3>1, HeadTailProperties
  <2>3. PICK q : /\ req' = [req EXCEPT ![r] = q]
                 /\ q = IF rest = <<>> THEN Idle ELSE Adding(rest)
    BY <1>4, <2>1, <2>2 DEF AddJob, Answer
  <2>4. CASE rest = <<>>
    BY <1>2, <1>4, <2>3, <2>4, IdleGood DEF AddJob, history
  <2>5. CASE rest # <<>>
    <3>1. Len(rest) \in 1 .. 2
      BY <2>1, <2>2, <2>5, EmptySeq
    <3>2. q \in GoodRequest /\ q.at # "regUpdate"
      BY <2>3, <2>5, <3>1 DEF GoodRequest, Adding
    <3>3. QED
      BY <1>2, <1>4, <2>3, <3>2 DEF AddJob, history
  <2>6. QED
    BY <2>4, <2>5
<1>5. CASE AddFails(r)
  BY <1>2, <1>5, IdleGood DEF AddFails, Answer, history
<1>6. QED
  BY <1>1, <1>3, <1>4, <1>5, UpdateKeeps, InsertKeeps DEF Client, Step

\* A worker forgets no token that was not called invalid.
LEMMA WorkerKeeps ==
    ASSUME IInv, NEW k \in Kinds, Work(k)
    PROVE  TableInv'
<1>1. worker \in [Kinds -> Worker] /\ TableInv
  BY DEF IInv, JobInv, WorkersOK
<1>2. ASSUME NEW w, worker' = [worker EXCEPT ![k] = w],
             \A e \in w.invalid : e.token \in removable',
             UNCHANGED <<devices, stored, req, crashes, registered>>,
             removable \subseteq removable'
      PROVE  TableInv'
  <2>1. \A i \in Kinds : \A e \in worker'[i].invalid : e.token \in removable'
    BY <1>1, <1>2 DEF TableInv
  <2>2. QED
    BY <1>1, <1>2, <2>1, TablesSame DEF TableInv
<1>3. Free.invalid = {}
  BY DEF Free, Running
<1>4. ASSUME NEW j \in DOMAIN jobs, TakeJob(k, j) PROVE TableInv'
  <2>1. PICK w : worker' = [worker EXCEPT ![k] = w] /\ w = Running("send", j, EntriesOfJob(j))
    BY <1>4 DEF TakeJob, SetWorker, EntriesOfJob
  <2>2. w.invalid = {}
    BY <2>1 DEF Running
  <2>3. QED
    BY <1>2, <1>4, <2>1, <2>2 DEF TakeJob, history
<1>5. CASE SendBatch(k)
  <2>1. PICK batch, delivered, invalid :
            /\ worker' = [worker EXCEPT ![k] = NextStep(Counted(worker[k], batch, delivered, invalid))]
            /\ removable' = removable \cup {e.token : e \in invalid}
    BY <1>5 DEF SendBatch, SetWorker
  <2>2. worker[k] \in Worker
    BY <1>1
  <2>3. NextStep(Counted(worker[k], batch, delivered, invalid)).invalid = worker[k].invalid \cup invalid
    BY <2>2 DEF NextStep, Counted, Worker
  <2>4. \A e \in worker[k].invalid \cup invalid : e.token \in removable'
    BY <1>1, <2>1 DEF TableInv
  <2>5. QED
    BY <1>2, <1>5, <2>1, <2>3, <2>4 DEF SendBatch
<1>6. ASSUME NEW at, GoOn(k, at), UNCHANGED <<removable, registered, crashes, req, stored>>,
             devices' \subseteq devices,
             \A x \in devices : x.token \notin removable => x \in devices'
      PROVE  TableInv'
  <2>1. \A i \in Kinds : worker'[i].invalid = worker[i].invalid
    BY <1>1, <1>6 DEF GoOn, Worker
  <2>2. DevicesOK'
    BY <1>1, <1>6, Fewer DEF TableInv
  <2>3. RegisteredStays' /\ \A r \in Requests : Remembered(r)'
    BY <1>1, <1>6, Kept DEF TableInv
  <2>4. QED
    BY <1>1, <1>6, <2>1, <2>2, <2>3 DEF TableInv
<1>7. CASE Cleanup(k)
  <2>1. devices' = {x \in devices : \A e \in worker[k].invalid : e.token # x.token}
    BY <1>7 DEF Cleanup
  <2>2. \A x \in devices : x.token \notin removable => x \in devices'
    BY <1>1, <2>1 DEF TableInv
  <2>3. QED
    BY <1>6, <1>7, <2>1, <2>2 DEF Cleanup, history
<1>8. CASE CleanupFails(k) \/ Log(k) \/ LogFails(k) \/ CatchLog(k) \/ CatchLogFails(k)
  BY <1>6, <1>8 DEF CleanupFails, Log, LogFails, CatchLog, CatchLogFails, history
<1>9. CASE Finish(k) \/ FailJob(k)
  BY <1>2, <1>3, <1>9 DEF Finish, FailJob, SetWorker, history
<1>10. QED
  BY <1>4, <1>5, <1>7, <1>8, <1>9 DEF Work

LEMMA TablesNext ==
    ASSUME IInv, [Next]_vars
    PROVE  TableInv'
<1>1. TableInv
  BY DEF IInv
<1>2. ASSUME NEW j \in JobIds, Tend(j) PROVE TableInv'
  BY <1>1, <1>2, TablesSame DEF Tend, Promote, Stalled, history, TableInv
<1>3. ASSUME NEW d \in Departments, DepartmentDeleted(d) PROVE TableInv'
  <2>1. /\ devices' = {x \in devices : x.dept # d}
        /\ removable' = removable \cup {x.token : x \in {y \in devices : y.dept = d}}
        /\ UNCHANGED <<stored, req, worker, crashes, registered>>
    BY <1>3 DEF DepartmentDeleted
  <2>2. \A x \in devices : x.token \notin removable' => x \in devices'
    BY <2>1
  <2>3. DevicesOK'
    BY <1>1, <2>1, Fewer DEF TableInv
  <2>4. RegisteredStays' /\ \A r \in Requests : Remembered(r)'
    BY <1>1, <2>1, <2>2, Kept DEF TableInv
  <2>5. QED
    BY <1>1, <2>1, <2>3, <2>4 DEF TableInv
<1>4. CASE Crash
  <2>1. /\ req' = [r \in Requests |-> Idle] /\ worker' = [k \in Kinds |-> Free]
        /\ crashes' = crashes + 1 /\ crashes < MaxCrashes
        /\ UNCHANGED <<devices, stored, registered, removable>>
    BY <1>4 DEF Crash, history
  <2>2. crashes' \in 0 .. MaxCrashes
    BY <1>1, <2>1, NotificationAssumption DEF TableInv
  <2>3. \A k \in Kinds : worker'[k].invalid = {}
    BY <2>1 DEF Free, Running
  <2>4. req' \in [Requests -> GoodRequest] /\ \A r \in Requests : req'[r].at # "regUpdate"
    BY <2>1, IdleGood
  <2>5. QED
    BY <1>1, <2>1, <2>2, <2>3, <2>4, TablesSame
<1>5. CASE UNCHANGED vars
  BY <1>1, <1>5, TablesSame DEF vars, history, TableInv
<1>6. QED
  BY <1>1, <1>2, <1>3, <1>4, <1>5, ClientKeeps, WorkerKeeps DEF Next

-----------------------------------------------------------------------------
(* Jobs and workers.                                                       *)

\* A job is held by the worker of its queue, if by any.
LEMMA OneHolder ==
    ASSUME WorkersOK, NEW k \in Kinds, NEW i \in Kinds,
           worker[k] # Free, worker[i] # Free, worker[i].job = worker[k].job
    PROVE  i = k
BY DEF WorkersOK, Holds

LEMMA FreeGood ==
    /\ Free \in Worker
    /\ Free.at = "free" /\ Free.job = 0 /\ Free.left = {} /\ Free.invalid = {}
<1>1. Free = [at |-> "free", job |-> 0, left |-> {}, delivered |-> 0, failed |-> 0, invalid |-> {}]
  BY DEF Free, Running
<1>2. QED
  BY <1>1 DEF Worker, WorkerLabel

\* A worker that is not free, its job, and what is known of both.
LEMMA HeldJob ==
    ASSUME JobInv, NEW k \in Kinds, worker[k] # Free
    PROVE  /\ worker[k] \in Worker /\ Holds(k)
           /\ worker[k].job \in DOMAIN jobs /\ worker[k].job \in JobIds
           /\ jobs[worker[k].job] \in GoodJob
           /\ jobs[worker[k].job].status = "active"
           /\ jobs[worker[k].job].attempts < Attempts
           /\ JobFits(jobs[worker[k].job], tries[worker[k].job],
                      confirmed[worker[k].job], logs[worker[k].job])
           /\ RunFits(worker[k], jobs[worker[k].job], tries[worker[k].job],
                      confirmed[worker[k].job], logs[worker[k].job])
<1>1. worker[k] \in Worker /\ Holds(k)
  BY DEF JobInv, WorkersOK
<1>2. worker[k].job \in DOMAIN jobs /\ jobs[worker[k].job].status = "active"
  BY <1>1 DEF Holds
<1>3. worker[k].job \in JobIds /\ jobs[worker[k].job] \in GoodJob
  BY <1>2, JobFacts DEF JobInv
<1>4. jobs[worker[k].job].attempts < Attempts
  BY <1>2, <1>3 DEF GoodJob
<1>5. QED
  BY <1>1, <1>2, <1>3, <1>4 DEF JobInv, Fits, Runs

\* A worker that a step leaves alone, with its job, keeps what is known of it.
LEMMA OtherWorker ==
    ASSUME JobInv, NEW i \in Kinds, worker'[i] = worker[i],
           worker[i] # Free =>
               /\ worker[i].job \in DOMAIN jobs' /\ jobs'[worker[i].job] = jobs[worker[i].job]
               /\ tries'[worker[i].job] = tries[worker[i].job]
               /\ confirmed'[worker[i].job] = confirmed[worker[i].job]
               /\ logs'[worker[i].job] = logs[worker[i].job]
    PROVE  (worker'[i] = Free \/ Holds(i)') /\ Runs(i)'
<1>1. CASE worker[i] = Free
  BY <1>1 DEF Runs
<1>2. CASE worker[i] # Free
  <2>1. Holds(i) /\ Runs(i)
    BY <1>2 DEF JobInv, WorkersOK
  <2>2. Holds(i)'
    BY <1>2, <2>1 DEF Holds, EntriesOfJob
  <2>3. Runs(i)'
    BY <1>2, <2>1 DEF Runs
  <2>4. QED
    BY <2>2, <2>3
<1>3. QED
  BY <1>1, <1>2

\* Bull changes a job, and the worker that gives it back or takes it.
LEMMA BullKeeps ==
    ASSUME JobInv, NEW j \in DOMAIN jobs, NEW x \in GoodJob, jobs' = [jobs EXCEPT ![j] = x],
           x.part = jobs[j].part, UNCHANGED <<tries, confirmed, logs>>,
           JobFits(x, tries[j], confirmed[j], logs[j]),
           \/ \E k \in Kinds : /\ worker[k] # Free /\ worker[k].job = j
                               /\ worker' = [worker EXCEPT ![k] = Free]
           \/ \E k \in Kinds : /\ worker[k] = Free /\ jobs[j].status = "waiting"
                               /\ jobs[j].part.kind = k /\ x.status = "active"
                               /\ x.attempts = jobs[j].attempts /\ x.stalls = jobs[j].stalls
                               /\ worker' = [worker EXCEPT ![k] = Running("send", j, x.part.entries)]
           \/ /\ UNCHANGED worker
              /\ \A k \in Kinds : worker[k] = Free \/ worker[k].job # j
    PROVE  JobInv'
<1>1. /\ JobsOK'
      /\ DOMAIN jobs' = DOMAIN jobs
      /\ \A i \in DOMAIN jobs : jobs'[i] = IF i = j THEN x ELSE jobs[i]
  BY OneJob DEF JobInv
<1>2. \A i \in JobIds : Fits(i)'
  BY <1>1 DEF JobInv, Fits
<1>3. worker \in [Kinds -> Worker]
  BY DEF JobInv, WorkersOK
<1>4. ASSUME NEW i \in Kinds, worker'[i] = worker[i], worker[i] = Free \/ worker[i].job # j
      PROVE  (worker'[i] = Free \/ Holds(i)') /\ Runs(i)'
  <2>1. worker[i] # Free => worker[i].job \in DOMAIN jobs
    BY HeldJob
  <2>2. QED
    BY <1>1, <1>4, <2>1, OtherWorker
<1>5. worker' \in [Kinds -> Worker] /\ \A i \in Kinds : (worker'[i] = Free \/ Holds(i)') /\ Runs(i)'
  <2>1. ASSUME NEW k \in Kinds, worker[k] # Free, worker[k].job = j,
               worker' = [worker EXCEPT ![k] = Free]
        PROVE  <1>5!1 /\ <1>5!2
    <3>1. worker' \in [Kinds -> Worker] /\ worker'[k] = Free
      BY <1>3, <2>1, FreeGood
    <3>2. ASSUME NEW i \in Kinds, i # k PROVE (worker'[i] = Free \/ Holds(i)') /\ Runs(i)'
      <4>1. worker'[i] = worker[i]
        BY <1>3, <2>1, <3>2
      <4>2. worker[i] = Free \/ worker[i].job # j
        BY <2>1, <3>2, OneHolder DEF JobInv
      <4>3. QED
        BY <1>4, <4>1, <4>2
    <3>3. QED
      BY <3>1, <3>2 DEF Runs
  <2>2. ASSUME NEW k \in Kinds, worker[k] = Free, jobs[j].status = "waiting",
               jobs[j].part.kind = k, x.status = "active",
               x.attempts = jobs[j].attempts, x.stalls = jobs[j].stalls,
               worker' = [worker EXCEPT ![k] = Running("send", j, x.part.entries)]
        PROVE  <1>5!1 /\ <1>5!2
    <3>1. j \in JobIds /\ jobs[j] \in GoodJob /\ j \in Nat /\ x.part \in GoodPart
      BY JobFacts DEF JobInv, GoodJob, JobIds
    <3> PICK w : w = Running("send", j, x.part.entries)
      OBVIOUS
    <3>2. /\ w.at = "send" /\ w.job = j /\ w.left = x.part.entries
          /\ w.delivered = 0 /\ w.failed = 0 /\ w.invalid = {}
      BY DEF Running
    <3>3. w \in Worker
      <4>1. x.part.entries \subseteq Entry
        BY <3>1 DEF GoodPart, Part
      <4>2. QED
        BY <3>1, <3>2, <4>1 DEF Running, Worker, WorkerLabel
    <3>4. worker' \in [Kinds -> Worker] /\ worker'[k] = w
      BY <1>3, <2>2, <3>2, <3>3
    <3>5. Holds(k)'
      BY <1>1, <2>2, <3>2, <3>4 DEF Holds, EntriesOfJob
    <3>6. RunFits(w, x, tries[j], confirmed[j], logs[j])
      <4>1. JobFits(jobs[j], tries[j], confirmed[j], logs[j])
        BY <3>1 DEF JobInv, Fits
      <4>2. \A id \in Ids(w.left) : id \in RowIds /\ tries[j][id] <= x.attempts + x.stalls
        BY <2>2, <3>1, <3>2, <4>1 DEF JobFits, Ids, GoodPart, Part, Entry
      <4>3. confirmed[j] \subseteq x.part.entries
        BY <4>1 DEF JobFits
      <4>4. x.part.entries \ w.left = {} /\ confirmed[j] \ w.left = {}
        BY <3>2, <4>3
      <4>5. Cardinality(x.part.entries \ w.left) = 0 /\ Cardinality(confirmed[j] \ w.left) = 0
        BY <4>4, FS_EmptySet
      <4>6. \A id \in Ids(x.part.entries) : id \in Ids(w.left)
        BY <3>2
      <4>7. QED
        BY <3>2, <4>2, <4>5, <4>6 DEF RunFits
    <3>7. Runs(k)'
      BY <1>1, <3>2, <3>4, <3>6 DEF Runs
    <3>8. ASSUME NEW i \in Kinds, i # k PROVE (worker'[i] = Free \/ Holds(i)') /\ Runs(i)'
      <4>1. worker'[i] = worker[i]
        BY <1>3, <2>2, <3>8
      <4>2. worker[i] = Free \/ worker[i].job # j
        BY <2>2, HeldJob
      <4>3. QED
        BY <1>4, <4>1, <4>2
    <3>9. QED
      BY <3>4, <3>5, <3>7, <3>8
  <2>3. ASSUME UNCHANGED worker, \A k \in Kinds : worker[k] = Free \/ worker[k].job # j
        PROVE  <1>5!1 /\ <1>5!2
    BY <1>3, <1>4, <2>3
  <2>4. QED
    BY <2>1, <2>2, <2>3
<1>6. QED
  BY <1>1, <1>2, <1>5 DEF JobInv, WorkersOK

\* Worker k goes on with its job j: it becomes w, and the books of j become n, sent and rows.
GoesOn(k, j, w, n, sent, rows) ==
    /\ worker[k] # Free /\ j = worker[k].job /\ UNCHANGED jobs
    /\ w \in Worker /\ worker' = [worker EXCEPT ![k] = w]
    /\ w.at # "free" /\ w.job = j /\ w.left \subseteq worker[k].left
    /\ w.invalid \subseteq EntriesOfJob(j)
    /\ w.at # "send" => w.left = {}
    /\ n \in [RowIds -> Nat] /\ tries' = [tries EXCEPT ![j] = n]
    /\ sent \in SUBSET Entry /\ confirmed' = [confirmed EXCEPT ![j] = sent]
    /\ rows \in Seq(LogRow) /\ logs' = [logs EXCEPT ![j] = rows]
    /\ JobFits(jobs[j], n, sent, rows) /\ RunFits(w, jobs[j], n, sent, rows)

LEMMA WorkerGoesOn ==
    ASSUME JobInv, NEW k \in Kinds, NEW j, NEW w, NEW n, NEW sent, NEW rows,
           GoesOn(k, j, w, n, sent, rows)
    PROVE  JobInv'
<1> USE DEF GoesOn
<1>1. Holds(k) /\ j \in DOMAIN jobs /\ j \in JobIds
  BY HeldJob
<1>2. /\ tries \in [JobIds -> [RowIds -> Nat]] /\ confirmed \in [JobIds -> SUBSET Entry]
      /\ logs \in [JobIds -> Seq(LogRow)] /\ worker \in [Kinds -> Worker]
  BY DEF JobInv, WorkersOK
<1>3. /\ tries' \in [JobIds -> [RowIds -> Nat]] /\ confirmed' \in [JobIds -> SUBSET Entry]
      /\ logs' \in [JobIds -> Seq(LogRow)] /\ worker' \in [Kinds -> Worker]
  BY <1>1, <1>2
<1>4. tries'[j] = n /\ confirmed'[j] = sent /\ logs'[j] = rows /\ worker'[k] = w
  BY <1>1, <1>2
<1>5. ASSUME NEW i \in JobIds, i # j
      PROVE  tries'[i] = tries[i] /\ confirmed'[i] = confirmed[i] /\ logs'[i] = logs[i]
  BY <1>1, <1>2, <1>5
<1>6. ASSUME NEW i \in JobIds PROVE Fits(i)'
  <2>1. CASE i = j
    BY <1>1, <1>4, <2>1 DEF Fits
  <2>2. CASE i # j
    BY <1>5, <2>2 DEF JobInv, Fits
  <2>3. QED
    BY <2>1, <2>2
<1>7. Holds(k)' /\ Runs(k)'
  BY <1>1, <1>4 DEF Holds, Runs, EntriesOfJob
<1>8. ASSUME NEW i \in Kinds, i # k PROVE (worker'[i] = Free \/ Holds(i)') /\ Runs(i)'
  <2>1. worker'[i] = worker[i]
    BY <1>2, <1>8
  <2>2. worker[i] # Free =>
            worker[i].job # j /\ worker[i].job \in JobIds /\ worker[i].job \in DOMAIN jobs
    BY <1>8, OneHolder, HeldJob DEF JobInv
  <2>3. QED
    BY <1>5, <2>1, <2>2, OtherWorker
<1>9. JobsOK'
  BY DEF JobInv, JobsOK
<1>10. QED
  BY <1>3, <1>6, <1>7, <1>8, <1>9 DEF JobInv, WorkersOK

\* Of a set and a part of it: the sizes add up.
LEMMA Sizes ==
    ASSUME NEW S, NEW T, IsFiniteSet(S), IsFiniteSet(T), S \cap T = {}
    PROVE  Cardinality(S \cup T) = Cardinality(S) + Cardinality(T)
<1>1. Cardinality(S \cap T) = 0
  BY FS_EmptySet
<1>2. Cardinality(S \cup T) = Cardinality(S) + Cardinality(T) - Cardinality(S \cap T)
  BY FS_Union
<1>3. Cardinality(S) \in Nat /\ Cardinality(T) \in Nat
  BY FS_CardinalityType
<1>4. QED
  BY <1>1, <1>2, <1>3

\* A batch was left until now; after it, its entries are tried and counted once.
LEMMA SendKeepsJobs ==
    ASSUME JobInv, NEW k \in Kinds, SendBatch(k)
    PROVE  JobInv'
<1> PICK w : w = worker[k]
  OBVIOUS
<1> PICK j : j = w.job
  OBVIOUS
<1> PICK x : x = jobs[j]
  OBVIOUS
<1>1. w.at = "send" /\ worker[k] # Free
  BY FreeGood DEF SendBatch
<1>2. PICK batch, delivered, invalid :
          /\ batch \in SUBSET w.left /\ delivered \in SUBSET batch
          /\ invalid \in SUBSET (batch \ delivered)
          /\ worker' = [worker EXCEPT ![k] = NextStep(Counted(w, batch, delivered, invalid))]
          /\ Tried(j, batch)
          /\ confirmed' = [confirmed EXCEPT ![j] = @ \cup delivered]
  BY DEF SendBatch, SetWorker
<1>3. UNCHANGED <<jobs, logs>>
  BY DEF SendBatch
<1>4. /\ w \in Worker /\ Holds(k) /\ j \in JobIds /\ x \in GoodJob /\ x.status = "active"
      /\ x.attempts < Attempts
      /\ JobFits(x, tries[j], confirmed[j], logs[j])
      /\ RunFits(w, x, tries[j], confirmed[j], logs[j])
  BY <1>1, HeldJob
<1>5. /\ tries[j] \in [RowIds -> Nat] /\ confirmed[j] \in SUBSET Entry /\ logs[j] \in Seq(LogRow)
      /\ logs \in [JobIds -> Seq(LogRow)] /\ tries \in [JobIds -> [RowIds -> Nat]]
  BY <1>4 DEF JobInv
<1> PICK all : all = x.part.entries
  OBVIOUS
<1>6. /\ x.part \in GoodPart /\ w.left \subseteq all /\ w.invalid \subseteq all
      /\ confirmed[j] \subseteq all
  BY <1>4 DEF GoodJob, Holds, JobFits, EntriesOfJob
<1>7. \A some \in SUBSET all : IsFiniteSet(some) /\ Cardinality(some) \in Nat
  BY <1>6, PartFinite
<1> PICK v : v = NextStep(Counted(w, batch, delivered, invalid))
  OBVIOUS
<1>8. /\ v \in Worker /\ v.at \in {"send", "cleanup", "log"} /\ v.job = j
      /\ v.left = w.left \ batch /\ v.invalid = w.invalid \cup invalid
      /\ v.delivered = w.delivered + Cardinality(delivered)
      /\ v.failed = w.failed + Cardinality(batch \ delivered)
      /\ v.at # "send" => v.left = {}
  <2>1. Cardinality(delivered) \in Nat /\ Cardinality(batch \ delivered) \in Nat
    BY <1>2, <1>6, <1>7
  <2> PICK u : u = Counted(w, batch, delivered, invalid)
    OBVIOUS
  <2>2. /\ u \in Worker /\ u.job = j
        /\ u.left = w.left \ batch /\ u.invalid = w.invalid \cup invalid
        /\ u.delivered = w.delivered + Cardinality(delivered)
        /\ u.failed = w.failed + Cardinality(batch \ delivered)
    <3>1. w.left \ batch \in SUBSET Entry /\ w.invalid \cup invalid \in SUBSET Entry
      BY <1>2, <1>4 DEF Worker
    <3>2. /\ w.delivered + Cardinality(delivered) \in Nat
          /\ w.failed + Cardinality(batch \ delivered) \in Nat
      BY <1>4, <2>1 DEF Worker
    <3>3. QED
      BY <1>4, <3>1, <3>2 DEF Counted, Worker
  <2>3. PICK at \in {"send", "cleanup", "log"} :
            v = [u EXCEPT !.at = at] /\ (at # "send" => u.left = {})
    BY DEF NextStep
  <2>4. QED
    BY <2>2, <2>3 DEF Worker, WorkerLabel
<1> PICK n : n = [id \in RowIds |-> IF \E e \in batch : e.id = id THEN tries[j][id] + 1
                                   ELSE tries[j][id]]
  OBVIOUS
<1>9. n \in [RowIds -> Nat] /\ tries' = [tries EXCEPT ![j] = n]
  BY <1>2, <1>4, <1>5 DEF Tried
<1>10. \A id \in RowIds : n[id] = IF id \in Ids(batch) THEN tries[j][id] + 1 ELSE tries[j][id]
  BY DEF Ids
<1> PICK sent : sent = confirmed[j] \cup delivered
  OBVIOUS
<1>11. sent \in SUBSET Entry /\ sent \subseteq all /\ confirmed' = [confirmed EXCEPT ![j] = sent]
  BY <1>2, <1>4, <1>6 DEF GoodPart, Part
<1>12. x.attempts \in Nat /\ x.stalls \in {0, 1} /\ Attempts \in Nat
  BY <1>4, NotificationAssumption DEF GoodJob, Job, MaxStalls
<1>13. \A id \in RowIds : tries[j][id] \in Nat
  BY <1>5
<1>14. Ids(batch) \subseteq Ids(w.left) /\ Ids(w.left) \subseteq Ids(all) /\ Ids(all) \subseteq RowIds
  BY <1>2, <1>6 DEF Ids, GoodPart, Part, Entry
<1>15. ASSUME NEW id \in RowIds
       PROVE  /\ n[id] <= x.attempts + x.stalls + 1
              /\ n[id] <= Attempts + MaxStalls
              /\ id \notin Ids(all) => n[id] = 0
  <2>1. /\ tries[j][id] <= x.attempts + x.stalls + 1
        /\ id \notin Ids(all) => tries[j][id] = 0
        /\ id \in Ids(w.left) => tries[j][id] <= x.attempts + x.stalls
    BY <1>4 DEF JobFits, RunFits
  <2>2. n[id] <= x.attempts + x.stalls + 1 /\ n[id] \in Nat
    BY <1>10, <1>12, <1>13, <1>14, <2>1
  <2>3. x.attempts + x.stalls + 1 <= Attempts + MaxStalls
    BY <1>4, <1>12 DEF MaxStalls
  <2>4. QED
    BY <1>9, <1>10, <1>12, <1>14, <2>1, <2>2, <2>3 DEF MaxStalls
<1>16. JobFits(x, n, sent, logs[j])
  <2>1. Cardinality(confirmed[j]) <= Cardinality(sent)
    <3>1. IsFiniteSet(sent) /\ confirmed[j] \in SUBSET sent
      BY <1>7, <1>11
    <3>2. QED
      BY <3>1, FS_Subset
  <2>2. Cardinality(confirmed[j]) \in Nat /\ Cardinality(sent) \in Nat
    BY <1>6, <1>7, <1>11
  <2>3. ASSUME NEW i \in DOMAIN logs[j]
        PROVE  /\ logs[j][i].total = Cardinality(x.part.entries)
               /\ logs[j][i].delivered + logs[j][i].failed = logs[j][i].total
               /\ logs[j][i].delivered <= Cardinality(sent)
    <3>1. logs[j][i].delivered \in Nat
      <4>1. i \in 1 .. Len(logs[j])
        BY <1>5, LenProperties
      <4>2. logs[j][i] \in LogRow
        BY <1>5, <4>1, ElementOfSeq
      <4>3. QED
        BY <4>2 DEF LogRow
    <3>2. /\ logs[j][i].total = Cardinality(x.part.entries)
          /\ logs[j][i].delivered + logs[j][i].failed = logs[j][i].total
          /\ logs[j][i].delivered <= Cardinality(confirmed[j])
      BY <1>4 DEF JobFits
    <3>3. QED
      BY <2>1, <2>2, <3>1, <3>2
  <2>4. QED
    BY <1>4, <1>11, <1>15, <2>3 DEF JobFits
<1>17. RunFits(v, x, n, sent, logs[j])
  <2>1. ASSUME NEW id \in Ids(v.left) PROVE n[id] <= x.attempts + x.stalls
    <3>1. id \notin Ids(batch) /\ id \in Ids(w.left) /\ id \in RowIds
      BY <1>2, <1>6, <1>8, <1>14 DEF Ids, GoodPart, Distinct
    <3>2. QED
      BY <1>4, <1>10, <3>1 DEF RunFits
  <2>2. ASSUME NEW id \in Ids(all) PROVE id \in Ids(v.left) \/ n[id] > 0
    <3>1. id \in RowIds /\ (id \in Ids(w.left) \/ tries[j][id] > 0)
      BY <1>4, <1>14 DEF RunFits
    <3>2. id \in Ids(w.left) => id \in Ids(batch) \/ id \in Ids(v.left)
      BY <1>8 DEF Ids
    <3>3. QED
      BY <1>10, <1>13, <3>1, <3>2
  <2>3. v.delivered + v.failed = Cardinality(all \ v.left)
    <3>1. /\ IsFiniteSet(all \ w.left) /\ IsFiniteSet(batch) /\ (all \ w.left) \cap batch = {}
          /\ all \ v.left = (all \ w.left) \cup batch
      BY <1>2, <1>6, <1>7, <1>8
    <3>2. Cardinality(all \ v.left) = Cardinality(all \ w.left) + Cardinality(batch)
      BY <3>1, Sizes
    <3>3. Cardinality(batch) = Cardinality(delivered) + Cardinality(batch \ delivered)
      <4>1. /\ IsFiniteSet(delivered) /\ IsFiniteSet(batch \ delivered)
            /\ delivered \cap (batch \ delivered) = {}
            /\ batch = delivered \cup (batch \ delivered)
        BY <1>2, <1>6, <1>7
      <4>2. QED
        BY <4>1, Sizes
    <3>4. w.delivered + w.failed = Cardinality(all \ w.left)
      BY <1>4 DEF RunFits
    <3>5. /\ w.delivered \in Nat /\ w.failed \in Nat
          /\ Cardinality(delivered) \in Nat /\ Cardinality(batch \ delivered) \in Nat
      BY <1>2, <1>4, <1>6, <1>7 DEF Worker
    <3>6. QED
      BY <1>8, <3>2, <3>3, <3>4, <3>5
  <2>4. v.delivered <= Cardinality(sent \ v.left)
    <3>1. /\ IsFiniteSet(confirmed[j] \ w.left) /\ IsFiniteSet(delivered)
          /\ (confirmed[j] \ w.left) \cap delivered = {}
      BY <1>2, <1>6, <1>7
    <3>2. Cardinality((confirmed[j] \ w.left) \cup delivered) =
              Cardinality(confirmed[j] \ w.left) + Cardinality(delivered)
      BY <3>1, Sizes
    <3>3. /\ (confirmed[j] \ w.left) \cup delivered \in SUBSET (sent \ v.left)
          /\ IsFiniteSet(sent \ v.left)
      BY <1>2, <1>7, <1>8, <1>11
    <3>4. Cardinality((confirmed[j] \ w.left) \cup delivered) <= Cardinality(sent \ v.left)
      BY <3>3, FS_Subset
    <3>5. w.delivered <= Cardinality(confirmed[j] \ w.left)
      BY <1>4 DEF RunFits
    <3>6. /\ w.delivered \in Nat /\ Cardinality(delivered) \in Nat
          /\ Cardinality(confirmed[j] \ w.left) \in Nat /\ Cardinality(sent \ v.left) \in Nat
      BY <1>2, <1>4, <1>6, <1>7, <1>11 DEF Worker
    <3>7. QED
      BY <1>8, <3>2, <3>4, <3>5, <3>6
  <2>5. QED
    BY <1>8, <2>1, <2>2, <2>3, <2>4 DEF RunFits
<1>18. /\ worker' = [worker EXCEPT ![k] = v] /\ v.left \subseteq w.left
       /\ v.invalid \subseteq EntriesOfJob(j) /\ v.at # "free"
  BY <1>2, <1>6, <1>8 DEF EntriesOfJob
<1>19. logs' = [logs EXCEPT ![j] = logs[j]]
  BY <1>3, <1>5
<1>20. j = worker[k].job /\ JobFits(jobs[j], n, sent, logs[j]) /\ RunFits(v, jobs[j], n, sent, logs[j])
  BY <1>16, <1>17
<1>21. v.left \subseteq worker[k].left /\ UNCHANGED jobs /\ logs[j] \in Seq(LogRow)
  BY <1>3, <1>5, <1>18
<1>22. GoesOn(k, j, v, n, sent, logs[j])
  BY <1>1, <1>8, <1>9, <1>11, <1>18, <1>19, <1>20, <1>21 DEF GoesOn
<1>23. QED
  BY <1>22, WorkerGoesOn

\* After its batches a worker goes on, and may write a row that accounts for its job.
LEMMA MoveKeepsJobs ==
    ASSUME JobInv, NEW k \in Kinds, NEW at \in {"log", "catchLog", "finish", "fail"},
           GoOn(k, at), worker[k].at \notin {"free", "send"},
           UNCHANGED <<jobs, tries, confirmed>>,
           \/ at # "finish" /\ UNCHANGED logs
           \/ \E row \in LogRow :
                 /\ WriteLog(worker[k].job, row)
                 /\ row.total = Cardinality(EntriesOfJob(worker[k].job))
                 /\ row.delivered + row.failed = row.total
                 /\ row.delivered <= Cardinality(confirmed[worker[k].job])
                 /\ at = "finish" => ~row.error
    PROVE  JobInv'
<1> PICK w : w = worker[k]
  OBVIOUS
<1> PICK j : j = worker[k].job
  OBVIOUS
<1>1. worker[k] # Free
  BY FreeGood
<1>2. /\ w \in Worker /\ Holds(k) /\ j \in JobIds
      /\ JobFits(jobs[j], tries[j], confirmed[j], logs[j])
      /\ RunFits(w, jobs[j], tries[j], confirmed[j], logs[j])
  BY <1>1, HeldJob
<1>3. /\ tries[j] \in [RowIds -> Nat] /\ confirmed[j] \in SUBSET Entry /\ logs[j] \in Seq(LogRow)
      /\ logs \in [JobIds -> Seq(LogRow)] /\ tries \in [JobIds -> [RowIds -> Nat]]
      /\ confirmed \in [JobIds -> SUBSET Entry]
  BY <1>2 DEF JobInv
<1>4. tries' = [tries EXCEPT ![j] = tries[j]] /\ confirmed' = [confirmed EXCEPT ![j] = confirmed[j]]
  BY <1>3
<1> PICK v : v = [w EXCEPT !.at = at]
  OBVIOUS
<1>5. worker' = [worker EXCEPT ![k] = v]
  BY DEF GoOn
<1>6. /\ v \in Worker /\ v.at = at /\ v.job = j /\ v.left = w.left /\ v.left = {}
      /\ v.delivered = w.delivered /\ v.failed = w.failed /\ v.invalid = w.invalid
      /\ v.invalid \subseteq EntriesOfJob(j)
  BY <1>2 DEF Worker, WorkerLabel, Holds
<1> PICK rows : rows = logs'[j]
  OBVIOUS
<1>7. /\ rows \in Seq(LogRow) /\ logs' = [logs EXCEPT ![j] = rows]
      /\ \A i \in DOMAIN rows :
            /\ rows[i].total = Cardinality(EntriesOfJob(j))
            /\ rows[i].delivered + rows[i].failed = rows[i].total
            /\ rows[i].delivered <= Cardinality(confirmed[j])
      /\ (\E i \in DOMAIN logs[j] : ~logs[j][i].error) => \E i \in DOMAIN rows : ~rows[i].error
      /\ at = "finish" => \E i \in DOMAIN rows : ~rows[i].error
  <2>1. CASE at # "finish" /\ UNCHANGED logs
    <3>1. rows = logs[j] /\ logs' = [logs EXCEPT ![j] = rows]
      BY <1>2, <1>3, <2>1
    <3>2. QED
      BY <1>2, <1>3, <2>1, <3>1 DEF JobFits, EntriesOfJob
  <2>2. ASSUME NEW row \in LogRow, WriteLog(j, row),
               row.total = Cardinality(EntriesOfJob(j)),
               row.delivered + row.failed = row.total,
               row.delivered <= Cardinality(confirmed[j]),
               at = "finish" => ~row.error
        PROVE  <1>7!1 /\ <1>7!2 /\ <1>7!3 /\ <1>7!4
    <3>1. logs' = [logs EXCEPT ![j] = Append(logs[j], row)] /\ rows = Append(logs[j], row)
      BY <1>2, <1>3, <2>2 DEF WriteLog
    <3>2. /\ rows \in Seq(LogRow) /\ Len(rows) = Len(logs[j]) + 1
          /\ \A i \in 1 .. Len(logs[j]) : rows[i] = logs[j][i]
          /\ rows[Len(logs[j]) + 1] = row
      BY <1>3, <3>1, AppendProperties
    <3>3. DOMAIN logs[j] = 1 .. Len(logs[j]) /\ Len(logs[j]) \in Nat
          /\ DOMAIN rows = 1 .. Len(logs[j]) + 1
      BY <1>3, <3>2, LenProperties
    <3>4. \A i \in DOMAIN rows : rows[i] = row \/ (i \in DOMAIN logs[j] /\ rows[i] = logs[j][i])
      BY <3>2, <3>3
    <3>5. \A i \in DOMAIN rows :
              /\ rows[i].total = Cardinality(EntriesOfJob(j))
              /\ rows[i].delivered + rows[i].failed = rows[i].total
              /\ rows[i].delivered <= Cardinality(confirmed[j])
      BY <1>2, <2>2, <3>4 DEF JobFits, EntriesOfJob
    <3>6. Len(logs[j]) + 1 \in DOMAIN rows /\ \A i \in DOMAIN logs[j] : i \in DOMAIN rows
      BY <3>3
    <3>7. QED
      BY <2>2, <3>1, <3>2, <3>3, <3>5, <3>6
  <2>3. QED
    BY <2>1, <2>2
<1>8. JobFits(jobs[j], tries[j], confirmed[j], rows)
  BY <1>2, <1>7 DEF JobFits, EntriesOfJob
<1>9. RunFits(v, jobs[j], tries[j], confirmed[j], rows)
  BY <1>2, <1>6, <1>7 DEF RunFits
<1>10. /\ j = worker[k].job /\ v.at # "free" /\ v.left \subseteq worker[k].left /\ UNCHANGED jobs
       /\ v.at # "send" => v.left = {}
  BY <1>6
<1>11. rows \in Seq(LogRow) /\ logs' = [logs EXCEPT ![j] = rows]
  BY <1>7
<1>12. GoesOn(k, j, v, tries[j], confirmed[j], rows)
  BY <1>1, <1>3, <1>4, <1>5, <1>6, <1>8, <1>9, <1>10, <1>11 DEF GoesOn
<1>13. QED
  BY <1>12, WorkerGoesOn

\* What AddJob adds: a job that waits and was never tried.
LEMMA AddedJob ==
    ASSUME IInv, NEW r \in Requests, AddJob(r)
    PROVE  /\ Len(jobs) < MaxJobs
           /\ UNCHANGED <<worker, logs, tries, confirmed>>
           /\ \E x \in GoodJob : /\ jobs' = Append(jobs, x) /\ x.status = "waiting"
                                /\ x.attempts = 0 /\ x.stalls = 0
<1>1. PICK parts \in Seq(GoodPart) : parts = req[r].parts /\ Len(parts) \in 1 .. 2
  BY RequestFields DEF AddJob, IInv, TableInv
<1>2. PICK p \in GoodPart : p = Head(parts)
  <2>1. Len(<<>>) = 0
    BY EmptySeq
  <2>2. parts # <<>>
    BY <1>1, <2>1
  <2>3. QED
    BY <2>2, HeadTailProperties
<1> PICK x : x = Waiting(p)
  OBVIOUS
<1>3. x \in GoodJob /\ x.status = "waiting" /\ x.attempts = 0 /\ x.stalls = 0
  <2>1. p \in Part /\ 0 \in 0 .. Attempts /\ 0 < Attempts
    BY NotificationAssumption DEF GoodPart
  <2>2. QED
    BY <2>1 DEF Waiting, GoodJob, Job, MaxStalls
<1>4. jobs' = Append(jobs, x) /\ Len(jobs) < MaxJobs /\ UNCHANGED <<worker, logs, tries, confirmed>>
  BY <1>1, <1>2 DEF AddJob, history
<1>5. QED
  BY <1>3, <1>4

LEMMA AddKeepsJobs ==
    ASSUME IInv, NEW r \in Requests, AddJob(r)
    PROVE  JobInv'
<1>1. PICK x \in GoodJob : /\ jobs' = Append(jobs, x) /\ x.status = "waiting"
                           /\ x.attempts = 0 /\ x.stalls = 0
  BY AddedJob
<1>2. Len(jobs) < MaxJobs /\ UNCHANGED <<worker, logs, tries, confirmed>>
  BY AddedJob
<1>3. JobInv
  BY DEF IInv
<1>4. PICK n : n = Len(jobs) + 1
  OBVIOUS
<1>5. /\ JobsOK' /\ n \notin DOMAIN jobs /\ n \in JobIds /\ DOMAIN jobs' = DOMAIN jobs \cup {n}
      /\ jobs'[n] = x /\ \A i \in DOMAIN jobs : jobs'[i] = jobs[i]
  BY <1>1, <1>2, <1>3, <1>4, NewJob DEF JobInv
<1>6. ASSUME NEW i \in JobIds PROVE Fits(i)'
  <2>1. CASE i = n
    <3>1. (\A id \in RowIds : tries[n][id] = 0) /\ confirmed[n] = {} /\ logs[n] = <<>>
      BY <1>3, <1>5 DEF JobInv, Fits
    <3>2. \A i2 \in DOMAIN logs[n] : FALSE
      BY <3>1, EmptySeq
    <3>3. JobFits(x, tries[n], confirmed[n], logs[n])
      BY <1>1, <3>1, <3>2, NotificationAssumption DEF JobFits, MaxStalls
    <3>4. QED
      BY <1>2, <1>5, <2>1, <3>3 DEF Fits
  <2>2. CASE i # n
    BY <1>2, <1>3, <1>5, <2>2 DEF JobInv, Fits
  <2>3. QED
    BY <2>1, <2>2
<1>7. ASSUME NEW k \in Kinds PROVE (worker'[k] = Free \/ Holds(k)') /\ Runs(k)'
  <2>1. worker[k] # Free => worker[k].job \in DOMAIN jobs
    BY <1>3, HeldJob
  <2>2. QED
    BY <1>2, <1>3, <1>5, <2>1, OtherWorker
<1>8. QED
  BY <1>2, <1>3, <1>5, <1>6, <1>7 DEF JobInv, WorkersOK

\* Steps of the tables and restarts leave jobs; a restart frees the workers.
LEMMA JobsSame ==
    ASSUME JobInv, UNCHANGED <<jobs, logs, tries, confirmed>>,
           worker' = worker \/ worker' = [k \in Kinds |-> Free]
    PROVE  JobInv'
<1>1. JobsOK' /\ \A j \in JobIds : Fits(j)'
  BY DEF JobInv, JobsOK, Fits
<1>2. CASE worker' = worker
  <2>1. \A k \in Kinds : (worker'[k] = Free \/ Holds(k)') /\ Runs(k)'
    BY <1>2, HeldJob, OtherWorker
  <2>2. QED
    BY <1>1, <1>2, <2>1 DEF JobInv, WorkersOK
<1>3. CASE worker' = [k \in Kinds |-> Free]
  <2>1. worker' \in [Kinds -> Worker] /\ \A k \in Kinds : worker'[k] = Free
    BY <1>3, FreeGood
  <2>2. QED
    BY <1>1, <2>1 DEF JobInv, WorkersOK, Runs
<1>4. QED
  BY <1>2, <1>3

\* The row of a run that went well accounts for every entry, and so does that of the catch.
LEMMA LogKeepsJobs ==
    ASSUME JobInv, NEW k \in Kinds, Log(k) \/ CatchLog(k)
    PROVE  JobInv'
<1>1. worker[k].at \in {"log", "catchLog"} /\ worker[k] # Free
  BY FreeGood DEF Log, CatchLog
<1> PICK w : w = worker[k]
  OBVIOUS
<1> PICK j : j = w.job
  OBVIOUS
<1>2. /\ w \in Worker /\ Holds(k) /\ j \in JobIds /\ jobs[j] \in GoodJob
      /\ JobFits(jobs[j], tries[j], confirmed[j], logs[j])
      /\ RunFits(w, jobs[j], tries[j], confirmed[j], logs[j])
  BY <1>1, HeldJob
<1>3. w.left = {} /\ w.invalid \subseteq EntriesOfJob(j) /\ confirmed[j] \subseteq EntriesOfJob(j)
  BY <1>1, <1>2 DEF Holds, JobFits, EntriesOfJob
<1>4. \A some \in SUBSET EntriesOfJob(j) : Cardinality(some) \in Nat
  BY <1>2, PartFinite DEF GoodJob, EntriesOfJob
<1>5. /\ w.delivered \in Nat /\ w.failed \in Nat
      /\ w.delivered + w.failed = Cardinality(EntriesOfJob(j))
      /\ w.delivered <= Cardinality(confirmed[j])
  <2>1. EntriesOfJob(j) \ w.left = EntriesOfJob(j) /\ confirmed[j] \ w.left = confirmed[j]
    BY <1>3
  <2>2. QED
    BY <1>2, <2>1 DEF RunFits, EntriesOfJob, Worker
<1>6. UNCHANGED <<jobs, tries, confirmed>>
  BY DEF Log, CatchLog, history
<1>7. CASE Log(k)
  <2>1. PICK row : row = [total |-> Cardinality(EntriesOfJob(j)), delivered |-> w.delivered,
                          failed |-> w.failed, invalid |-> Cardinality(w.invalid), error |-> FALSE]
    OBVIOUS
  <2>2. row \in LogRow
    BY <1>3, <1>4, <1>5, <2>1 DEF LogRow
  <2>3. WriteLog(worker[k].job, row) /\ GoOn(k, "finish")
    BY <1>7, <2>1 DEF Log, EntriesOfJob
  <2>4. /\ row.total = Cardinality(EntriesOfJob(worker[k].job))
        /\ row.delivered + row.failed = row.total
        /\ row.delivered <= Cardinality(confirmed[worker[k].job])
        /\ ~row.error
    BY <1>5, <2>1
  <2>5. QED
    BY <1>1, <1>6, <2>2, <2>3, <2>4, MoveKeepsJobs
<1>8. CASE CatchLog(k)
  <2>1. PICK row : row = [total |-> Cardinality(EntriesOfJob(j)), delivered |-> 0,
                          failed |-> Cardinality(EntriesOfJob(j)), invalid |-> 0, error |-> TRUE]
    OBVIOUS
  <2>2. row \in LogRow
    BY <1>4, <2>1 DEF LogRow
  <2>3. WriteLog(worker[k].job, row) /\ GoOn(k, "fail")
    BY <1>8, <2>1 DEF CatchLog, EntriesOfJob
  <2>4. /\ row.total = Cardinality(EntriesOfJob(worker[k].job))
        /\ row.delivered + row.failed = row.total
        /\ row.delivered <= Cardinality(confirmed[worker[k].job])
    BY <1>3, <1>4, <2>1
  <2>5. QED
    BY <1>1, <1>6, <2>2, <2>3, <2>4, MoveKeepsJobs
<1>9. QED
  BY <1>7, <1>8

\* The job that a worker gives back: completed after the log, or for another try.
LEMMA GiveBackKeepsJobs ==
    ASSUME JobInv, NEW k \in Kinds, Finish(k) \/ FailJob(k)
    PROVE  JobInv'
<1>1. worker[k].at \in {"finish", "fail"} /\ worker[k] # Free
  BY FreeGood DEF Finish, FailJob
<1> PICK j : j = worker[k].job
  OBVIOUS
<1>2. /\ Holds(k) /\ j \in DOMAIN jobs /\ j \in JobIds
      /\ jobs[j] \in GoodJob /\ jobs[j].status = "active" /\ jobs[j].attempts < Attempts
      /\ JobFits(jobs[j], tries[j], confirmed[j], logs[j])
      /\ RunFits(worker[k], jobs[j], tries[j], confirmed[j], logs[j])
  BY <1>1, HeldJob
<1>3. UNCHANGED <<tries, confirmed, logs>> /\ worker' = [worker EXCEPT ![k] = Free]
  BY DEF Finish, FailJob, SetWorker, history
<1>4. /\ jobs[j].attempts \in Nat /\ jobs[j].stalls \in {0, 1} /\ Attempts \in Nat
      /\ jobs[j] \in Job
      /\ \A id \in RowIds : tries[j][id] \in Nat
  BY <1>2, NotificationAssumption DEF GoodJob, Job, MaxStalls, JobInv
<1>5. CASE Finish(k)
  <2>1. PICK x \in GoodJob : x = [jobs[j] EXCEPT !.status = "completed"]
    BY <1>2, JobValues
  <2>2. jobs' = [jobs EXCEPT ![j] = x] /\ worker[k].at = "finish"
    BY <1>5, <2>1 DEF Finish
  <2>3. x.part = jobs[j].part /\ x.status = "completed"
    BY <1>4, <2>1 DEF Job
  <2>4. worker[k].left = {}
    BY <1>2, <2>2 DEF Holds
  <2>5. \A id \in Ids(x.part.entries) : tries[j][id] > 0
    BY <1>2, <2>3, <2>4 DEF RunFits, Ids
  <2>6. \E i \in DOMAIN logs[j] : ~logs[j][i].error
    BY <1>2, <2>2 DEF RunFits
  <2>7. JobFits(x, tries[j], confirmed[j], logs[j])
    BY <1>2, <2>3, <2>5, <2>6 DEF JobFits
  <2>8. QED
    BY <1>1, <1>2, <1>3, <2>2, <2>3, <2>7, BullKeeps
<1>6. CASE FailJob(k)
  <2>1. PICK x \in GoodJob :
            x = [jobs[j] EXCEPT !.attempts = @ + 1,
                                !.status = IF jobs[j].attempts + 1 < Attempts
                                           THEN "delayed" ELSE "failed"]
    BY <1>2, JobValues
  <2>2. jobs' = [jobs EXCEPT ![j] = x]
    BY <1>6, <2>1 DEF FailJob
  <2>3. /\ x.part = jobs[j].part /\ x.status \in {"delayed", "failed"}
        /\ x.attempts = jobs[j].attempts + 1 /\ x.stalls = jobs[j].stalls
    BY <1>4, <2>1 DEF Job
  <2>4. \A id \in RowIds : tries[j][id] <= x.attempts + x.stalls
    BY <1>2, <1>4, <2>3 DEF JobFits
  <2>5. JobFits(x, tries[j], confirmed[j], logs[j])
    BY <1>2, <2>3, <2>4 DEF JobFits
  <2>6. QED
    BY <1>1, <1>2, <1>3, <2>2, <2>3, <2>5, BullKeeps
<1>7. QED
  BY <1>5, <1>6

LEMMA TakeKeepsJobs ==
    ASSUME JobInv, NEW k \in Kinds, NEW j \in DOMAIN jobs, TakeJob(k, j)
    PROVE  JobInv'
<1>1. j \in JobIds /\ jobs[j] \in GoodJob /\ jobs[j].status = "waiting"
  BY JobFacts DEF JobInv, TakeJob
<1>2. jobs[j] \in Job /\ jobs[j].attempts < Attempts /\ JobFits(jobs[j], tries[j], confirmed[j], logs[j])
  BY <1>1 DEF GoodJob, JobInv, Fits
<1>3. PICK x \in GoodJob : x = [jobs[j] EXCEPT !.status = "active"]
  BY <1>1, <1>2, JobValues
<1>4. /\ x.part = jobs[j].part /\ x.status = "active"
      /\ x.attempts = jobs[j].attempts /\ x.stalls = jobs[j].stalls
  BY <1>2, <1>3 DEF Job
<1>5. /\ jobs' = [jobs EXCEPT ![j] = x] /\ UNCHANGED <<tries, confirmed, logs>>
      /\ worker[k] = Free /\ jobs[j].part.kind = k
      /\ worker' = [worker EXCEPT ![k] = Running("send", j, x.part.entries)]
  BY <1>3, <1>4 DEF TakeJob, SetWorker, history
<1>6. JobFits(x, tries[j], confirmed[j], logs[j])
  <2>1. jobs[j].attempts \in Nat /\ jobs[j].stalls \in Nat /\ \A id \in RowIds : tries[j][id] \in Nat
    BY <1>1, <1>2 DEF Job, JobInv
  <2>2. \A id \in RowIds : tries[j][id] <= x.attempts + x.stalls + 1
    BY <1>1, <1>2, <1>4, <2>1 DEF JobFits
  <2>3. QED
    BY <1>2, <1>4, <2>2 DEF JobFits
<1>7. QED
  BY <1>1, <1>4, <1>5, <1>6, BullKeeps

LEMMA WorkKeepsJobs ==
    ASSUME JobInv, NEW k \in Kinds, Work(k)
    PROVE  JobInv'
<1>1. CASE Cleanup(k) \/ CleanupFails(k)
  BY <1>1, MoveKeepsJobs DEF Cleanup, CleanupFails, history
<1>2. CASE LogFails(k)
  BY <1>2, MoveKeepsJobs DEF LogFails, history
<1>3. CASE CatchLogFails(k)
  BY <1>3, MoveKeepsJobs DEF CatchLogFails, history
<1>4. QED
  BY <1>1, <1>2, <1>3, TakeKeepsJobs, SendKeepsJobs, LogKeepsJobs, GiveBackKeepsJobs DEF Work

\* Bull's timers: a retry that is due, and a job that a restart left active.
LEMMA TendKeepsJobs ==
    ASSUME JobInv, NEW j \in JobIds, Tend(j)
    PROVE  JobInv'
<1>1. j \in DOMAIN jobs /\ jobs[j] \in GoodJob /\ jobs[j].status \in {"delayed", "active"}
  BY JobFacts DEF JobInv, Tend, Promote, Stalled, IsStalled
<1>2. /\ jobs[j] \in Job /\ jobs[j].attempts < Attempts
      /\ JobFits(jobs[j], tries[j], confirmed[j], logs[j])
  BY <1>1 DEF GoodJob, JobInv, Fits
<1>3. /\ jobs[j].attempts \in Nat /\ jobs[j].stalls \in {0, 1} /\ Attempts \in Nat
      /\ \A id \in RowIds : tries[j][id] \in Nat
  BY <1>2, NotificationAssumption DEF Job, MaxStalls, JobInv
<1>4. UNCHANGED <<tries, confirmed, logs, worker>>
  BY DEF Tend, Promote, Stalled, history
<1>5. \A k \in Kinds : worker[k] = Free \/ worker[k].job # j
  <2>1. CASE Promote(j)
    BY <2>1, HeldJob DEF Promote
  <2>2. CASE Stalled(j)
    BY <2>2 DEF Stalled, IsStalled
  <2>3. QED
    BY <2>1, <2>2 DEF Tend
<1>6. PICK x \in GoodJob :
          /\ jobs' = [jobs EXCEPT ![j] = x] /\ x.part = jobs[j].part
          /\ x.status \in {"waiting", "failed"}
          /\ \A id \in RowIds : x.status = "waiting" => tries[j][id] <= x.attempts + x.stalls
  <2>1. CASE Promote(j)
    <3>1. PICK x \in GoodJob : x = [jobs[j] EXCEPT !.status = "waiting"]
      BY <1>1, <1>2, JobValues
    <3>2. /\ x.part = jobs[j].part /\ x.status = "waiting"
          /\ x.attempts = jobs[j].attempts /\ x.stalls = jobs[j].stalls
      BY <1>2, <3>1 DEF Job
    <3>3. jobs' = [jobs EXCEPT ![j] = x] /\ jobs[j].status = "delayed"
      BY <2>1, <3>1 DEF Promote
    <3>4. \A id \in RowIds : tries[j][id] <= x.attempts + x.stalls
      BY <1>2, <3>2, <3>3 DEF JobFits
    <3>5. QED
      BY <3>2, <3>3, <3>4
  <2>2. CASE Stalled(j) /\ jobs[j].stalls < MaxStalls
    <3>1. PICK x \in GoodJob : x = [jobs[j] EXCEPT !.stalls = @ + 1, !.status = "waiting"]
      BY <1>1, <1>2, <2>2, JobValues
    <3>2. /\ x.part = jobs[j].part /\ x.status = "waiting"
          /\ x.attempts = jobs[j].attempts /\ x.stalls = jobs[j].stalls + 1
      BY <1>2, <3>1 DEF Job
    <3>3. jobs' = [jobs EXCEPT ![j] = x] /\ jobs[j].status = "active"
      BY <2>2, <3>1 DEF Stalled, IsStalled
    <3>4. \A id \in RowIds : tries[j][id] <= x.attempts + x.stalls
      BY <1>2, <1>3, <3>2, <3>3 DEF JobFits
    <3>5. QED
      BY <3>2, <3>3, <3>4
  <2>3. CASE Stalled(j) /\ ~(jobs[j].stalls < MaxStalls)
    <3>1. PICK x \in GoodJob : x = [jobs[j] EXCEPT !.status = "failed"]
      BY <1>1, JobValues
    <3>2. x.part = jobs[j].part /\ x.status = "failed"
      BY <1>2, <3>1 DEF Job
    <3>3. jobs' = [jobs EXCEPT ![j] = x]
      BY <2>3, <3>1 DEF Stalled
    <3>4. QED
      BY <3>2, <3>3
  <2>4. QED
    BY <2>1, <2>2, <2>3 DEF Tend
<1>7. JobFits(x, tries[j], confirmed[j], logs[j])
  BY <1>2, <1>6 DEF JobFits
<1>8. QED
  BY <1>1, <1>4, <1>5, <1>6, <1>7, BullKeeps

LEMMA JobsNext ==
    ASSUME IInv, [Next]_vars
    PROVE  JobInv'
<1>1. JobInv
  BY DEF IInv
<1>2. ASSUME NEW r \in Requests, Client(r) \/ Step(r) PROVE JobInv'
  <2>1. CASE AddJob(r)
    BY <2>1, AddKeepsJobs
  <2>2. CASE ~AddJob(r)
    <3>1. UNCHANGED <<jobs, logs, tries, confirmed, worker>>
      BY <1>2, <2>2 DEF Client, Step, RegisterFind, SendFind, RegisterUpdate, RegisterInsert,
                        AddFails, history
    <3>2. QED
      BY <1>1, <3>1, JobsSame
  <2>3. QED
    BY <2>1, <2>2
<1>3. CASE \/ \E d \in Departments : DepartmentDeleted(d)
           \/ Crash \/ UNCHANGED vars
  BY <1>1, <1>3, JobsSame DEF DepartmentDeleted, Crash, vars, history
<1>4. QED
  BY <1>1, <1>2, <1>3, WorkKeepsJobs, TendKeepsJobs DEF Next

-----------------------------------------------------------------------------
(* The invariant, and what follows from it.                                *)

LEMMA InvInit == Init => IInv
<1> SUFFICES ASSUME Init PROVE IInv
  OBVIOUS
<1>1. TableInv
  <2>1. DevicesOK
    BY NotificationAssumption DEF Init, DevicesOK, UniqueDevices
  <2>2. req \in [Requests -> GoodRequest] /\ \A r \in Requests : req[r].at # "regUpdate"
    BY IdleGood DEF Init
  <2>3. \A k \in Kinds : worker[k].invalid = {}
    BY FreeGood DEF Init
  <2>4. QED
    BY <2>1, <2>2, <2>3, NotificationAssumption DEF Init, TableInv, Remembered, RegisteredStays
<1>2. JobInv
  <2>1. jobs \in Seq(GoodJob) /\ Len(jobs) = 0 /\ DOMAIN jobs = {}
    BY EmptySeq DEF Init
  <2>2. JobsOK
    BY <2>1, NotificationAssumption DEF JobsOK
  <2>3. worker \in [Kinds -> Worker] /\ \A k \in Kinds : worker[k] = Free
    BY FreeGood DEF Init
  <2>4. /\ tries \in [JobIds -> [RowIds -> Nat]] /\ confirmed \in [JobIds -> SUBSET Entry]
        /\ logs \in [JobIds -> Seq(LogRow)]
    BY EmptySeq DEF Init
  <2>5. \A j \in JobIds : Fits(j)
    BY <2>1 DEF Init, Fits
  <2>6. QED
    BY <2>2, <2>3, <2>4, <2>5 DEF JobInv, WorkersOK, Runs
<1>3. QED
  BY <1>1, <1>2 DEF IInv

LEMMA InvNext == IInv /\ [Next]_vars => IInv'
BY TablesNext, JobsNext DEF IInv

LEMMA InvTypes == IInv => TypeOK
<1> SUFFICES ASSUME IInv PROVE TypeOK
  OBVIOUS
<1>1. devices \subseteq Device /\ stored \in 0 .. MaxRows /\ crashes \in 0 .. MaxCrashes
  BY DEF IInv, TableInv, DevicesOK
<1>2. ASSUME NEW r \in Requests
      PROVE  \/ req[r] \in Request
             \/ /\ req[r] = Adding(req[r].parts)
                /\ Len(req[r].parts) \in 1 .. 2
                /\ \A i \in DOMAIN req[r].parts : IsPart(req[r].parts[i])
  <2>1. req[r] \in Request \/ \E parts \in Seq(GoodPart) : Len(parts) \in 1 .. 2 /\ req[r] = Adding(parts)
    BY DEF IInv, TableInv, GoodRequest
  <2>2. ASSUME NEW parts \in Seq(GoodPart), Len(parts) \in 1 .. 2, req[r] = Adding(parts)
        PROVE  /\ req[r] = Adding(req[r].parts)
               /\ Len(req[r].parts) \in 1 .. 2
               /\ \A i \in DOMAIN req[r].parts : IsPart(req[r].parts[i])
    <3>1. req[r].parts = parts
      BY <2>2 DEF Adding
    <3>2. DOMAIN parts = 1 .. Len(parts)
      BY LenProperties
    <3>3. \A i \in DOMAIN parts : parts[i] \in GoodPart
      BY <3>2, ElementOfSeq
    <3>4. \A i \in DOMAIN parts : IsPart(parts[i])
      BY <3>3 DEF GoodPart, IsPart
    <3>5. QED
      BY <2>2, <3>1, <3>4
  <2>3. QED
    BY <2>1, <2>2
<1>3. Len(jobs) \in 0 .. MaxJobs /\ \A j \in DOMAIN jobs : jobs[j] \in Job /\ IsPart(jobs[j].part)
  <2>1. Len(jobs) \in Nat /\ Len(jobs) <= MaxJobs /\ \A j \in DOMAIN jobs : jobs[j] \in GoodJob
    BY JobFacts DEF IInv, JobInv, JobsOK
  <2>2. QED
    BY <2>1, NotificationAssumption DEF GoodJob, GoodPart, IsPart
<1>4. ASSUME NEW k \in Kinds
      PROVE  /\ worker[k].at \in WorkerLabel
             /\ worker[k] # Free => worker[k].job \in DOMAIN jobs
             /\ worker[k].left \subseteq Entry
             /\ worker[k].invalid \subseteq Entry
             /\ {worker[k].delivered, worker[k].failed} \subseteq Nat
  <2>1. worker[k] \in Worker
    BY DEF IInv, JobInv, WorkersOK
  <2>2. worker[k] # Free => worker[k].job \in DOMAIN jobs
    BY HeldJob DEF IInv
  <2>3. QED
    BY <2>1, <2>2 DEF Worker
<1>5. ASSUME NEW j \in JobIds, NEW i \in DOMAIN logs[j] PROVE logs[j][i] \in LogRow
  <2>1. logs[j] \in Seq(LogRow)
    BY DEF IInv, JobInv
  <2>2. i \in 1 .. Len(logs[j])
    BY <2>1, LenProperties
  <2>3. QED
    BY <2>1, <2>2, ElementOfSeq
<1>6. QED
  BY <1>1, <1>2, <1>3, <1>4, <1>5 DEF TypeOK

\* The repeats of a job are bounded, and its rows true.
LEMMA InvBooks == IInv => RepeatsBounded /\ LogsTrue
<1> SUFFICES ASSUME IInv PROVE RepeatsBounded /\ LogsTrue
  OBVIOUS
<1>1. DOMAIN jobs \subseteq JobIds /\ \A j \in JobIds : Fits(j)
  BY JobFacts DEF IInv, JobInv
<1>2. RepeatsBounded
  BY <1>1, NotificationAssumption DEF Fits, JobFits, RepeatsBounded, MaxStalls
<1>3. LogsTrue
  BY <1>1 DEF Fits, JobFits, LogsTrue
<1>4. QED
  BY <1>2, <1>3

\* Devices, queues, requests, workers and logs keep their types, whatever fails and
\* restarts.
THEOREM TypeCorrect == Spec => []TypeOK
<1>1. QED
  BY InvInit, InvNext, InvTypes, PTL DEF Spec

\* A registration that was answered with success is lost only with its token or its
\* department, whatever cleanups and other registrations interleave.
THEOREM RegistrationsStay == Spec => []RegisteredStays
<1>1. IInv => RegisteredStays
  BY DEF IInv, TableInv
<1>2. QED
  BY <1>1, InvInit, InvNext, PTL DEF Spec

\* However logs fail and restarts cut jobs, nobody is sent one notification more often
\* than its tries and the one start-over allow.
THEOREM RepeatsAreBounded == Spec => []RepeatsBounded
<1>1. QED
  BY InvInit, InvNext, InvBooks, PTL DEF Spec

\* A log row accounts for every entry of its job and claims no delivery that no gateway
\* confirmed; no job completes without its row.
THEOREM LogsAreTrue == Spec => []LogsTrue
<1>1. QED
  BY InvInit, InvNext, InvBooks, PTL DEF Spec

-----------------------------------------------------------------------------
(* Every step is one of AtLeastOnce, or none of its business.              *)

\* What Notification puts for the variables of AtLeastOnce.
Wanted == [j \in JobIds |-> IF j \in DOMAIN jobs THEN {e.id : e \in jobs[j].part.entries} ELSE {}]
TriedIds == [j \in JobIds |-> {id \in RowIds : tries[j][id] > 0}]
Outcome == [j \in JobIds |->
    IF j \notin DOMAIN jobs THEN "open"
    ELSE CASE jobs[j].status = "completed" -> "completed"
           [] jobs[j].status = "failed" -> "givenUp"
           [] OTHER -> "open"]
ServedJobs == {j \in DOMAIN jobs : jobs[j].part.kind \in Served}

Stutters == UNCHANGED <<Wanted, TriedIds, Outcome, ServedJobs>>
Steps == [Promise!Next]_(Promise!vars)

\* Nothing that AtLeastOnce sees changes.
LEMMA StutterIsStep == Stutters => Steps
BY DEF Stutters, Steps, Promise!vars, Wanted, TriedIds, Outcome, ServedJobs

LEMMA QuietStep == UNCHANGED <<jobs, tries>> => Steps
BY StutterIsStep DEF Stutters, Wanted, TriedIds, Outcome, ServedJobs

\* A new job is a new promise, to somebody.
LEMMA AddIsAsk ==
    ASSUME IInv, NEW r \in Requests, AddJob(r)
    PROVE  Steps
<1>1. PICK x \in GoodJob : jobs' = Append(jobs, x) /\ x.status = "waiting"
  BY AddedJob
<1>2. Len(jobs) < MaxJobs /\ UNCHANGED tries
  BY AddedJob
<1> PICK n : n = Len(jobs) + 1
  OBVIOUS
<1>3. /\ n \notin DOMAIN jobs /\ n \in JobIds /\ DOMAIN jobs' = DOMAIN jobs \cup {n}
      /\ jobs'[n] = x /\ \A i \in DOMAIN jobs : jobs'[i] = jobs[i]
  BY <1>1, <1>2, NewJob DEF IInv, JobInv
<1> PICK ids : ids = {e.id : e \in x.part.entries}
  OBVIOUS
<1>4. ids \in SUBSET RowIds /\ ids # {}
  BY DEF GoodJob, GoodPart, Part, Entry
<1>5. Wanted[n] = {} /\ Wanted' = [Wanted EXCEPT ![n] = ids]
  BY <1>3 DEF Wanted
<1>6. TriedIds' = TriedIds
  BY <1>2 DEF TriedIds
<1>7. Outcome' = Outcome
  BY <1>1, <1>3 DEF Outcome
<1>8. ServedJobs' \in {ServedJobs, ServedJobs \cup {n}}
  BY <1>3 DEF ServedJobs
<1>9. Promise!Ask(n, ids)
  BY <1>4, <1>5, <1>6, <1>7, <1>8 DEF ServedJobs, Promise!Ask, Wanted, TriedIds, Outcome
<1>10. QED
  BY <1>3, <1>4, <1>9 DEF Steps, Promise!Next

\* The entries of a batch are tried, and belong to the job.
LEMMA SendIsTry ==
    ASSUME IInv, NEW k \in Kinds, SendBatch(k)
    PROVE  Steps
<1> PICK j : j = worker[k].job
  OBVIOUS
<1>1. PICK batch : batch \subseteq worker[k].left /\ Tried(j, batch)
  BY DEF SendBatch
<1>2. worker[k] # Free /\ UNCHANGED jobs
  BY FreeGood DEF SendBatch
<1>3. /\ Holds(k) /\ j \in JobIds /\ j \in DOMAIN jobs /\ jobs[j].status = "active"
      /\ jobs[j] \in GoodJob
  BY <1>2, HeldJob DEF IInv
<1>4. batch \subseteq jobs[j].part.entries
  BY <1>1, <1>3 DEF Holds, EntriesOfJob
<1> PICK ids : ids = {e.id : e \in batch}
  OBVIOUS
<1>5. ids \in SUBSET RowIds
  BY <1>3, <1>4 DEF GoodJob, GoodPart, Part, Entry
<1>6. Wanted[j] # {} /\ ids \subseteq Wanted[j] /\ Outcome[j] = "open"
  BY <1>3, <1>4 DEF Wanted, Outcome, GoodJob, GoodPart
<1>7. Wanted' = Wanted /\ Outcome' = Outcome /\ ServedJobs' = ServedJobs
  BY <1>2 DEF Wanted, Outcome, ServedJobs
<1>8. TriedIds' = [TriedIds EXCEPT ![j] = @ \cup ids]
  <2>1. tries \in [JobIds -> [RowIds -> Nat]]
    BY DEF IInv, JobInv
  <2>2. /\ \A id \in RowIds : tries'[j][id] =
               IF id \in ids THEN tries[j][id] + 1 ELSE tries[j][id]
        /\ \A i \in JobIds : i # j => tries'[i] = tries[i]
    BY <1>1, <1>3, <2>1 DEF Tried
  <2>3. {id \in RowIds : tries'[j][id] > 0} = {id \in RowIds : tries[j][id] > 0} \cup ids
    BY <1>3, <1>5, <2>1, <2>2
  <2>4. QED
    BY <1>3, <2>2, <2>3 DEF TriedIds
<1>9. Promise!Try(j, ids)
  BY <1>6, <1>7, <1>8 DEF Promise!Try, Promise!Open, ServedJobs, Wanted, TriedIds, Outcome
<1>10. QED
  BY <1>3, <1>5, <1>9 DEF Steps, Promise!Next

\* Bull changes an open job: it stays open, is given up, or is completed when everybody
\* was tried.
LEMMA BullIsStep ==
    ASSUME IInv, NEW j \in DOMAIN jobs, NEW x \in GoodJob, jobs' = [jobs EXCEPT ![j] = x],
           x.part = jobs[j].part, UNCHANGED tries,
           jobs[j].status \notin {"completed", "failed"},
           x.status = "completed" => \A id \in Ids(jobs[j].part.entries) : tries[j][id] > 0
    PROVE  Steps
<1>1. j \in JobIds /\ jobs[j] \in GoodJob
  BY JobFacts DEF IInv, JobInv
<1>2. /\ DOMAIN jobs' = DOMAIN jobs
      /\ \A i \in DOMAIN jobs : jobs'[i] = IF i = j THEN x ELSE jobs[i]
  BY OneJob DEF IInv, JobInv
<1>3. Wanted' = Wanted /\ TriedIds' = TriedIds /\ ServedJobs' = ServedJobs
  BY <1>2 DEF Wanted, TriedIds, ServedJobs
<1>4. Wanted[j] # {} /\ Outcome[j] = "open"
  BY <1>1 DEF Wanted, Outcome, GoodJob, GoodPart
<1>5. CASE x.status \notin {"completed", "failed"}
  <2>1. Outcome' = Outcome
    BY <1>2, <1>5 DEF Outcome
  <2>2. QED
    BY <1>3, <2>1, StutterIsStep DEF Stutters
<1>6. CASE x.status = "failed"
  <2>1. Outcome' = [Outcome EXCEPT ![j] = "givenUp"]
    BY <1>1, <1>2, <1>6 DEF Outcome
  <2>2. Promise!GiveUp(j)
    BY <1>3, <1>4, <2>1 DEF Promise!GiveUp, Promise!Open, ServedJobs, Wanted, TriedIds, Outcome
  <2>3. QED
    BY <1>1, <2>2 DEF Steps, Promise!Next, Promise!Settle
<1>7. CASE x.status = "completed"
  <2>1. Outcome' = [Outcome EXCEPT ![j] = "completed"]
    BY <1>1, <1>2, <1>7 DEF Outcome
  <2>2. TriedIds[j] = Wanted[j]
    <3>1. JobFits(jobs[j], tries[j], confirmed[j], logs[j])
      BY <1>1 DEF IInv, JobInv, Fits
    <3>2. \A id \in RowIds : id \notin Ids(jobs[j].part.entries) => ~(tries[j][id] > 0)
      BY <3>1 DEF JobFits
    <3>3. Ids(jobs[j].part.entries) \subseteq RowIds
      BY <1>1 DEF Ids, GoodJob, GoodPart, Part, Entry
    <3>4. {id \in RowIds : tries[j][id] > 0} = Ids(jobs[j].part.entries)
      BY <1>7, <3>2, <3>3
    <3>5. QED
      BY <1>1, <3>4 DEF Wanted, TriedIds, Ids
  <2>3. Promise!Complete(j)
    BY <1>3, <1>4, <2>1, <2>2 DEF Promise!Complete, Promise!Open, ServedJobs, Wanted, TriedIds, Outcome
  <2>4. QED
    BY <1>1, <2>3 DEF Steps, Promise!Next, Promise!Settle
<1>8. QED
  BY <1>5, <1>6, <1>7

LEMMA WorkIsStep ==
    ASSUME IInv, NEW k \in Kinds, Work(k)
    PROVE  Steps
<1>1. ASSUME NEW j \in DOMAIN jobs, TakeJob(k, j) PROVE Steps
  <2>1. jobs[j] \in GoodJob /\ jobs[j].status = "waiting"
    BY <1>1, JobFacts DEF IInv, JobInv, TakeJob
  <2>2. jobs[j] \in Job /\ jobs[j].attempts < Attempts
    BY <2>1 DEF GoodJob
  <2>3. PICK x \in GoodJob : x = [jobs[j] EXCEPT !.status = "active"]
    BY <2>1, <2>2, JobValues
  <2>4. x.part = jobs[j].part /\ x.status = "active"
    BY <2>2, <2>3 DEF Job
  <2>5. jobs' = [jobs EXCEPT ![j] = x] /\ UNCHANGED tries
    BY <1>1, <2>3 DEF TakeJob, history
  <2>6. QED
    BY <2>1, <2>4, <2>5, BullIsStep
<1>2. CASE Finish(k) \/ FailJob(k)
  <2>1. worker[k] # Free /\ worker[k].at \in {"finish", "fail"}
    BY <1>2, FreeGood DEF Finish, FailJob
  <2>2. PICK j \in DOMAIN jobs : j = worker[k].job
    BY <2>1, HeldJob DEF IInv
  <2>3. /\ jobs[j] \in GoodJob /\ jobs[j] \in Job /\ jobs[j].status = "active" /\ Holds(k)
        /\ jobs[j].attempts < Attempts
        /\ RunFits(worker[k], jobs[j], tries[j], confirmed[j], logs[j])
    BY <2>1, <2>2, HeldJob DEF IInv, GoodJob
  <2>4. PICK x \in GoodJob : jobs' = [jobs EXCEPT ![j] = x] /\ x.part = jobs[j].part
    <3>1. CASE Finish(k)
      <4>1. PICK x \in GoodJob : x = [jobs[j] EXCEPT !.status = "completed"]
        BY <2>3, JobValues
      <4>2. x.part = jobs[j].part
        BY <2>3, <4>1 DEF Job
      <4>3. QED
        BY <2>2, <3>1, <4>1, <4>2 DEF Finish
    <3>2. CASE FailJob(k)
      <4>1. PICK x \in GoodJob :
                x = [jobs[j] EXCEPT !.attempts = @ + 1,
                                    !.status = IF jobs[j].attempts + 1 < Attempts
                                               THEN "delayed" ELSE "failed"]
        BY <2>3, JobValues
      <4>2. x.part = jobs[j].part
        BY <2>3, <4>1 DEF Job
      <4>3. QED
        BY <2>2, <3>2, <4>1, <4>2 DEF FailJob
    <3>3. QED
      BY <1>2, <3>1, <3>2
  <2>5. \A id \in Ids(jobs[j].part.entries) : tries[j][id] > 0
    <3>1. worker[k].left = {}
      BY <2>1, <2>3 DEF Holds
    <3>2. QED
      BY <2>3, <3>1 DEF RunFits, Ids
  <2>6. UNCHANGED tries
    BY <1>2 DEF Finish, FailJob, history
  <2>7. QED
    BY <2>3, <2>4, <2>5, <2>6, BullIsStep
<1>3. CASE \/ Cleanup(k) \/ CleanupFails(k) \/ Log(k) \/ LogFails(k)
           \/ CatchLog(k) \/ CatchLogFails(k)
  BY <1>3, QuietStep DEF Cleanup, CleanupFails, Log, LogFails, CatchLog, CatchLogFails, history
<1>4. QED
  BY <1>1, <1>2, <1>3, SendIsTry DEF Work

LEMMA TendIsStep ==
    ASSUME IInv, NEW j \in JobIds, Tend(j)
    PROVE  Steps
<1>1. j \in DOMAIN jobs /\ jobs[j] \in GoodJob /\ jobs[j].status \in {"delayed", "active"}
  BY JobFacts DEF IInv, JobInv, Tend, Promote, Stalled, IsStalled
<1>2. jobs[j] \in Job /\ jobs[j].attempts < Attempts
  BY <1>1 DEF GoodJob
<1> PICK x : x = IF Promote(j) THEN [jobs[j] EXCEPT !.status = "waiting"]
                 ELSE IF jobs[j].stalls < MaxStalls
                 THEN [jobs[j] EXCEPT !.stalls = @ + 1, !.status = "waiting"]
                 ELSE [jobs[j] EXCEPT !.status = "failed"]
  OBVIOUS
<1>3. x \in GoodJob /\ x.part = jobs[j].part /\ x.status \in {"waiting", "failed"}
  <2>1. CASE x = [jobs[j] EXCEPT !.status = "waiting"]
    BY <1>1, <1>2, <2>1, JobValues DEF Job
  <2>2. CASE /\ jobs[j].stalls < MaxStalls
             /\ x = [jobs[j] EXCEPT !.stalls = @ + 1, !.status = "waiting"]
    BY <1>1, <1>2, <2>2, JobValues DEF Job
  <2>3. CASE x = [jobs[j] EXCEPT !.status = "failed"]
    BY <1>1, <1>2, <2>3, JobValues DEF Job
  <2>4. QED
    BY <2>1, <2>2, <2>3
<1>4. jobs' = [jobs EXCEPT ![j] = x] /\ UNCHANGED tries
  BY DEF Tend, Promote, Stalled, history
<1>5. QED
  BY <1>1, <1>3, <1>4, BullIsStep

LEMMA NextIsStep == IInv /\ [Next]_vars => [Promise!Next]_(Promise!vars)
<1>1. ASSUME IInv, NEW r \in Requests, Client(r) \/ Step(r) PROVE Steps
  <2>1. AddJob(r) \/ UNCHANGED <<jobs, tries>>
    BY <1>1 DEF Client, Step, RegisterFind, SendFind, RegisterUpdate, RegisterInsert,
                AddFails, history
  <2>2. QED
    BY <1>1, <2>1, AddIsAsk, QuietStep
<1>2. ASSUME (\E d \in Departments : DepartmentDeleted(d)) \/ Crash \/ UNCHANGED vars PROVE Steps
  BY <1>2, QuietStep DEF DepartmentDeleted, Crash, vars, history
<1>3. QED
  BY <1>1, <1>2, WorkIsStep, TendIsStep DEF Next, Steps

LEMMA InitIsInit == Init => Promise!Init
<1>1. ASSUME Init PROVE DOMAIN jobs = {}
  BY <1>1, EmptySeq DEF Init
<1>2. QED
  BY <1>1 DEF Init, Promise!Init

\* The safety of KeepsPromise: every step keeps the promise of AtLeastOnce, so no job
\* counts as completed before everybody it is for was dealt with, and none is reopened.
THEOREM StepsKeepPromise == Spec => Promise!Init /\ [][Promise!Next]_(Promise!vars)
<1>1. QED
  BY InvInit, InvNext, InitIsInit, NextIsStep, PTL DEF Spec
=============================================================================
