---------------------------- MODULE Notification ----------------------------
(***************************************************************************)
(* Push notifications, from the registration of a device to the log of     *)
(* what was delivered (src/src/modules/notification): NotificationService  *)
(* reads the devices and queues jobs, NotificationWorkerService works them *)
(* off through PushNotificationService and the gateways, forgets devices   *)
(* whose tokens are invalid, and writes notification_logs.                 *)
(*                                                                         *)
(* The queues are Bull's, modelled from the options the code gives them: a *)
(* job whose processor throws is tried Attempts times, and a job that was  *)
(* active when the server went down is started over once.  Each queue has  *)
(* one worker, which holds one job at a time.                              *)
(***************************************************************************)
EXTENDS Integers, Sequences, FiniteSetsExt

CONSTANTS Users, Tokens,
          Departments,
          Platforms,   \* subset of {"ios", "android", "web"}
          Configured,  \* gateways that are configured: subset of {"ios", "android"}
          Kinds,       \* queues in use: subset of {"timetable", "custom", "announcement"}
          Requests,    \* slots for requests in flight
          BatchSize,   \* tokens handed to a gateway at a time: 500
          Attempts,    \* defaultJobOptions.attempts: 3
          MaxRows,     \* bound: devices stored in a behaviour
          MaxJobs,     \* bound: jobs queued in a behaviour
          MaxCrashes,  \* bound: restarts of the server in a behaviour
          None         \* the null of the code

ASSUME NotificationAssumption ==
    /\ Platforms \subseteq {"ios", "android", "web"}
    /\ Configured \subseteq {"ios", "android"}
    /\ Kinds \subseteq {"timetable", "custom", "announcement"}
    /\ BatchSize \in Nat \ {0}
    /\ Attempts \in Nat \ {0}
    /\ MaxRows \in Nat
    /\ MaxJobs \in Nat
    /\ MaxCrashes \in Nat
    /\ None \notin Departments

RowIds == 1 .. MaxRows
JobIds == 1 .. MaxJobs
MaxStalls == 1   \* Bull's maxStalledCount

Departments0 == Departments \cup {None}

\* A row of devices; its token is unique among the user's devices only.
Device == [id : RowIds, user : Users, token : Tokens, platform : Platforms, dept : Departments0]

\* An element of a job's list of tokens, known by the device it was read from.
Entry == [id : RowIds, token : Tokens]

\* A job that waits in a request to be added, or that was added to a queue.
Part == [kind : Kinds, platform : {"ios", "android"}, entries : SUBSET Entry]
Job == [part : Part,
        status : {"waiting", "active", "delayed", "completed", "failed"},
        attempts : 0 .. Attempts, stalls : 0 .. MaxStalls]

\* A row of notification_logs.
LogRow == [total : Nat, delivered : Nat, failed : Nat, invalid : Nat, error : BOOLEAN]

VARIABLES
    devices,  \* table devices
    stored,   \* devices stored so far
    req,      \* req[r]: what slot r holds of the request it serves
    jobs,     \* every job ever added, in the order it was added
    worker,   \* worker[k]: what the worker of queue k holds
    logs,     \* logs[j]: the log rows written for job j
    crashes,  \* restarts so far
    \* History, which no handler reads:
    tries,      \* tries[j][id]: how often an entry of job j was dealt with
    confirmed,  \* confirmed[j]: entries of job j a gateway said it delivered
    registered, \* <<user, token>>: registrations answered with success
    removable   \* tokens a gateway called invalid or whose department was deleted

history == <<tries, confirmed, registered, removable>>
vars == <<devices, stored, req, jobs, worker, logs, crashes, history>>

\* A request: to register a device, whose row was found (id) or not, or to
\* add parts to the queues.
Idle == [at |-> "idle"]
Registering(at, id, u, t, p, d) ==
    [at |-> at, id |-> id, user |-> u, token |-> t, platform |-> p, dept |-> d]
Adding(parts) == [at |-> "add", parts |-> parts]

Request ==
    {Idle}
    \cup {Registering("regInsert", 0, u, t, p, d) :
              u \in Users, t \in Tokens, p \in Platforms, d \in Departments0}
    \cup {Registering("regUpdate", id, u, t, p, d) :
              id \in RowIds, u \in Users, t \in Tokens, p \in Platforms, d \in Departments0}

\* A worker that holds job j, with the counts of the run so far.
Running(at, j, left) ==
    [at |-> at, job |-> j, left |-> left, delivered |-> 0, failed |-> 0, invalid |-> {}]

Free == Running("free", 0, {})

WorkerLabel == {"free", "send", "cleanup", "log", "catchLog", "finish", "fail"}

Init ==
    /\ devices = {}
    /\ stored = 0
    /\ req = [r \in Requests |-> Idle]
    /\ jobs = <<>>
    /\ worker = [k \in Kinds |-> Free]
    /\ logs = [j \in JobIds |-> <<>>]
    /\ crashes = 0
    /\ tries = [j \in JobIds |-> [id \in RowIds |-> 0]]
    /\ confirmed = [j \in JobIds |-> {}]
    /\ registered = {}
    /\ removable = {}

-----------------------------------------------------------------------------
(* registerToken                                                           *)

DevicesOf(u, t) == {x \in devices : x.user = u /\ x.token = t}

Answer(r) == req' = [req EXCEPT ![r] = Idle]

\* findOne by user and token.
RegisterFind(r, u, t, p, d) ==
    /\ req[r] = Idle
    /\ req' = [req EXCEPT ![r] =
           IF DevicesOf(u, t) = {} THEN Registering("regInsert", 0, u, t, p, d)
           ELSE Registering("regUpdate", (CHOOSE x \in DevicesOf(u, t) : TRUE).id, u, t, p, d)]
    /\ UNCHANGED <<devices, stored, jobs, worker, logs, crashes, history>>

\* update by id: a column that was not given stays as it is, a row deleted since
\* changes nothing, and the answer is success.
RegisterUpdate(r) ==
    /\ req[r].at = "regUpdate"
    /\ devices' = {IF x.id = req[r].id
                   THEN [x EXCEPT !.platform = req[r].platform,
                                  !.dept = IF req[r].dept = None THEN @ ELSE req[r].dept]
                   ELSE x : x \in devices}
    /\ registered' = registered \cup {<<req[r].user, req[r].token>>}
    /\ Answer(r)
    /\ UNCHANGED <<stored, jobs, worker, logs, crashes, tries, confirmed, removable>>

\* save of a new row; the unique index on user and token may refuse it.
RegisterInsert(r) ==
    /\ req[r].at = "regInsert"
    /\ Answer(r)
    /\ IF DevicesOf(req[r].user, req[r].token) = {} /\ stored < MaxRows
       THEN /\ stored' = stored + 1
            /\ devices' = devices \cup
                   {[id |-> stored + 1, user |-> req[r].user, token |-> req[r].token,
                     platform |-> req[r].platform, dept |-> req[r].dept]}
            /\ registered' = registered \cup {<<req[r].user, req[r].token>>}
       ELSE UNCHANGED <<devices, stored, registered>>
    /\ UNCHANGED <<jobs, worker, logs, crashes, tries, confirmed, removable>>

-----------------------------------------------------------------------------
(* sendTimetableNotification, sendCustomNotification and                   *)
(* sendAnnouncementNotification                                            *)

\* The rows a notification is for: those of the departments it names.  Custom
\* notifications and announcements take one row of each token.
Chosen(kind, target) ==
    LET found == {x \in devices : x.dept \in target}
    IN  IF kind = "timetable" THEN {found}
        ELSE {s \in SUBSET found :
                 \A x \in found : \E y \in s : y.token = x.token
                                               /\ \A z \in s : z.token = y.token => z = y}

EntriesOf(rows) == {[id |-> x.id, token |-> x.token] : x \in rows}

\* Mutant: a job is queued though nobody is left for it.
PartsOfAnyway(kind, rows) ==
    LET of(platform, some) == [kind |-> kind, platform |-> platform, entries |-> EntriesOf(some)]
        ios == {x \in rows : x.platform = "ios"}
    IN  <<of("ios", ios), of("android", rows \ ios)>>

\* A job for the rows on ios, and one for all others.
PartsOf(kind, rows) ==
    LET part(platform, some) ==
            IF some = {} THEN <<>>
            ELSE <<[kind |-> kind, platform |-> platform, entries |-> EntriesOf(some)]>>
        ios == {x \in rows : x.platform = "ios"}
    IN  part("ios", ios) \o part("android", rows \ ios)

\* find on devices; without a device the answer is success at once.
SendFind(r, kind, target) ==
    /\ req[r] = Idle
    /\ kind = "timetable" => \E d \in Departments : target = {d}
    /\ \E rows \in Chosen(kind, target) :
          /\ rows # {}
          /\ req' = [req EXCEPT ![r] = Adding(PartsOf(kind, rows))]
    /\ UNCHANGED <<devices, stored, jobs, worker, logs, crashes, history>>

Waiting(part) == [part |-> part, status |-> "waiting", attempts |-> 0, stalls |-> 0]

\* The jobs are added one after the other.
AddJob(r) ==
    /\ req[r].at = "add"
    /\ Len(jobs) < MaxJobs
    /\ jobs' = Append(jobs, Waiting(Head(req[r].parts)))
    /\ IF Tail(req[r].parts) = <<>> THEN Answer(r)
       ELSE req' = [req EXCEPT ![r] = Adding(Tail(req[r].parts))]
    /\ UNCHANGED <<devices, stored, worker, logs, crashes, history>>

\* Redis refuses: the request fails, whatever was added before.
AddFails(r) ==
    /\ req[r].at = "add"
    /\ Answer(r)
    /\ UNCHANGED <<devices, stored, jobs, worker, logs, crashes, history>>

-----------------------------------------------------------------------------
(* processNotificationJob                                                  *)

SetWorker(k, w) == worker' = [worker EXCEPT ![k] = w]
GoOn(k, at) == worker' = [worker EXCEPT ![k].at = at]

\* Bull hands the worker of queue k a job that waits.
TakeJob(k, j) ==
    /\ worker[k] = Free
    /\ jobs[j].part.kind = k
    /\ jobs[j].status = "waiting"
    /\ jobs' = [jobs EXCEPT ![j].status = "active"]
    /\ SetWorker(k, Running("send", j, jobs[j].part.entries))
    /\ UNCHANGED <<devices, stored, req, logs, crashes, history>>

\* The entries of job j that were dealt with once more.
Tried(j, batch) ==
    tries' = [tries EXCEPT ![j] = [id \in RowIds |->
                  IF \E e \in batch : e.id = id THEN @[id] + 1 ELSE @[id]]]

\* Mutant: what was handed over counts as delivered.
CountedHandedOver(w, batch, delivered, invalid) ==
    [w EXCEPT !.left = @ \ batch,
              !.delivered = @ + Cardinality(batch \ invalid),
              !.failed = @ + Cardinality(invalid),
              !.invalid = @ \cup invalid]

\* Mutant: every token that was not delivered to is taken for invalid.
CountedAllInvalid(w, batch, delivered, invalid) ==
    [w EXCEPT !.left = @ \ batch,
              !.delivered = @ + Cardinality(delivered),
              !.failed = @ + Cardinality(batch \ delivered),
              !.invalid = @ \cup (batch \ delivered)]

\* The worker's counts once a gateway delivered to some entries of a batch and
\* called others invalid; the rest failed.
Counted(w, batch, delivered, invalid) ==
    [w EXCEPT !.left = @ \ batch,
              !.delivered = @ + Cardinality(delivered),
              !.failed = @ + Cardinality(batch \ delivered),
              !.invalid = @ \cup invalid]

\* After the last batch: forget invalid tokens if there are any, then log.
NextStep(w) ==
    [w EXCEPT !.at = IF w.left # {} THEN "send"
                     ELSE IF w.invalid # {} THEN "cleanup" ELSE "log"]

\* Mutant: only the first batch is sent.
SendFirstBatch(k) ==
    /\ worker[k].at = "send"
    /\ \E batch \in SUBSET worker[k].left :
          /\ Cardinality(batch) = Min({BatchSize, Cardinality(worker[k].left)})
          /\ SetWorker(k, NextStep([Counted(worker[k], batch, batch, {}) EXCEPT !.left = {}]))
          /\ Tried(worker[k].job, batch)
          /\ confirmed' = [confirmed EXCEPT ![worker[k].job] = @ \cup batch]
    /\ UNCHANGED <<devices, stored, req, jobs, logs, crashes, registered, removable>>

\* One batch goes to the gateway of the job's platform, which delivers some
\* entries and calls some invalid.  An error of the whole batch counts all of
\* it as failed; so does a gateway that is not configured, for all batches.
SendBatch(k) ==
    /\ worker[k].at = "send"
    /\ LET w == worker[k]
           configured == jobs[w.job].part.platform \in Configured
           size == IF configured THEN Min({BatchSize, Cardinality(w.left)})
                   ELSE Cardinality(w.left)
       IN  \E batch \in SUBSET w.left : \E delivered \in SUBSET batch :
           \E invalid \in SUBSET (batch \ delivered) :
              /\ Cardinality(batch) = size
              /\ ~configured => delivered = {} /\ invalid = {}
              /\ SetWorker(k, NextStep(Counted(w, batch, delivered, invalid)))
              /\ Tried(w.job, batch)
              /\ confirmed' = [confirmed EXCEPT ![w.job] = @ \cup delivered]
              /\ removable' = removable \cup {e.token : e \in invalid}
    /\ UNCHANGED <<devices, stored, req, jobs, logs, crashes, registered>>

\* cleanupInvalidTokens: delete by token, whoever registered it.
Cleanup(k) ==
    /\ worker[k].at = "cleanup"
    /\ devices' = {x \in devices : \A e \in worker[k].invalid : e.token # x.token}
    /\ GoOn(k, "log")
    /\ UNCHANGED <<stored, req, jobs, logs, crashes, history>>

\* A delete that fails is passed over.
CleanupFails(k) ==
    /\ worker[k].at = "cleanup"
    /\ GoOn(k, "log")
    /\ UNCHANGED <<devices, stored, req, jobs, logs, crashes, history>>

WriteLog(j, row) == logs' = [logs EXCEPT ![j] = Append(@, row)]

Log(k) ==
    /\ worker[k].at = "log"
    /\ WriteLog(worker[k].job,
           [total |-> Cardinality(jobs[worker[k].job].part.entries),
            delivered |-> worker[k].delivered, failed |-> worker[k].failed,
            invalid |-> Cardinality(worker[k].invalid), error |-> FALSE])
    /\ GoOn(k, "finish")
    /\ UNCHANGED <<devices, stored, req, jobs, crashes, history>>

\* The log cannot be written: the only error that reaches the catch.
LogFails(k) ==
    /\ worker[k].at = "log"
    /\ GoOn(k, "catchLog")
    /\ UNCHANGED <<devices, stored, req, jobs, logs, crashes, history>>

\* The catch logs that nothing was delivered.
CatchLog(k) ==
    /\ worker[k].at = "catchLog"
    /\ LET total == Cardinality(jobs[worker[k].job].part.entries)
       IN  WriteLog(worker[k].job, [total |-> total, delivered |-> 0, failed |-> total,
                                    invalid |-> 0, error |-> TRUE])
    /\ GoOn(k, "fail")
    /\ UNCHANGED <<devices, stored, req, jobs, crashes, history>>

CatchLogFails(k) ==
    /\ worker[k].at = "catchLog"
    /\ GoOn(k, "fail")
    /\ UNCHANGED <<devices, stored, req, jobs, logs, crashes, history>>

-----------------------------------------------------------------------------
(* Bull.                                                                   *)

\* The processor returned.
Finish(k) ==
    /\ worker[k].at = "finish"
    /\ jobs' = [jobs EXCEPT ![worker[k].job].status = "completed"]
    /\ SetWorker(k, Free)
    /\ UNCHANGED <<devices, stored, req, logs, crashes, history>>

\* Mutant: one retry more than attempts allows.
FailJobLate(k) ==
    /\ worker[k].at = "fail"
    /\ LET job == jobs[worker[k].job]
       IN  jobs' = [jobs EXCEPT ![worker[k].job] =
               IF job.attempts < Attempts
               THEN [job EXCEPT !.attempts = @ + 1, !.status = "delayed"]
               ELSE [job EXCEPT !.status = "failed"]]
    /\ SetWorker(k, Free)
    /\ UNCHANGED <<devices, stored, req, logs, crashes, history>>

\* The processor threw: the job is delayed for a retry, or failed for good.
FailJob(k) ==
    /\ worker[k].at = "fail"
    /\ LET job == jobs[worker[k].job]
       IN  jobs' = [jobs EXCEPT ![worker[k].job] =
               [job EXCEPT !.attempts = @ + 1,
                           !.status = IF job.attempts + 1 < Attempts THEN "delayed" ELSE "failed"]]
    /\ SetWorker(k, Free)
    /\ UNCHANGED <<devices, stored, req, logs, crashes, history>>

\* The backoff is over.
Promote(j) ==
    /\ jobs[j].status = "delayed"
    /\ jobs' = [jobs EXCEPT ![j].status = "waiting"]
    /\ UNCHANGED <<devices, stored, req, worker, logs, crashes, history>>

\* An active job that no worker holds, as after a restart.
IsStalled(j) ==
    /\ jobs[j].status = "active"
    /\ \A k \in Kinds : worker[k] = Free \/ worker[k].job # j

\* The check for stalled jobs: start over once, then fail.
Stalled(j) ==
    /\ IsStalled(j)
    /\ jobs' = [jobs EXCEPT ![j] =
           IF jobs[j].stalls < MaxStalls
           THEN [jobs[j] EXCEPT !.stalls = @ + 1, !.status = "waiting"]
           ELSE [jobs[j] EXCEPT !.status = "failed"]]
    /\ UNCHANGED <<devices, stored, req, worker, logs, crashes, history>>

-----------------------------------------------------------------------------
(* The world around.                                                       *)

\* deleteDepartment deletes the department's devices.
DepartmentDeleted(d) ==
    /\ \E x \in devices : x.dept = d
    /\ devices' = {x \in devices : x.dept # d}
    /\ removable' = removable \cup {x.token : x \in {y \in devices : y.dept = d}}
    /\ UNCHANGED <<stored, req, jobs, worker, logs, crashes, tries, confirmed, registered>>

\* The server restarts: requests and workers are gone, the queues stay.
Crash ==
    /\ crashes < MaxCrashes
    /\ \/ \E r \in Requests : req[r] # Idle
       \/ \E k \in Kinds : worker[k] # Free
    /\ crashes' = crashes + 1
    /\ req' = [r \in Requests |-> Idle]
    /\ worker' = [k \in Kinds |-> Free]
    /\ UNCHANGED <<devices, stored, jobs, logs, history>>

Client(r) ==
    \/ \E u \in Users, t \in Tokens, p \in Platforms, d \in Departments0 :
          RegisterFind(r, u, t, p, d)
    \/ \E kind \in Kinds, target \in SUBSET Departments \cup {Departments0} :
          SendFind(r, kind, target)

Step(r) == RegisterUpdate(r) \/ RegisterInsert(r) \/ AddJob(r) \/ AddFails(r)

Work(k) ==
    \/ \E j \in DOMAIN jobs : TakeJob(k, j)
    \/ SendBatch(k) \/ Cleanup(k) \/ CleanupFails(k)
    \/ Log(k) \/ LogFails(k) \/ CatchLog(k) \/ CatchLogFails(k)
    \/ Finish(k) \/ FailJob(k)

Tend(j) == j \in DOMAIN jobs /\ (Promote(j) \/ Stalled(j))

Next ==
    \/ \E r \in Requests : Client(r) \/ Step(r)
    \/ \E k \in Kinds : Work(k)
    \/ \E j \in JobIds : Tend(j)
    \/ \E d \in Departments : DepartmentDeleted(d)
    \/ Crash

\* startWorkers waits for each process() before it calls the next, and Bull's
\* ends only when its queue is closed: of the three processors only the first is
\* sure to be registered.
Served == Kinds \cap {"timetable"}

\* That processor loops, and Bull's timers tick for the jobs that a processor
\* took; clients and the other queues owe nothing.
Fairness ==
    /\ \A k \in Served : WF_vars(Work(k))
    /\ \A j \in JobIds : WF_vars(Tend(j))

Spec == Init /\ [][Next]_vars /\ Fairness

-----------------------------------------------------------------------------
(* What is true of every reachable state.                                  *)

IsPart(p) == p \in Part /\ p.entries # {}

\* Tables, queues, requests and workers hold what their types say.
TypeOK ==
    /\ devices \subseteq Device
    /\ stored \in 0 .. MaxRows
    /\ \A r \in Requests :
          \/ req[r] \in Request
          \/ /\ req[r] = Adding(req[r].parts)
             /\ Len(req[r].parts) \in 1 .. 2
             /\ \A i \in DOMAIN req[r].parts : IsPart(req[r].parts[i])
    /\ Len(jobs) \in 0 .. MaxJobs
    /\ \A j \in DOMAIN jobs : jobs[j] \in Job /\ IsPart(jobs[j].part)
    /\ \A k \in Kinds :
          /\ worker[k].at \in WorkerLabel
          /\ worker[k] # Free => worker[k].job \in DOMAIN jobs
          /\ worker[k].left \subseteq Entry
          /\ worker[k].invalid \subseteq Entry
          /\ {worker[k].delivered, worker[k].failed} \subseteq Nat
    /\ \A j \in JobIds : \A i \in DOMAIN logs[j] : logs[j][i] \in LogRow
    /\ crashes \in 0 .. MaxCrashes

\* Nobody gets a notification more often than it may be tried, and once more
\* for a restart in the middle (attempts, processNotificationJob).
RepeatsBounded ==
    \A j \in JobIds, id \in RowIds : tries[j][id] <= Attempts + MaxStalls

\* A log row accounts for every token of its job, and never claims more
\* deliveries than gateways confirmed; a completed job has such a row.
LogsTrue ==
    \A j \in DOMAIN jobs :
        /\ \A i \in DOMAIN logs[j] :
              /\ logs[j][i].total = Cardinality(jobs[j].part.entries)
              /\ logs[j][i].delivered + logs[j][i].failed = logs[j][i].total
              /\ logs[j][i].delivered <= Cardinality(confirmed[j])
        /\ jobs[j].status = "completed" =>
              \E i \in DOMAIN logs[j] : ~logs[j][i].error

\* A registration that was answered with success stays, whatever cleanups and
\* registrations of the same token by others interleave, until a gateway calls
\* its token invalid or its department is deleted.
RegisteredStays ==
    \A ut \in registered : ut[2] \notin removable => DevicesOf(ut[1], ut[2]) # {}

\* A device has one row for each user that registered it: the table's unique
\* index, which the proofs rest on.
UniqueDevices ==
    \A x, y \in devices : x.id = y.id \/ (x.user = y.user /\ x.token = y.token) => x = y

-----------------------------------------------------------------------------
(* The promise: see AtLeastOnce.                                           *)

Settled(j) == jobs[j].status \in {"completed", "failed"}

Promise == INSTANCE AtLeastOnce WITH
    Jobs <- JobIds,
    Entries <- RowIds,
    wanted <- [j \in JobIds |->
        IF j \in DOMAIN jobs THEN {e.id : e \in jobs[j].part.entries} ELSE {}],
    tried <- [j \in JobIds |-> {id \in RowIds : tries[j][id] > 0}],
    outcome <- [j \in JobIds |->
        IF j \notin DOMAIN jobs THEN "open"
        ELSE CASE jobs[j].status = "completed" -> "completed"
               [] jobs[j].status = "failed" -> "givenUp"
               [] OTHER -> "open"],
    served <- {j \in DOMAIN jobs : jobs[j].part.kind \in Served}

\* Every queued notification is dealt with for everybody it is for before it
\* counts as completed, and one of the timetable queue is completed or given up
\* in the end, whatever fails or restarts on the way (startWorkers,
\* processNotificationJob).
KeepsPromise == Promise!Spec
=============================================================================
