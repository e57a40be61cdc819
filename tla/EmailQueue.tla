----------------------------- MODULE EmailQueue -----------------------------
(***************************************************************************)
(* The mail queue: EmailQueueService adds jobs to a Bull queue and works   *)
(* them off, by SMTP where that is configured and else, or when SMTP       *)
(* fails, through Postmark (EmailService).  Handlers wait for the add, not *)
(* for the mail.  The adds of waitlist mails race against five seconds; no *)
(* module calls them yet.                                                  *)
(*                                                                         *)
(* A gateway that accepts a mail may still leave the worker with an error: *)
(* the connection breaks before the answer.  So may Redis with a job.      *)
(***************************************************************************)
EXTENDS Integers, Sequences

CONSTANTS Kinds,       \* types of mail in use
          Configured,  \* gateways that are configured: subset of {"smtp", "postmark"}
          Requests,    \* slots for requests in flight
          Attempts,    \* defaultJobOptions.attempts: 3
          MaxJobs,     \* bound: jobs added in a behaviour
          MaxCrashes   \* bound: restarts of the server in a behaviour

\* Their options give them priority 1, the others 2; Postmark knows no others.
Urgent == {"otp", "password-reset"}
Waitlist == {"waitlist-welcome", "waitlist-already-exists"}

ASSUME EmailAssumption ==
    /\ Kinds \subseteq Urgent \cup Waitlist
    /\ Configured \subseteq {"smtp", "postmark"}
    /\ Attempts \in Nat \ {0}
    /\ MaxJobs \in Nat
    /\ MaxCrashes \in Nat

JobIds == 1 .. MaxJobs
MaxStalls == 1   \* Bull's maxStalledCount

VARIABLES
    jobs,     \* every job ever added, in the order it was added
    req,      \* req[r]: the add that slot r waits for
    worker,   \* what the processor of the queue holds
    crashes,  \* restarts so far
    \* History, which no handler reads:
    copies,   \* copies[j]: how often a gateway accepted the mail of job j
    doubts    \* doubts[j]: how often one did and the worker did not know or live on

vars == <<jobs, req, worker, crashes, copies, doubts>>

Job == [kind : Kinds,
        status : {"waiting", "active", "delayed", "completed", "failed"},
        attempts : 0 .. Attempts, stalls : 0 .. MaxStalls]

Idle == [at |-> "idle"]
Free == [at |-> "free", job |-> 0]

Init ==
    /\ jobs = <<>>
    /\ req = [r \in Requests |-> Idle]
    /\ worker = Free
    /\ crashes = 0
    /\ copies = [j \in JobIds |-> 0]
    /\ doubts = [j \in JobIds |-> 0]

-----------------------------------------------------------------------------
(* queueOtpEmail, queuePasswordResetEmail, queueWaitlistWelcomeEmail,      *)
(* queueWaitlistAlreadyExistsEmail                                         *)

Answer(r) == req' = [req EXCEPT ![r] = Idle]

Ask(r, kind) ==
    /\ req[r] = Idle
    /\ req' = [req EXCEPT ![r] = [at |-> "add", kind |-> kind]]
    /\ UNCHANGED <<jobs, worker, crashes, copies, doubts>>

Waiting(kind) == [kind |-> kind, status |-> "waiting", attempts |-> 0, stalls |-> 0]

\* Redis has the job, and says so or not; nobody hears it after the timeout.
AddJob(r) ==
    /\ req[r].at \in {"add", "late"}
    /\ Len(jobs) < MaxJobs
    /\ jobs' = Append(jobs, Waiting(req[r].kind))
    /\ Answer(r)
    /\ UNCHANGED <<worker, crashes, copies, doubts>>

\* Redis has it not: the caller gets the error, unless the timeout was first.
AddFails(r) ==
    /\ req[r].at \in {"add", "late"}
    /\ Answer(r)
    /\ UNCHANGED <<jobs, worker, crashes, copies, doubts>>

\* The caller of a waitlist mail is told of a failure; the add goes on.
AddTimeout(r) ==
    /\ req[r].at = "add"
    /\ req[r].kind \in Waitlist
    /\ req' = [req EXCEPT ![r].at = "late"]
    /\ UNCHANGED <<jobs, worker, crashes, copies, doubts>>

-----------------------------------------------------------------------------
(* processQueue: the processor, which takes one job at a time.             *)

GoOn(at) == worker' = [worker EXCEPT !.at = at]
Accepted(j) == copies' = [copies EXCEPT ![j] = @ + 1]
Doubtful(j) == doubts' = [doubts EXCEPT ![j] = @ + 1]

\* Bull hands out the waiting jobs by priority.
TakeJob(j) ==
    /\ worker = Free
    /\ jobs[j].status = "waiting"
    /\ jobs[j].kind \in Urgent
       \/ \A i \in DOMAIN jobs : jobs[i].status = "waiting" => jobs[i].kind \notin Urgent
    /\ jobs' = [jobs EXCEPT ![j].status = "active"]
    /\ worker' = [at |-> IF "smtp" \in Configured THEN "smtp" ELSE "postmark", job |-> j]
    /\ UNCHANGED <<req, crashes, copies, doubts>>

\* Mutant: no return once SMTP has the mail.
SmtpAcceptsAndGoesOn ==
    /\ worker.at = "smtp"
    /\ Accepted(worker.job)
    /\ GoOn("postmark")
    /\ UNCHANGED <<jobs, req, crashes, doubts>>

SmtpAccepts ==
    /\ worker.at = "smtp"
    /\ Accepted(worker.job)
    /\ GoOn("finish")
    /\ UNCHANGED <<jobs, req, crashes, doubts>>

\* Any error of SMTP is caught, and Postmark is next.
SmtpFails ==
    /\ worker.at = "smtp"
    /\ GoOn("postmark")
    /\ \/ UNCHANGED <<copies, doubts>>
       \/ Accepted(worker.job) /\ Doubtful(worker.job)
    /\ UNCHANGED <<jobs, req, crashes>>

Postmarks == "postmark" \in Configured /\ jobs[worker.job].kind \in Urgent

PostmarkAccepts ==
    /\ worker.at = "postmark"
    /\ Postmarks
    /\ Accepted(worker.job)
    /\ GoOn("finish")
    /\ UNCHANGED <<jobs, req, crashes, doubts>>

\* Mutant: the error of the last gateway is logged and no more.
PostmarkFailsSilently ==
    /\ worker.at = "postmark"
    /\ GoOn("finish")
    /\ UNCHANGED <<jobs, req, crashes, copies, doubts>>

\* No client, no template for the type, or an error of Postmark: thrown on.
PostmarkFails ==
    /\ worker.at = "postmark"
    /\ GoOn("fail")
    /\ \/ UNCHANGED <<copies, doubts>>
       \/ Postmarks /\ Accepted(worker.job) /\ Doubtful(worker.job)
    /\ UNCHANGED <<jobs, req, crashes>>

-----------------------------------------------------------------------------
(* Bull.                                                                   *)

\* The processor returned.
Finish ==
    /\ worker.at = "finish"
    /\ jobs' = [jobs EXCEPT ![worker.job].status = "completed"]
    /\ worker' = Free
    /\ UNCHANGED <<req, crashes, copies, doubts>>

\* The processor threw: the job is delayed for a retry, or failed for good.
FailJob ==
    LET job == jobs[worker.job]
        failures == job.attempts + 1
    IN
    /\ worker.at = "fail"
    /\ jobs' = [jobs EXCEPT ![worker.job] =
           [job EXCEPT !.attempts = failures,
                       !.status = IF failures < Attempts THEN "delayed" ELSE "failed"]]
    /\ worker' = Free
    /\ UNCHANGED <<req, crashes, copies, doubts>>

\* The backoff is over.
Promote(j) ==
    /\ jobs[j].status = "delayed"
    /\ jobs' = [jobs EXCEPT ![j].status = "waiting"]
    /\ UNCHANGED <<req, worker, crashes, copies, doubts>>

\* An active job that the processor does not hold, as after a restart, is
\* started over once, then failed.
Stalled(j) ==
    /\ jobs[j].status = "active"
    /\ worker.job # j
    /\ LET job == jobs[j] IN
       jobs' = [jobs EXCEPT ![j] =
           IF job.stalls < MaxStalls
           THEN [job EXCEPT !.stalls = job.stalls + 1, !.status = "waiting"]
           ELSE [job EXCEPT !.status = "failed"]]
    /\ UNCHANGED <<req, worker, crashes, copies, doubts>>

\* The server restarts: requests and processor are gone, the queue stays.
Crash ==
    /\ crashes < MaxCrashes
    /\ worker # Free \/ \E r \in Requests : req[r] # Idle
    /\ crashes' = crashes + 1
    /\ req' = [r \in Requests |-> Idle]
    /\ worker' = Free
    /\ IF worker.at = "finish" THEN Doubtful(worker.job) ELSE UNCHANGED doubts
    /\ UNCHANGED <<jobs, copies>>

Caller(r) ==
    \/ \E kind \in Kinds : Ask(r, kind)
    \/ AddJob(r) \/ AddFails(r) \/ AddTimeout(r)

Work ==
    \/ \E j \in DOMAIN jobs : TakeJob(j)
    \/ SmtpAccepts \/ SmtpFails \/ PostmarkAccepts \/ PostmarkFails
    \/ Finish \/ FailJob

Tend(j) == j \in DOMAIN jobs /\ (Promote(j) \/ Stalled(j))

Next ==
    \/ \E r \in Requests : Caller(r)
    \/ Work
    \/ \E j \in JobIds : Tend(j)
    \/ Crash

\* The constructor registers the processor and waits for nothing; it loops, its
\* gateways time out, Bull's timers tick.  Callers and Redis owe nothing.
Spec == Init /\ [][Next]_vars /\ WF_vars(Work) /\ \A j \in JobIds : WF_vars(Tend(j))

-----------------------------------------------------------------------------
(* What is true of every reachable state.                                  *)

Request ==
    {Idle} \cup [at : {"add"}, kind : Kinds] \cup [at : {"late"}, kind : Kinds \cap Waitlist]

\* Queue, requests and processor hold what their types say.
TypeOK ==
    /\ jobs \in Seq(Job)
    /\ Len(jobs) <= MaxJobs
    /\ req \in [Requests -> Request]
    /\ \/ worker = Free
       \/ worker \in [at : {"smtp", "postmark", "finish", "fail"}, job : DOMAIN jobs]
    /\ crashes \in 0 .. MaxCrashes
    /\ copies \in [JobIds -> Nat]
    /\ doubts \in [JobIds -> Nat]

\* The processor's job is active; no job outlives its attempts.
WorkerActive ==
    /\ worker # Free => jobs[worker.job].status = "active"
    /\ \A j \in DOMAIN jobs :
          jobs[j].status \notin {"completed", "failed"} => jobs[j].attempts < Attempts

\* A mail goes out again only because nobody knows that it went out: for every
\* copy but the first there was an answer that got lost or a restart before the
\* job was completed (the fallback and the retries of processQueue).  A job that
\* failed may have been sent none the less.
CopiesExplained == \A j \in JobIds : copies[j] <= doubts[j] + 1

-----------------------------------------------------------------------------
(* The promise: see AtLeastOnce.  A mail has one entry, its addressee.     *)

Promise == INSTANCE AtLeastOnce WITH
    Jobs <- JobIds,
    Entries <- {"to"},
    wanted <- [j \in JobIds |-> IF j \in DOMAIN jobs THEN {"to"} ELSE {}],
    tried <- [j \in JobIds |-> IF copies[j] > 0 THEN {"to"} ELSE {}],
    outcome <- [j \in JobIds |->
        IF j \notin DOMAIN jobs THEN "open"
        ELSE CASE jobs[j].status = "completed" -> "completed"
               [] jobs[j].status = "failed" -> "givenUp"
               [] OTHER -> "open"],
    served <- DOMAIN jobs

\* A job counts as completed only when a gateway has accepted its mail, and every
\* job is completed or given up in the end, whatever fails or restarts on the
\* way.
KeepsPromise == Promise!Spec
=============================================================================
