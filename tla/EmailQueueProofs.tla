--------------------------- MODULE EmailQueueProofs ---------------------------
(***************************************************************************)
(* The safety of the mail queue for any mails, gateways, slots, attempts,  *)
(* jobs and restarts: types, the count of copies, and that every step is   *)
(* one of AtLeastOnce or none.                                             *)
(*                                                                         *)
(* How often a mail went out is known only from what the processor is      *)
(* about to do with its job, so the invariant counts the job it is about   *)
(* to complete like one that is completed (Sent).                          *)
(***************************************************************************)
EXTENDS EmailQueue, TLAPS, SequenceTheorems

\* The processor, or Bull after it, takes the mail of job j as sent.
Sent(j) ==
    \/ j \in DOMAIN jobs /\ jobs[j].status = "completed"
    \/ worker.at = "finish" /\ worker.job = j

\* Every copy was accepted without doubt once at most, and then the mail is sent.
Counted(j) ==
    /\ copies[j] <= doubts[j] + 1
    /\ IF Sent(j) THEN copies[j] > 0 ELSE copies[j] <= doubts[j]

IInv == TypeOK /\ WorkerActive /\ \A j \in JobIds : Counted(j)

-----------------------------------------------------------------------------
(* Jobs.                                                                   *)

JobsOK == jobs \in Seq(Job) /\ Len(jobs) <= MaxJobs

\* The jobs are numbered from 1, within the bound.
LEMMA JobFacts ==
    ASSUME JobsOK
    PROVE  /\ Len(jobs) \in Nat
           /\ DOMAIN jobs = 1 .. Len(jobs)
           /\ DOMAIN jobs \subseteq JobIds
           /\ \A j \in DOMAIN jobs : jobs[j] \in Job
<1>1. Len(jobs) \in Nat /\ DOMAIN jobs = 1 .. Len(jobs)
  BY LenProperties DEF JobsOK
<1>2. \A j \in DOMAIN jobs : jobs[j] \in Job
  BY <1>1, ElementOfSeq DEF JobsOK
<1>3. DOMAIN jobs \subseteq JobIds
  BY <1>1, EmailAssumption DEF JobsOK, JobIds
<1>4. QED
  BY <1>1, <1>2, <1>3

\* A step that changes one job leaves the others, and how many there are.
LEMMA OneJob ==
    ASSUME JobsOK, NEW j \in DOMAIN jobs, NEW x \in Job, jobs' = [jobs EXCEPT ![j] = x]
    PROVE  /\ JobsOK'
           /\ DOMAIN jobs' = DOMAIN jobs
           /\ \A i \in DOMAIN jobs : jobs'[i] = IF i = j THEN x ELSE jobs[i]
<1>1. j \in 1 .. Len(jobs)
  BY JobFacts
<1>2. /\ jobs' \in Seq(Job)
      /\ Len(jobs') = Len(jobs)
      /\ \A i \in 1 .. Len(jobs) : jobs'[i] = IF i = j THEN x ELSE jobs[i]
  BY <1>1, ExceptSeq DEF JobsOK
<1>3. DOMAIN jobs' = 1 .. Len(jobs)
  BY <1>2, LenProperties
<1>4. QED
  BY <1>2, <1>3, JobFacts DEF JobsOK

\* What the steps of Bull make of a job is a job.
LEMMA JobValues ==
    ASSUME NEW job \in Job
    PROVE  /\ \A s \in {"waiting", "active", "completed", "failed"} :
                  [job EXCEPT !.status = s] \in Job
           /\ job.stalls < MaxStalls =>
                  [job EXCEPT !.stalls = @ + 1, !.status = "waiting"] \in Job
           /\ job.attempts < Attempts => \A s \in {"delayed", "failed"} :
                  [job EXCEPT !.attempts = @ + 1, !.status = s] \in Job
<1>1. \A s \in {"waiting", "active", "completed", "failed"} : [job EXCEPT !.status = s] \in Job
  BY DEF Job
<1>2. ASSUME job.stalls < MaxStalls
      PROVE  [job EXCEPT !.stalls = @ + 1, !.status = "waiting"] \in Job
  <2>1. job.stalls + 1 \in 0 .. MaxStalls
    BY <1>2 DEF Job, MaxStalls
  <2>2. QED
    BY <2>1 DEF Job
<1>3. ASSUME job.attempts < Attempts, NEW s \in {"delayed", "failed"}
      PROVE  [job EXCEPT !.attempts = @ + 1, !.status = s] \in Job
  <2>1. job.attempts + 1 \in 0 .. Attempts
    BY <1>3, EmailAssumption DEF Job
  <2>2. QED
    BY <2>1 DEF Job
<1>4. QED
  BY <1>1, <1>2, <1>3

-----------------------------------------------------------------------------
(* One lemma per step: what it does to job, processor and counts.          *)

\* The processor goes from at to at2 with its job, and counts the copies that were
\* accepted: without doubt when it is about to complete the job, else in doubt.
LEMMA GatewayStep ==
    ASSUME IInv, SmtpAccepts \/ SmtpFails \/ PostmarkAccepts \/ PostmarkFails
    PROVE  IInv'
<1>1. worker.at \in {"smtp", "postmark"} /\ worker # Free
  BY DEF SmtpAccepts, SmtpFails, PostmarkAccepts, PostmarkFails, Free
<1>2. worker \in [at : {"smtp", "postmark", "finish", "fail"}, job : DOMAIN jobs]
  BY <1>1 DEF IInv, TypeOK
<1> PICK j \in DOMAIN jobs : j = worker.job
  BY <1>2
<1>3. j \in JobIds /\ jobs[j].status = "active"
  BY <1>1, <1>2, JobFacts DEF IInv, TypeOK, JobsOK, WorkerActive
<1>4. UNCHANGED <<jobs, req, crashes>>
  BY DEF SmtpAccepts, SmtpFails, PostmarkAccepts, PostmarkFails
<1>5. /\ worker' \in [at : {"smtp", "postmark", "finish", "fail"}, job : DOMAIN jobs]
      /\ worker'.job = j
      /\ worker' # Free
  BY <1>2 DEF SmtpAccepts, SmtpFails, PostmarkAccepts, PostmarkFails, GoOn, Free
<1>6. copies \in [JobIds -> Nat] /\ doubts \in [JobIds -> Nat]
  BY DEF IInv, TypeOK
<1>7. \/ /\ worker'.at = "finish"
         /\ copies' = [copies EXCEPT ![j] = @ + 1]
         /\ UNCHANGED doubts
      \/ /\ worker'.at # "finish"
         /\ \/ UNCHANGED <<copies, doubts>>
            \/ /\ copies' = [copies EXCEPT ![j] = @ + 1]
               /\ doubts' = [doubts EXCEPT ![j] = @ + 1]
  BY <1>2 DEF SmtpAccepts, SmtpFails, PostmarkAccepts, PostmarkFails, GoOn, Accepted, Doubtful
<1>8. copies' \in [JobIds -> Nat] /\ doubts' \in [JobIds -> Nat]
  BY <1>3, <1>6, <1>7
<1>9. TypeOK'
  BY <1>4, <1>5, <1>8 DEF IInv, TypeOK
<1>10. WorkerActive'
  BY <1>3, <1>4, <1>5 DEF IInv, WorkerActive
<1>11. Counted(j)'
  <2>1. worker.at # "finish" /\ jobs[j].status # "completed" /\ jobs'[j].status # "completed"
    BY <1>1, <1>3, <1>4
  <2>2. ~Sent(j) /\ copies[j] <= doubts[j] /\ copies[j] \in Nat /\ doubts[j] \in Nat
    BY <1>3, <1>6, <2>1 DEF IInv, Counted, Sent
  <2>3. Sent(j)' <=> worker'.at = "finish"
    BY <1>3, <1>4, <1>5, <2>1 DEF Sent
  <2>4. CASE worker'.at = "finish"
    <3>1. copies'[j] = copies[j] + 1 /\ doubts'[j] = doubts[j]
      BY <1>3, <1>6, <1>7, <2>4
    <3>2. QED
      BY <2>2, <2>3, <2>4, <3>1 DEF Counted
  <2>5. CASE worker'.at # "finish"
    <3>1. \/ copies'[j] = copies[j] /\ doubts'[j] = doubts[j]
          \/ copies'[j] = copies[j] + 1 /\ doubts'[j] = doubts[j] + 1
      BY <1>3, <1>6, <1>7, <2>5
    <3>2. QED
      BY <2>2, <2>3, <2>5, <3>1 DEF Counted
  <2>6. QED
    BY <2>4, <2>5
<1>12. ASSUME NEW i \in JobIds, i # j PROVE Counted(i)'
  <2>1. copies'[i] = copies[i] /\ doubts'[i] = doubts[i]
    BY <1>6, <1>7, <1>12
  <2>2. Sent(i)' <=> Sent(i)
    BY <1>1, <1>4, <1>5, <1>12 DEF Sent
  <2>3. QED
    BY <1>12, <2>1, <2>2 DEF IInv, Counted
<1>13. QED
  BY <1>9, <1>10, <1>11, <1>12 DEF IInv

\* A job of Bull changes its status: the processor's own when it is taken or given
\* back, any other one otherwise.  It becomes completed just when the processor was
\* about to complete it.
LEMMA BullStep ==
    ASSUME IInv, NEW j \in DOMAIN jobs, NEW x \in Job,
           jobs' = [jobs EXCEPT ![j] = x],
           x.status \notin {"completed", "failed"} => x.attempts < Attempts,
           UNCHANGED <<crashes, copies, doubts>>, req' = req,
           \/ /\ worker # Free
              /\ worker.job = j
              /\ worker' = Free
              /\ x.status = "completed" <=> worker.at = "finish"
           \/ /\ worker = Free
              /\ jobs[j].status # "completed"
              /\ x.status = "active"
              /\ worker' \in [at : {"smtp", "postmark"}, job : {j}]
           \/ /\ worker.job # j
              /\ jobs[j].status # "completed"
              /\ x.status # "completed"
              /\ UNCHANGED worker
    PROVE  IInv'
<1>1. JobsOK
  BY DEF IInv, TypeOK, JobsOK
<1>2. /\ JobsOK'
      /\ DOMAIN jobs' = DOMAIN jobs
      /\ \A i \in DOMAIN jobs : jobs'[i] = IF i = j THEN x ELSE jobs[i]
  BY <1>1, OneJob
<1>3. worker = Free \/ worker \in [at : {"smtp", "postmark", "finish", "fail"}, job : DOMAIN jobs]
  BY DEF IInv, TypeOK
<1>4. worker' = Free \/ worker' \in [at : {"smtp", "postmark", "finish", "fail"}, job : DOMAIN jobs']
  BY <1>2, <1>3
<1>5. TypeOK'
  BY <1>2, <1>4 DEF IInv, TypeOK, JobsOK
<1>6. Free.job = 0 /\ Free.at = "free" /\ j # 0
  BY <1>1, JobFacts DEF Free
<1>7. worker' # Free => jobs'[worker'.job].status = "active"
  BY <1>2, <1>3, <1>6 DEF IInv, WorkerActive
<1>8. \A i \in DOMAIN jobs' :
          jobs'[i].status \notin {"completed", "failed"} => jobs'[i].attempts < Attempts
  BY <1>2 DEF IInv, WorkerActive
<1>9. ASSUME NEW i \in JobIds PROVE Sent(i)' <=> Sent(i)
  <2>1. CASE i = j
    <3>1. worker # Free /\ worker.job = j => jobs[j].status = "active"
      BY DEF IInv, WorkerActive
    <3>2. Sent(j)' <=> x.status = "completed" \/ (worker'.at = "finish" /\ worker'.job = j)
      BY <1>2 DEF Sent
    <3>3. Sent(j) <=> jobs[j].status = "completed" \/ (worker.at = "finish" /\ worker.job = j)
      BY DEF Sent
    <3>4. QED
      BY <1>6, <2>1, <3>1, <3>2, <3>3
  <2>2. CASE i # j
    <3>1. i \in DOMAIN jobs' /\ jobs'[i].status = "completed" <=>
              i \in DOMAIN jobs /\ jobs[i].status = "completed"
      BY <1>2, <2>2
    <3>2. worker'.at = "finish" /\ worker'.job = i <=> worker.at = "finish" /\ worker.job = i
      BY <1>6, <2>2
    <3>3. QED
      BY <3>1, <3>2 DEF Sent
  <2>3. QED
    BY <2>1, <2>2
<1>10. \A i \in JobIds : Counted(i)'
  BY <1>9 DEF IInv, Counted
<1>11. QED
  BY <1>5, <1>7, <1>8, <1>10 DEF IInv, WorkerActive

-----------------------------------------------------------------------------
(* The invariant.                                                          *)

LEMMA InvInit == Init => IInv
<1> SUFFICES ASSUME Init PROVE IInv
  OBVIOUS
<1>1. jobs \in Seq(Job) /\ Len(jobs) = 0 /\ DOMAIN jobs = {}
  BY EmptySeq DEF Init
<1>2. worker = Free /\ Free.at = "free"
  BY DEF Init, Free
<1>3. TypeOK
  BY <1>1, <1>2, EmailAssumption DEF Init, TypeOK, Request
<1>4. \A j \in JobIds : ~Sent(j) /\ copies[j] = 0 /\ doubts[j] = 0
  BY <1>1, <1>2 DEF Init, Sent
<1>5. QED
  BY <1>1, <1>2, <1>3, <1>4 DEF IInv, WorkerActive, Counted

\* A caller's step changes neither jobs that there are nor counts.
LEMMA InvCaller ==
    ASSUME IInv, NEW r \in Requests, Caller(r)
    PROVE  IInv'
<1>1. CASE AddJob(r)
  <2>1. req[r].at \in {"add", "late"} /\ req[r] \in Request
    BY <1>1 DEF AddJob, IInv, TypeOK
  <2>2. req[r].kind \in Kinds
    BY <2>1 DEF Request, Idle
  <2> DEFINE new == Waiting(req[r].kind)
  <2>3. new \in Job /\ new.status = "waiting" /\ new.attempts = 0
    BY <2>2, EmailAssumption DEF Waiting, Job, MaxStalls
  <2>4. jobs' = Append(jobs, new) /\ Len(jobs) < MaxJobs
    BY <1>1 DEF AddJob
  <2> HIDE DEF new
  <2>5. JobsOK /\ Len(jobs) \in Nat /\ DOMAIN jobs = 1 .. Len(jobs)
    BY JobFacts DEF IInv, TypeOK, JobsOK
  <2>6. /\ jobs' \in Seq(Job)
        /\ Len(jobs') = Len(jobs) + 1
        /\ \A i \in 1 .. Len(jobs) : jobs'[i] = jobs[i]
        /\ jobs'[Len(jobs) + 1] = new
    BY <2>3, <2>4, <2>5, AppendProperties DEF JobsOK
  <2>7. DOMAIN jobs' = 1 .. Len(jobs) + 1
    BY <2>6, LenProperties
  <2>8. UNCHANGED <<worker, crashes, copies, doubts>> /\ req' = [req EXCEPT ![r] = Idle]
    BY <1>1 DEF AddJob, Answer
  <2>9. TypeOK'
    <3>1. Len(jobs') <= MaxJobs
      BY <2>4, <2>5, <2>6, EmailAssumption
    <3>2. req' \in [Requests -> Request]
      BY <2>8 DEF IInv, TypeOK, Request
    <3>3. worker = Free \/ worker \in [at : {"smtp", "postmark", "finish", "fail"}, job : DOMAIN jobs']
      BY <2>5, <2>7 DEF IInv, TypeOK
    <3>4. QED
      BY <2>6, <2>8, <3>1, <3>2, <3>3 DEF IInv, TypeOK
  <2>10. WorkerActive'
    <3>1. worker # Free => worker.job \in DOMAIN jobs
      BY DEF IInv, TypeOK
    <3>2. worker # Free => jobs'[worker.job].status = "active"
      BY <2>5, <2>6, <3>1 DEF IInv, WorkerActive
    <3>3. \A i \in DOMAIN jobs' : i \in DOMAIN jobs \/ jobs'[i] = new
      BY <2>5, <2>6, <2>7
    <3>4. \A i \in DOMAIN jobs' :
              jobs'[i].status \notin {"completed", "failed"} => jobs'[i].attempts < Attempts
      BY <2>3, <2>5, <2>6, <3>3, EmailAssumption DEF IInv, WorkerActive
    <3>5. QED
      BY <2>8, <3>2, <3>4 DEF WorkerActive
  <2>11. ASSUME NEW i \in JobIds PROVE Sent(i)' <=> Sent(i)
    <3>1. i \in DOMAIN jobs' => i \in DOMAIN jobs \/ jobs'[i] = new
      BY <2>5, <2>6, <2>7
    <3>2. i \in DOMAIN jobs => i \in DOMAIN jobs' /\ jobs'[i] = jobs[i]
      BY <2>5, <2>6, <2>7
    <3>3. QED
      BY <2>3, <2>8, <3>1, <3>2 DEF Sent
  <2>12. QED
    BY <2>8, <2>9, <2>10, <2>11 DEF IInv, Counted
<1>2. CASE ~AddJob(r)
  <2>1. UNCHANGED <<jobs, worker, crashes, copies, doubts>>
    BY <1>2 DEF Caller, Ask, AddFails, AddTimeout
  <2>2. req' \in [Requests -> Request]
    <3>1. req \in [Requests -> Request]
      BY DEF IInv, TypeOK
    <3>2. CASE AddFails(r)
      BY <3>1, <3>2 DEF AddFails, Answer, Request
    <3>3. CASE AddTimeout(r)
      <4>1. req[r] \in Request /\ req[r].at = "add" /\ req[r].kind \in Waitlist
        BY <3>1, <3>3 DEF AddTimeout
      <4>2. req[r] \in [at : {"add"}, kind : Kinds]
        BY <4>1 DEF Request, Idle
      <4>3. [req[r] EXCEPT !.at = "late"] \in [at : {"late"}, kind : Kinds \cap Waitlist]
        BY <4>1, <4>2
      <4>4. req' = [req EXCEPT ![r] = [req[r] EXCEPT !.at = "late"]]
        BY <3>3 DEF AddTimeout
      <4>5. QED
        BY <3>1, <4>3, <4>4 DEF Request
    <3>4. CASE \E kind \in Kinds : Ask(r, kind)
      BY <3>1, <3>4 DEF Ask, Request
    <3>5. QED
      BY <1>2, <3>2, <3>3, <3>4 DEF Caller
  <2>3. TypeOK'
    BY <2>1, <2>2 DEF IInv, TypeOK
  <2>4. \A i \in JobIds : Sent(i)' <=> Sent(i)
    BY <2>1 DEF Sent
  <2>5. QED
    BY <2>1, <2>3, <2>4 DEF IInv, WorkerActive, Counted
<1>3. QED
  BY <1>1, <1>2

\* The job that the processor holds, when it holds one.
LEMMA HeldJob ==
    ASSUME IInv, worker # Free
    PROVE  /\ worker.job \in DOMAIN jobs /\ jobs[worker.job] \in Job
           /\ jobs[worker.job].status = "active"
           /\ jobs[worker.job].attempts < Attempts
<1>1. worker.job \in DOMAIN jobs
  BY DEF IInv, TypeOK
<1>2. QED
  BY <1>1, JobFacts DEF IInv, TypeOK, JobsOK, WorkerActive

LEMMA InvWork ==
    ASSUME IInv, Work
    PROVE  IInv'
<1>1. CASE \E j \in DOMAIN jobs : TakeJob(j)
  <2>1. PICK j \in DOMAIN jobs : TakeJob(j)
    BY <1>1
  <2> DEFINE x == [jobs[j] EXCEPT !.status = "active"]
  <2>2. jobs[j] \in Job /\ jobs[j].status = "waiting" /\ jobs[j].attempts < Attempts
    BY <2>1, JobFacts DEF TakeJob, IInv, TypeOK, JobsOK, WorkerActive
  <2>3. x \in Job /\ x.status = "active" /\ x.attempts < Attempts
    BY <2>2, JobValues DEF Job
  <2>4. jobs' = [jobs EXCEPT ![j] = x]
    BY <2>1 DEF TakeJob
  <2> HIDE DEF x
  <2>5. worker = Free /\ worker' \in [at : {"smtp", "postmark"}, job : {j}]
    BY <2>1 DEF TakeJob
  <2>6. UNCHANGED <<crashes, copies, doubts>> /\ req' = req
    BY <2>1 DEF TakeJob
  <2>7. QED
    BY <2>2, <2>3, <2>4, <2>5, <2>6, BullStep
<1>2. CASE Finish
  <2>1. worker # Free /\ worker.at = "finish"
    BY <1>2 DEF Finish, Free
  <2>2. PICK j \in DOMAIN jobs : j = worker.job
    BY <2>1, HeldJob
  <2> DEFINE x == [jobs[j] EXCEPT !.status = "completed"]
  <2>3. x \in Job /\ x.status = "completed"
    BY <2>1, <2>2, HeldJob, JobValues DEF Job
  <2>4. jobs' = [jobs EXCEPT ![j] = x]
    BY <1>2, <2>2 DEF Finish
  <2> HIDE DEF x
  <2>5. worker' = Free /\ UNCHANGED <<crashes, copies, doubts>> /\ req' = req
    BY <1>2 DEF Finish
  <2>6. QED
    BY <2>1, <2>2, <2>3, <2>4, <2>5, BullStep
<1>3. CASE FailJob
  <2>1. worker # Free /\ worker.at = "fail"
    BY <1>3 DEF FailJob, Free
  <2>2. PICK j \in DOMAIN jobs : j = worker.job
    BY <2>1, HeldJob
  <2> DEFINE s == IF jobs[j].attempts + 1 < Attempts THEN "delayed" ELSE "failed"
             x == [jobs[j] EXCEPT !.attempts = @ + 1, !.status = s]
  <2>3. jobs[j] \in Job /\ jobs[j].attempts < Attempts
    BY <2>1, <2>2, HeldJob
  <2>4. x \in Job
    BY <2>3, JobValues
  <2>5. x.status # "completed" /\ (x.status \notin {"completed", "failed"} => x.attempts < Attempts)
    BY <2>3 DEF Job
  <2>6. jobs' = [jobs EXCEPT ![j] = x]
    BY <1>3, <2>2 DEF FailJob
  <2> HIDE DEF x
  <2>7. worker' = Free /\ UNCHANGED <<crashes, copies, doubts>> /\ req' = req
    BY <1>3 DEF FailJob
  <2>8. QED
    BY <2>1, <2>2, <2>4, <2>5, <2>6, <2>7, BullStep
<1>4. QED
  BY <1>1, <1>2, <1>3, GatewayStep DEF Work

LEMMA InvTend ==
    ASSUME IInv, NEW j \in JobIds, Tend(j)
    PROVE  IInv'
<1>1. j \in DOMAIN jobs /\ jobs[j] \in Job
  BY JobFacts DEF Tend, IInv, TypeOK, JobsOK
<1>2. CASE Promote(j)
  <2> DEFINE x == [jobs[j] EXCEPT !.status = "waiting"]
  <2>1. jobs[j].status = "delayed" /\ jobs[j].attempts < Attempts
    BY <1>1, <1>2 DEF Promote, IInv, WorkerActive
  <2>2. x \in Job /\ x.status = "waiting" /\ x.attempts < Attempts
    BY <1>1, <2>1, JobValues DEF Job
  <2>3. jobs' = [jobs EXCEPT ![j] = x]
    BY <1>2 DEF Promote
  <2> HIDE DEF x
  <2>4. worker.job # j
    BY <1>1, <2>1, JobFacts DEF IInv, TypeOK, JobsOK, WorkerActive, Free
  <2>5. UNCHANGED <<worker, crashes, copies, doubts>> /\ req' = req
    BY <1>2 DEF Promote
  <2>6. QED
    BY <1>1, <2>1, <2>2, <2>3, <2>4, <2>5, BullStep
<1>3. CASE Stalled(j)
  <2> DEFINE x == IF jobs[j].stalls < MaxStalls
                  THEN [jobs[j] EXCEPT !.stalls = @ + 1, !.status = "waiting"]
                  ELSE [jobs[j] EXCEPT !.status = "failed"]
  <2>1. jobs[j].status = "active" /\ jobs[j].attempts < Attempts
    BY <1>1, <1>3 DEF Stalled, IInv, WorkerActive
  <2>2. x \in Job
    BY <1>1, JobValues
  <2>3. x.status # "completed" /\ x.attempts < Attempts
    BY <1>1, <2>1 DEF Job
  <2>4. jobs' = [jobs EXCEPT ![j] = x]
    BY <1>3 DEF Stalled
  <2> HIDE DEF x
  <2>5. UNCHANGED <<worker, crashes, copies, doubts>> /\ req' = req /\ worker.job # j
    BY <1>3 DEF Stalled
  <2>6. QED
    BY <1>1, <2>1, <2>2, <2>3, <2>4, <2>5, BullStep
<1>4. QED
  BY <1>2, <1>3 DEF Tend

LEMMA InvCrash ==
    ASSUME IInv, Crash
    PROVE  IInv'
<1>1. /\ UNCHANGED <<jobs, copies>>
      /\ worker' = Free
      /\ crashes' = crashes + 1 /\ crashes < MaxCrashes
      /\ req' = [r \in Requests |-> Idle]
  BY DEF Crash
<1>2. Free.at = "free"
  BY DEF Free
<1>3. doubts' = IF worker.at = "finish" THEN [doubts EXCEPT ![worker.job] = @ + 1] ELSE doubts
  BY DEF Crash, Doubtful
<1>4. worker.at = "finish" => worker # Free /\ worker.job \in DOMAIN jobs
  BY <1>2, HeldJob
<1>5. DOMAIN jobs \subseteq JobIds
  BY JobFacts DEF IInv, TypeOK, JobsOK
<1>6. copies \in [JobIds -> Nat] /\ doubts \in [JobIds -> Nat]
  BY DEF IInv, TypeOK
<1>7. doubts' \in [JobIds -> Nat]
  BY <1>3, <1>4, <1>5, <1>6
<1>8. crashes' \in 0 .. MaxCrashes
  BY <1>1, EmailAssumption DEF IInv, TypeOK
<1>9. TypeOK'
  BY <1>1, <1>6, <1>7, <1>8 DEF IInv, TypeOK, Request
<1>10. WorkerActive'
  BY <1>1 DEF IInv, WorkerActive
<1>11. ASSUME NEW i \in JobIds PROVE Counted(i)'
  <2>1. Sent(i)' <=> i \in DOMAIN jobs /\ jobs[i].status = "completed"
    BY <1>1, <1>2 DEF Sent
  <2>2. copies'[i] = copies[i] /\ copies[i] \in Nat /\ doubts[i] \in Nat /\ doubts'[i] \in Nat
    BY <1>1, <1>6, <1>7
  <2>3. doubts'[i] >= doubts[i]
    BY <1>3, <1>4, <1>5, <1>6, <1>11
  <2>4. CASE worker.at = "finish" /\ worker.job = i
    <3>1. doubts'[i] = doubts[i] + 1
      BY <1>3, <1>6, <2>4, <1>11
    <3>2. ~Sent(i)'
      BY <1>4, <2>1, <2>4, HeldJob
    <3>3. copies[i] <= doubts[i] + 1
      BY <1>11 DEF IInv, Counted
    <3>4. QED
      BY <2>2, <3>1, <3>2, <3>3 DEF Counted
  <2>5. CASE ~(worker.at = "finish" /\ worker.job = i)
    <3>1. Sent(i)' <=> Sent(i)
      BY <2>1, <2>5 DEF Sent
    <3>2. QED
      BY <1>11, <2>2, <2>3, <3>1 DEF IInv, Counted
  <2>6. QED
    BY <2>4, <2>5
<1>12. QED
  BY <1>9, <1>10, <1>11 DEF IInv

LEMMA InvNext == IInv /\ [Next]_vars => IInv'
<1>1. ASSUME IInv, UNCHANGED vars PROVE IInv'
  BY <1>1 DEF vars, IInv, TypeOK, WorkerActive, Counted, Sent
<1>2. QED
  BY <1>1, InvCaller, InvWork, InvTend, InvCrash DEF Next

-----------------------------------------------------------------------------
(* What the runs check.                                                    *)

\* Queue, requests and processor keep their types, whatever fails and restarts.
THEOREM TypeCorrect == Spec => []TypeOK
<1>1. IInv => TypeOK
  BY DEF IInv
<1>2. QED
  BY <1>1, InvInit, InvNext, PTL DEF Spec

\* The processor works on an active job, and no job is tried more often than its
\* attempts allow (Bull, with the options of EmailQueueService).
THEOREM ProcessorActive == Spec => []WorkerActive
<1>1. IInv => WorkerActive
  BY DEF IInv
<1>2. QED
  BY <1>1, InvInit, InvNext, PTL DEF Spec

\* For every copy of a mail but the first there was a lost answer or a restart.
THEOREM CopiesAreExplained == Spec => []CopiesExplained
<1>1. IInv => CopiesExplained
  BY DEF IInv, CopiesExplained, Counted
<1>2. QED
  BY <1>1, InvInit, InvNext, PTL DEF Spec

-----------------------------------------------------------------------------
(* Every step is one of AtLeastOnce, or none of its business.              *)

\* What EmailQueue puts for the variables of AtLeastOnce.
Wanted == [j \in JobIds |-> IF j \in DOMAIN jobs THEN {"to"} ELSE {}]
Tried == [j \in JobIds |-> IF copies[j] > 0 THEN {"to"} ELSE {}]
Outcome == [j \in JobIds |->
    IF j \notin DOMAIN jobs THEN "open"
    ELSE CASE jobs[j].status = "completed" -> "completed"
           [] jobs[j].status = "failed" -> "givenUp"
           [] OTHER -> "open"]
ServedJobs == DOMAIN jobs

Stutters == UNCHANGED <<Wanted, Tried, Outcome, ServedJobs>>
Steps == [Promise!Next]_(Promise!vars)

\* Nothing that AtLeastOnce sees changes.
LEMMA StutterIsStep == Stutters => Steps
BY DEF Stutters, Steps, Promise!vars, Wanted, Tried, Outcome, ServedJobs

\* A request or a restart leaves the promise alone; so does one of Bull's
\* changes of status among waiting, delayed and active.
LEMMA QuietStep ==
    ASSUME IInv, UNCHANGED copies,
           \/ UNCHANGED jobs
           \/ \E j \in DOMAIN jobs, x \in Job :
                 /\ jobs' = [jobs EXCEPT ![j] = x]
                 /\ jobs[j].status \notin {"completed", "failed"}
                 /\ x.status \notin {"completed", "failed"}
    PROVE  Steps
<1>1. CASE UNCHANGED jobs
  BY <1>1, StutterIsStep DEF Stutters, Wanted, Tried, Outcome, ServedJobs
<1>2. ASSUME NEW j \in DOMAIN jobs, NEW x \in Job,
             jobs' = [jobs EXCEPT ![j] = x],
             jobs[j].status \notin {"completed", "failed"},
             x.status \notin {"completed", "failed"}
      PROVE  Steps
  <2>1. /\ DOMAIN jobs' = DOMAIN jobs
        /\ \A i \in DOMAIN jobs : jobs'[i] = IF i = j THEN x ELSE jobs[i]
    BY <1>2, OneJob DEF IInv, TypeOK, JobsOK
  <2>2. Wanted' = Wanted /\ Tried' = Tried
    BY <2>1 DEF Wanted, Tried
  <2>3. Outcome' = Outcome
    BY <1>2, <2>1 DEF Outcome
  <2>4. QED
    BY <2>1, <2>2, <2>3, StutterIsStep DEF Stutters, ServedJobs
<1>3. QED
  BY <1>1, <1>2

\* A new job is a new promise.
LEMMA AddIsAsk ==
    ASSUME IInv, NEW r \in Requests, AddJob(r)
    PROVE  Steps
<1> DEFINE n == Len(jobs) + 1
           job == Waiting(req[r].kind)
<1>1. JobsOK /\ req[r] \in Request /\ req[r].at \in {"add", "late"}
  BY DEF IInv, TypeOK, JobsOK, AddJob
<1>2. job \in Job
  BY <1>1, EmailAssumption DEF Request, Idle, Waiting, Job, MaxStalls
<1>3. Len(jobs) \in Nat /\ DOMAIN jobs = 1 .. Len(jobs) /\ n \in JobIds
  BY <1>1, JobFacts, EmailAssumption DEF AddJob, JobIds
<1> HIDE DEF job
<1>4. /\ DOMAIN jobs' = DOMAIN jobs \cup {n}
      /\ \A i \in DOMAIN jobs : jobs'[i] = jobs[i]
      /\ jobs'[n] = job
  <2>1. /\ Append(jobs, job) \in Seq(Job)
        /\ Len(Append(jobs, job)) = n
        /\ \A i \in 1 .. Len(jobs) : Append(jobs, job)[i] = jobs[i]
        /\ Append(jobs, job)[n] = job
    BY <1>1, <1>2, AppendProperties DEF JobsOK
  <2>2. jobs' = Append(jobs, job)
    BY DEF AddJob, job
  <2>3. DOMAIN jobs' = 1 .. n
    BY <2>1, <2>2, LenProperties
  <2>4. QED
    BY <1>3, <2>1, <2>2, <2>3
<1>5. n \notin DOMAIN jobs
  BY <1>3
<1>6. job.status = "waiting"
  BY DEF job, Waiting
<1> HIDE DEF n
<1>7. Wanted[n] = {} /\ Wanted' = [Wanted EXCEPT ![n] = {"to"}]
  BY <1>3, <1>4, <1>5 DEF Wanted
<1>8. Tried' = Tried
  BY DEF AddJob, Tried
<1>9. Outcome' = Outcome
  BY <1>3, <1>4, <1>5, <1>6 DEF Outcome
<1>10. Promise!Ask(n, {"to"})
  BY <1>4, <1>7, <1>8, <1>9 DEF Promise!Ask, Wanted, Tried, Outcome
<1>11. QED
  BY <1>3, <1>10 DEF Steps, Promise!Next

\* A mail that a gateway accepts is tried, known or not.
LEMMA CopyIsTry ==
    ASSUME IInv, NEW j \in DOMAIN jobs, jobs[j].status = "active",
           UNCHANGED jobs, copies' = [copies EXCEPT ![j] = @ + 1]
    PROVE  Steps
<1>1. j \in JobIds
  BY JobFacts DEF IInv, TypeOK, JobsOK
<1>2. copies \in [JobIds -> Nat]
  BY DEF IInv, TypeOK
<1>3. Wanted[j] = {"to"} /\ Outcome[j] = "open"
  BY <1>1 DEF Wanted, Outcome
<1>4. Wanted' = Wanted /\ Outcome' = Outcome
  BY DEF Wanted, Outcome
<1>5. Tried' = [Tried EXCEPT ![j] = @ \cup {"to"}]
  <2>1. copies'[j] > 0 /\ \A i \in JobIds : i # j => copies'[i] = copies[i]
    BY <1>1, <1>2
  <2>2. QED
    BY <1>1, <2>1 DEF Tried
<1>6. Promise!Try(j, {"to"})
  BY <1>3, <1>4, <1>5 DEF Promise!Try, Promise!Open, Wanted, Tried, Outcome
<1>7. QED
  BY <1>1, <1>6 DEF Steps, Promise!Next

\* A job that is completed was sent before; one that failed is given up.
LEMMA EndIsSettle ==
    ASSUME IInv, NEW j \in DOMAIN jobs, NEW x \in Job,
           jobs' = [jobs EXCEPT ![j] = x], UNCHANGED copies,
           jobs[j].status = "active",
           \/ x.status = "failed"
           \/ x.status = "completed" /\ Sent(j)
    PROVE  Steps
<1>1. j \in JobIds
  BY JobFacts DEF IInv, TypeOK, JobsOK
<1>2. /\ DOMAIN jobs' = DOMAIN jobs
      /\ \A i \in DOMAIN jobs : jobs'[i] = IF i = j THEN x ELSE jobs[i]
  BY OneJob DEF IInv, TypeOK, JobsOK
<1>3. Wanted[j] = {"to"} /\ Outcome[j] = "open"
  BY <1>1 DEF Wanted, Outcome
<1>4. Wanted' = Wanted /\ Tried' = Tried
  BY <1>2 DEF Wanted, Tried
<1>5. CASE x.status = "failed"
  <2>1. Outcome' = [Outcome EXCEPT ![j] = "givenUp"]
    BY <1>1, <1>2, <1>5 DEF Outcome
  <2>2. Promise!GiveUp(j)
    BY <1>3, <1>4, <2>1 DEF Promise!GiveUp, Promise!Open, Wanted, Tried, Outcome
  <2>3. QED
    BY <1>1, <2>2 DEF Steps, Promise!Next, Promise!Settle
<1>6. CASE x.status = "completed" /\ Sent(j)
  <2>1. Outcome' = [Outcome EXCEPT ![j] = "completed"]
    BY <1>1, <1>2, <1>6 DEF Outcome
  <2>2. Tried[j] = {"to"}
    BY <1>1, <1>6 DEF IInv, Counted, Tried
  <2>3. Promise!Complete(j)
    BY <1>3, <1>4, <2>1, <2>2 DEF Promise!Complete, Promise!Open, Wanted, Tried, Outcome
  <2>4. QED
    BY <1>1, <2>3 DEF Steps, Promise!Next, Promise!Settle
<1>7. QED
  BY <1>5, <1>6

LEMMA WorkIsStep ==
    ASSUME IInv, Work
    PROVE  Steps
<1>1. CASE \E j \in DOMAIN jobs : TakeJob(j)
  <2>1. PICK j \in DOMAIN jobs : TakeJob(j)
    BY <1>1
  <2> DEFINE x == [jobs[j] EXCEPT !.status = "active"]
  <2>2. jobs[j] \in Job /\ jobs[j].status = "waiting"
    BY <2>1, JobFacts DEF TakeJob, IInv, TypeOK, JobsOK
  <2>3. x \in Job /\ x.status = "active"
    BY <2>2, JobValues DEF Job
  <2>4. jobs' = [jobs EXCEPT ![j] = x] /\ UNCHANGED copies
    BY <2>1 DEF TakeJob
  <2> HIDE DEF x
  <2>5. QED
    BY <2>2, <2>3, <2>4, QuietStep
<1>2. CASE SmtpAccepts \/ SmtpFails \/ PostmarkAccepts \/ PostmarkFails
  <2>1. worker # Free
    BY <1>2 DEF SmtpAccepts, SmtpFails, PostmarkAccepts, PostmarkFails, Free
  <2>2. PICK j \in DOMAIN jobs : j = worker.job /\ jobs[j].status = "active"
    BY <2>1, HeldJob
  <2>3. UNCHANGED jobs /\ (UNCHANGED copies \/ copies' = [copies EXCEPT ![j] = @ + 1])
    BY <1>2, <2>2 DEF SmtpAccepts, SmtpFails, PostmarkAccepts, PostmarkFails, Accepted
  <2>4. QED
    BY <2>2, <2>3, QuietStep, CopyIsTry
<1>3. CASE Finish
  <2>1. worker # Free /\ worker.at = "finish"
    BY <1>3 DEF Finish, Free
  <2>2. PICK j \in DOMAIN jobs : j = worker.job /\ jobs[j] \in Job /\ jobs[j].status = "active"
    BY <2>1, HeldJob
  <2> DEFINE x == [jobs[j] EXCEPT !.status = "completed"]
  <2>3. x \in Job /\ x.status = "completed"
    BY <2>2, JobValues DEF Job
  <2>4. jobs' = [jobs EXCEPT ![j] = x] /\ UNCHANGED copies
    BY <1>3, <2>2 DEF Finish
  <2> HIDE DEF x
  <2>5. Sent(j)
    BY <2>1, <2>2 DEF Sent
  <2>6. QED
    BY <2>2, <2>3, <2>4, <2>5, EndIsSettle
<1>4. CASE FailJob
  <2>1. worker # Free
    BY <1>4 DEF FailJob, Free
  <2>2. PICK j \in DOMAIN jobs : /\ j = worker.job /\ jobs[j] \in Job
                                 /\ jobs[j].status = "active" /\ jobs[j].attempts < Attempts
    BY <2>1, HeldJob
  <2> DEFINE s == IF jobs[j].attempts + 1 < Attempts THEN "delayed" ELSE "failed"
             x == [jobs[j] EXCEPT !.attempts = @ + 1, !.status = s]
  <2>3. x \in Job /\ x.status \in {"delayed", "failed"}
    BY <2>2, JobValues DEF Job
  <2>4. jobs' = [jobs EXCEPT ![j] = x] /\ UNCHANGED copies
    BY <1>4, <2>2 DEF FailJob
  <2> HIDE DEF x
  <2>5. QED
    BY <2>2, <2>3, <2>4, QuietStep, EndIsSettle
<1>5. QED
  BY <1>1, <1>2, <1>3, <1>4 DEF Work

LEMMA TendIsStep ==
    ASSUME IInv, NEW j \in JobIds, Tend(j)
    PROVE  Steps
<1>1. j \in DOMAIN jobs /\ jobs[j] \in Job
  BY JobFacts DEF Tend, IInv, TypeOK, JobsOK
<1>2. CASE Promote(j)
  <2> DEFINE x == [jobs[j] EXCEPT !.status = "waiting"]
  <2>1. x \in Job /\ x.status = "waiting"
    BY <1>1, JobValues DEF Job
  <2>2. jobs' = [jobs EXCEPT ![j] = x] /\ jobs[j].status = "delayed" /\ UNCHANGED copies
    BY <1>2 DEF Promote
  <2> HIDE DEF x
  <2>3. QED
    BY <1>1, <2>1, <2>2, QuietStep
<1>3. CASE Stalled(j)
  <2> DEFINE x == IF jobs[j].stalls < MaxStalls
                  THEN [jobs[j] EXCEPT !.stalls = @ + 1, !.status = "waiting"]
                  ELSE [jobs[j] EXCEPT !.status = "failed"]
  <2>1. x \in Job /\ x.status \in {"waiting", "failed"}
    BY <1>1, JobValues DEF Job
  <2>2. jobs' = [jobs EXCEPT ![j] = x] /\ jobs[j].status = "active" /\ UNCHANGED copies
    BY <1>3 DEF Stalled
  <2> HIDE DEF x
  <2>3. QED
    BY <1>1, <2>1, <2>2, QuietStep, EndIsSettle
<1>4. QED
  BY <1>2, <1>3 DEF Tend

LEMMA NextIsStep == IInv /\ [Next]_vars => [Promise!Next]_(Promise!vars)
<1>1. ASSUME IInv, NEW r \in Requests, Caller(r) PROVE Steps
  <2>1. UNCHANGED <<jobs, copies>> \/ AddJob(r)
    BY <1>1 DEF Caller, Ask, AddFails, AddTimeout
  <2>2. QED
    BY <1>1, <2>1, AddIsAsk, QuietStep
<1>2. ASSUME IInv, Crash \/ UNCHANGED vars PROVE Steps
  BY <1>2, QuietStep DEF Crash, vars
<1>3. QED
  BY <1>1, <1>2, WorkIsStep, TendIsStep DEF Next, Steps

LEMMA InitIsInit == Init => Promise!Init
<1>1. ASSUME Init PROVE DOMAIN jobs = {}
  BY <1>1, EmptySeq DEF Init
<1>2. QED
  BY <1>1 DEF Init, Promise!Init

\* The safety of KeepsPromise: every step keeps the promise of AtLeastOnce, so no
\* job counts as completed whose mail no gateway has accepted, and none is reopened.
THEOREM StepsKeepPromise == Spec => Promise!Init /\ [][Promise!Next]_(Promise!vars)
<1>1. QED
  BY InvInit, InvNext, InitIsInit, NextIsStep, PTL DEF Spec
=============================================================================
