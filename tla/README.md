# unimate-backend: TLA+ models and proofs

A verification project for the NestJS backend of unimate: TLA+ modules translated
from the TypeScript source, TLC configurations that check them on small instances,
and TLAPS proofs that carry the safety results to every size. Paths below are
relative to the repository (`src/src/...` is the application's code).

1. [The system](#1-the-system)
2. [Modules and how they correspond to the code](#2-modules-and-how-they-correspond-to-the-code)
3. [Runs: what is checked](#3-runs-what-is-checked)
4. [Proofs: what holds for every size](#4-proofs-what-holds-for-every-size)
5. [Where code and documentation differ](#5-where-code-and-documentation-differ)
6. [What is not modelled, and why](#6-what-is-not-modelled-and-why)
7. [Plan](#7-plan)

## 1. The system

One Node process serves HTTP requests and runs the queue workers. It keeps its state
in PostgreSQL through TypeORM, in Redis through Bull, and files in S3. **No handler
uses a transaction or a lock.** A handler is a sequence of awaited calls; between two
of them any other handler, worker or timer may run, and the process may be
restarted. Three facts about TypeORM shape most of what follows:

- `repository.save(entity)` selects the row by id, then writes *the columns in which
  the entity differs from the row it has just selected*, or inserts the entity when the
  row is gone. An entity that was read before an await may so undo what others wrote,
  or bring back a row that was deleted. The models give it three steps (select, write,
  insert).
- `repository.update(id, {...})` writes the named columns only and does nothing when
  the row is gone.
- Unique indexes exist on `users.email`, `otp_verifications.email`,
  `pending_accounts.email` and `devices(userId, token)`; not on `password_resets.email`.

| Component (source) | State | Operations | Talks to | What is hard | What makes it correct |
|---|---|---|---|---|---|
| Sign-up (`modules/auth/auth.service.ts`) | `otp_verifications`, `users` | `register`, `verifyOtp`, `resendOtp` | email queue | overlapping registrations and verifications, expiry, mail that cannot be queued, restarts | accounts come from their own code; a code is guessed and used within its limits; the newest code stays valid |
| Credentials (`auth.service.ts`, `modules/user/user.service.ts`) | `users`, `password_resets` | `login`, `refreshToken`, `forgotPassword`, `resetPassword`, create, update, delete, change password, repair | email queue, approval | saves of entities read long before; links that outlive renames | a password is one chosen for that account; a spent link stays spent, the newest one stored; answers come true |
| Account approval (`modules/account-approval`) | `pending_accounts`, `users` | apply, approve, reject | access control, sign-up, user administration, cleaning | check of the status and save apart; two tables without a transaction | access only as decided; an application decided once; never approved without an attempt to write the account |
| Access control (`common/utils/access-control.util.ts`, guards) | none | `canApprove`, `canManageAccount`, department checks | every controller | consistency of two tables of ranks | approving is a strict order; approvers manage what they approve |
| Notifications (`modules/notification`) | `devices`, `notification_logs`, three Bull queues | register device, send (three ways), worker, cleanup, log | APNs, FCM, departments | retries, restarts, duplicates, log failing after delivery, processors that are never registered | everybody is tried before a job is complete; bounded repeats; true logs; registrations stay |
| Email queue (`modules/email`) | Bull queue | queue three kinds of mail, process with SMTP, Postmark, retry | sign-up, credentials | five-second race, fallback after an unclear failure | every accepted mail is sent or given up |
| Timetables (`modules/timetable`) | `timetables`, `timetable_history`, S3 | upload, merge skipped classes, editor save, delete, detect clashes (`DELETE /timetables/all` is declared after `DELETE /timetables/:id`, which takes its requests) | parser, departments, storage | read-modify-write of one JSON column; many statements per upload | what does not overlap is not lost; the current history is completed; stored clashes are those of the upload |
| Timetable parser (`modules/timetable/services`) | none | sections, headers, cells, class codes | timetables | order of prefixes, cells of several lines, two ways to find the days | agrees with a reference reading |
| Departments (`modules/department`) | `departments`, `available_options` | create, update, delete with cascade, merge options | users, timetables, announcements, devices | cascade in many statements over snapshots, beside stale saves of whole accounts | a deletion clears what it goes through; a department has options; accounts keep their other departments |
| Announcements (`modules/announcement`) | `announcements` | create, edit, pin, delete | departments, storage | access checked against an argument | visible to exactly its departments |
| Cleaning, storage, throttling, bootstrap | - | bulk deletes, S3 calls, counters of a library | all tables | partial failure of a bulk delete | reported counts are what was deleted |

The 40 places of this code that a test would hardly reach are listed under `hazards`
in `PROJECT.json`, each at its line, with the properties that watch it or the reason
why none does.

## 2. Modules and how they correspond to the code

Conventions shared by all modules: one action per awaited call, named after the
method and what the call does; `req[r]` is slot `r` for a request in flight and holds
what the handler has in memory (`Idle` when free); tables are sets of records;
history variables, which no handler reads, record what clients or gateways were told.
Definitions that contain `Mutant:` in their comment are not part of `Spec`: they are
plausible mistakes, each of which breaks the property it is listed with in
`PROJECT.json` when it takes the place of the definition below it.

**Registration** (`register`, `verifyOtp`, `resendOtp`). `otps` is
`otp_verifications`, `users` the accounts. A *code* stands for the pair (hash,
expiresAt), numbered in the order codes are generated; bcrypt is equality.
`Register...`, `Verify...` and `Resend...` follow the handlers call by call,
`SaveSelect/SaveWrite/SaveInsert` are the two saves of attempts and of a resend,
`VerifyRespond` is the save of the refresh token. The mail queue accepts or refuses
(`...Queue`, `...QueueFails`); `Expire` lets the ten minutes pass; `Crash` loses the
requests. `disturbed` says that some request overlapped another or was cut, so that
properties of undisturbed use can be stated. Accounts are never deleted or renamed in this
module; Credentials covers that.

**Credentials** (`login` ... `resetPassword`, `UserService`, and the part of
`approveAccount` that writes accounts). An account has id, email, password and
`session` (is a refresh token stored). Handlers that write one column by id
(`ChangePassword`, `SetPassword`, `UpdateAccount`/`SetEmail`, `Remove`) are kept apart
from those that save an entity (`login`, `resetPassword`, approval). A write and its answer are two steps
(`CreateInsert`, `SetPassword`, `SetEmail`, `Remove`, then `Tell` or `TellRemoved`), so that a restart may fall between.
`seen` is what clients were answered: `told`, what a column of an account was said to be, until a
request comes that is to change it; `gone`, the accounts said to be deleted; `raced`, the requests in flight of
which another one wrote, or is to write, the same column of the same account; `linked`, the links mailed.

**AccessControl** holds the pure functions `CanApprove` and `CanManageAccount`.
**DepartmentAccess** extends it with the department checks: `DepartmentIds`
(`getDepartmentIds`), `MayUse` (`validateDepartmentAccess`), the two guards, what each
route of `UserController` allows and lists, and which announcements a listing
`Shows`. Neither has state; the stateful modules use their operators as guards.
**AccountApproval** models `createPendingAccount`, `approveAccount` and
`rejectAccount` over `pending_accounts` and `users`, next to what else writes those
tables: sign-up and creation of accounts, changes of the access level, deletion,
cleaning. An approver is known by the level in its token. `granted` records decisions, `given`
the applications whose access was written to an account, `orphaned` those whose account was deleted between the
select and the update of its save: `WriteUser` then writes nothing and the approval goes on.

**AtLeastOnce** is the abstract promise about each job of a queue: whom it is for,
who was dealt with, and whether it is open, completed or given up; it is completed only
when everybody was, and, if it is among those `served`, is not open forever. Notification and EmailQueue implement it.
**Notification** is the pipeline itself:
`RegisterFind/Update/Insert` (`registerToken`), `SendFind` and `AddJob/AddFails` (the
three send methods and `queue.add`), and, for each queue, one worker: `TakeJob`,
`SendBatch` (one batch to APNs or FCM, with any split into delivered, failed and
invalid), `Cleanup/CleanupFails`, `Log/LogFails`, `CatchLog/CatchLogFails`,
`Finish`, `FailJob`. `Promote`, `Stalled` and the hand-over of jobs are Bull's, modelled from
the options the code passes (attempts 3, exponential backoff) and Bull's defaults (one
restart of a stalled job). Sends never throw: every error of a gateway becomes a
count, so the only error that makes a job fail is a log row that could not be
written. A processor that is running keeps its lock; a job stalls only through a
restart. The order in which jobs are taken is left open, so priorities do not matter.
`startWorkers` awaits `queue.process` three times in sequence (`notification-worker.service.ts:29,34,39`), and Bull
resolves that promise only when the queue is closed. The timetable queue therefore has its processor from the start,
and whether the other two ever get one does not follow from this code. The model lets every queue be worked,
or not, and safety is claimed of all of them; that work goes on is assumed, and an end of jobs promised, of the queues in `Served` only,
which is the timetable queue.
`KeepsPromise` maps Notification to AtLeastOnce.

**EmailQueue** is the other queue. `Ask` and `AddJob/AddFails` are the three adds; the two
waitlist adds race against five seconds (`AddTimeout`), after which the job may still
arrive. The processor tries SMTP (`SmtpAccepts`, `SmtpFails`) and, for mails that have a
template there, Postmark (`PostmarkAccepts`, `PostmarkFails`). A gateway that accepts a
mail may leave the processor with an error, because the answer is lost
(a disjunct of `SmtpFails` and of `PostmarkFails`). `copies` counts what gateways accepted, `doubts` how often the
processor did not learn of it. Registration and Credentials model the add as a call that
resolves or rejects, which is all their handlers see of this module.

**Timetable** (`timetable.service.ts` and its repositories). An upload is
`CreateTimetableHistory`, `InsertTimetable`, `UploadTimetableFile`,
`UpdateTimetableHistory` (to completed),
`PointDepartment`, and the calls of `updateAvailableOptions` (`FindOptions`,
`MergeOptions`, or `SelectOptions` and `InsertOptions` where there is no row); a file that cannot be
read leads to `UploadUnreadable`. The merge is `MergeFindHistory`, `MergeRead` and the
save of the timetable, the editor `EditRead` and that save (`SaveSelect`, `SaveWrite`,
`SaveReinsert`); the deletion is `DeleteFind`, `DeleteTimetableFiles`, `RemoveTimetable`. What
the parser found is a sequence of entries taken from the constant `Sheets`; skipped ones lack a
teacher or a slot. `StatementFails` lets any awaited statement fail, `Crash` loses the requests,
and `Elsewhere` holds the single statements with which `deleteDepartment`, `performCleanup` and
`createDepartment` touch these tables. Departments in `Existing` have a row at first;
no handler here asks whether the department exists. History variables: `refused` (uploads whose
client got no answer), `serial` (what the requests would have left had they run one after the other),
`unedited` and `stored`.

**TimetableStore** says what timetables are to those who read and change them, overlaps included: documents of one
department each, of which the newest is shown. Who changes one takes the version that is shown, makes a draft of
it (an edit, or classes appended), and puts the draft in the document's place later, whatever happened to
the document meanwhile. So much is kept by a read-modify-write without a lock: a save may undo another and may bring back
what was deleted, but it makes no content up, mixes no two documents and moves none to another
department. `KeepsStore` maps Timetable to it: the drafts are what the requests between `MergeRead` or `EditRead`
and the end of their save hold (`Drafts`), and a draft is put by `SaveWrite` or `SaveReinsert`, or dropped.

**Departments** (`department.service.ts`, `announcement.service.ts`,
`cleaning.service.ts`). A department has one row, or none, in each table that is keyed by its id
alone; it stands for all of them, since every statement treats them alike. `Create...`,
`Options...`, `UpdateFind/UpdateDepartment` and the deletion are modelled
statement by statement: `NullUsers`, `ReadUsers` and one `WriteUser` per account that was read,
`DeleteTimetables`, `DeleteHistory`, `FindAnnouncements/DeleteAnnouncements`, `DeleteDevices`, `DeleteOptions`,
`RemoveDepartment`. Announcements are created, changed, pinned and removed. A cleanup
takes the categories in the code's order (`Clean`, `CleanFails`) and holds what the summary announced
(`told`) beside what each category deleted (`deleted`). `EntityFind`, `EntitySelect`, `EntityUpdate` and
`EntityInsert` are the saves of whole accounts by `login`, `resetPassword` and `approveAccount`, as far as they
carry departments. `Elsewhere` are updates and deletions of accounts,
uploads, registrations of devices and applications, as single statements. History variables: `alone`,
`emptied`, `cut`, `member`.

**TimetableParser** (`timetable-parser.service.ts`, `rule-based-parser.service.ts`) is a set of
operators and functions: a text is a sequence of tokens, a cell a sequence of lines, a row a sequence
of cells. It covers the sheet as CSV and its rows, the dividers, day sections, header rows, cells and class
codes, in the order the code tries them. Where the code collects rows in a list there is the set of their numbers, and a
class carries the place it was read from (`at`: row of the day, row of the times, row, column), which is its place in
the list. Two day labels stand for seven, and texts have no commas or quotes.
**MCTimetableParser** grows a sheet row by row, so that TLC visits every sheet within the bound, and compares
the result with `Places`, a definition of where classes are that does not say how to find them.

The other **MC...** modules extend a module with the values and symmetry sets its configurations use, and
**...Proofs** modules with its theorems.

## 3. Runs: what is checked

| Run | Properties | Shows |
|---|---|---|
| `registration` | `TypeOK`, `AccountFromItsOwnCode`, `AttemptsBounded`, `GuessBudget`, `SingleUse`, `NewestCodeStands` | Two overlapping requests, expiry, resends, a restart. Under overlap accounts are genuine and the stored counter bounded; undisturbed, a code is guessed at most MaxAttempts times, logs in once, and the newest one stays stored until it expires or is used up. |
| `credentials_accounts` | `TypeOK`, `PasswordChosen`, `AnswersStand` | Accounts created, renamed, deleted, approved, logged in to and reset by two overlapping requests, with a restart. `AnswersStand` lets writers of single columns overlap and be cut by a restart, between a write and its answer too, and holds; with the saves of login, reset or approval it would not. Of two requests that race to write one column it claims nothing: their answers do not tell which one wrote last. |
| `credentials_links` | `SpentLinksGone`, `LinkStands` | Two links of an account, with a rename and a restart: a spent link never returns, and without overlap the newest mailed link, and no other, is stored until it expires or is spent. That it then changes a password is not claimed: after a rename or a deletion `resetPassword` answers "User not found" (`auth.service.ts:582`), or resets the account that took the email. |
| `approval` | `TypeOK`, `LevelGranted`, `ApprovedWasGiven`, `DecisionStands`, `StaysDecided` | Two applications decided by two overlapping requests while accounts and levels change and pending accounts are cleaned. Access is only what somebody entitled decided, and an application stands approved only after the account was written, or when the account was deleted just then. Without overlap an application is decided once; with it, what is decided at least never waits again. |
| `notification_devices` | `TypeOK`, `RegisteredStays` | Two users share a token and register it with overlapping requests while a notification is queued, sent over a configured or a missing gateway, cleaned up, and a department deleted. |
| `notification_jobs` | `RepeatsBounded`, `LogsTrue`, `KeepsPromise` | A timetable job of two devices in two batches with a failing log, a retry and a restart: repeats bounded, log rows true, and the pipeline implements AtLeastOnce, its liveness included. |
| `timetable` | `TypeOK`, `CurrentCompleted`, `ProcessingAttended`, `SerialRuns`, `CoursesOffered`, `ClashesOfUpload`, `FileKept`, `KeepsStore` | Two requests that upload, merge, edit and delete timetables of two departments, one of which does not exist, with one failing statement, restart or step of another module. The current history is a completed one of that department, a row in processing has an upload or a failure behind it, undisturbed requests leave what they would one after the other, clashes, options and files agree with the uploads that were answered, and every step, overlapping or not, changes the timetables as TimetableStore allows. |
| `departments` | `TypeOK`, `DepartmentHasOptions`, `DeletedIsCleared`, `MembersKept`, `CleanupMatchesSummary` | Two requests that create, delete, clean, announce and save accounts whole, with one failure. An undisturbed deletion clears the department, its options, timetables, history, devices and announcements, and takes it from every account (applications for it and logs of its notifications stay); accounts keep their other departments unless a stale save of the whole account undoes a change; an undisturbed cleanup deletes as many rows as its summary announced (departments apart, see section 5). |
| `email_queue` | `CopiesExplained`, `KeepsPromise` | Two mails, both gateways, three attempts, a late add and a restart: each copy beyond the first has a lost answer or a restart behind it, and the queue implements AtLeastOnce, its liveness included. |
| `timetable_parser` | `ClassesAreThere`, `WaysAgree` | Every sheet of up to six rows: from rows whose cells are whole the parser finds the classes of the reference definition and no others, and the two ways to find the days agree. |
| `credentials_login`, `timetable_parser_upload` | one each | Violations, see section 5. |

**Bounds.** Every bound is a constant named `Max...`, beside the sets of values.
Two requests in flight are enough for each pair of handlers to interleave in every
way, and the hazards listed are races of two; the proofs of section 4 remove that
bound. Two emails are used where a rename or a link may reach another account, one where handlers of
different emails touch different rows. `MaxAttempts` 2 (5 in the code) keeps *below*,
*at* and *over* the limit apart. Three codes are a
registration, a resend and another registration. One restart may fall between any two steps.
`BatchSize` 1 (500) makes two batches of two devices. `Attempts` 2 (3) has a try
that is retried and a last one; with one restart every branch of `FailJob` is reached and
the start-over of a stalled job; the last branch of `Stalled`, giving up after a second restart, is
not. One job per behaviour is enough for what is claimed of jobs: jobs share no state
but the table of devices, which other requests disturb as well.
`notification_jobs` has the timetable queue, the only one whose liveness is claimed, and one
department; `notification_devices` has the custom queue beside it. `credentials` has two
configurations because one that has both two accounts and two links is too large.
`timetable` has two uploads and two saves, the fewest with which a merge or an
editor save meets another upload, and one incident; a sheet has two valid entries of one teacher and
time, which clash, and one that is skipped and would clash with them if it were not. Each department has
a custodian, who cannot use the other one. `departments` begins two requests, which
meet in every order and at every statement; the cleanup takes all categories and is
asked for all departments, none and one. `email_queue` has a kind of each
priority, one with the race of five seconds and one without; three attempts are those
of the code. Seven kinds of rows and six of them make two days, each with a header and rows of
classes, in right and wrong orders; the violation needs three: a day, its times and a class. The proofs keep the seven kinds and remove the bound
on their number.
`KeepHistory` of Registration is FALSE where the history of disturbed behaviours would only multiply
states: the properties that read it say nothing of those. `SYMMETRY` permutes
request slots (and emails, passwords or users where only compared); no run of a
liveness property uses it.

`CHECK_DEADLOCK FALSE` stands in every configuration: the server may idle, and
behaviours end when their bounds are used up (a sheet, when it is full).

**Fairness.** Registration, Credentials, AccountApproval, Timetable, Departments and the parser assume
none: clients need not send anything, and only safety is claimed. EmailQueue assumes weak fairness of
its processor (`Work`) and of Bull's timers (`Tend(j)`). Notification assumes weak
fairness of the worker of the timetable queue (`Work(k)` for `k` in `Served`: its processor is registered first, and
Bull's worker loops as long as the process runs) and of Bull's timers for delayed and stalled jobs (`Tend(j)`); it assumes none of
the workers of the other queues, whose registration waits for a promise that a running queue does not resolve. Nothing is asked of
clients, gateways or the database: a log that always fails leads to a job that is
given up. Restarts are bounded, which is what makes a job settle at all.

`PROJECT.json` has a mutant for every property of a passing run, which TLC finds to violate it.

## 4. Proofs: what holds for every size

Every invariant and every action property that a run expects to hold is a theorem. TLAPS checks the following
for any sets of emails, passwords, departments, users, tokens, entries and request slots and any bounds, from the named assumptions only (`RegistrationAssumption`,
`CredentialsAssumption`, `ApprovalAssumption`, `NotificationAssumption`, `EmailAssumption`,
`TimetableAssumption`, `DepartmentsAssumption`: bounds are naturals, inputs are of their type, and
`None` and `Null` are no values), which TLC evaluates too.

- **RegistrationProofs**: `TypeCorrect`, `CounterBounded`,
  `AccountsGenuine`, and of undisturbed use `GuessesBounded`, `UsedOnce`, `NewestCodeUsable`. None of
  them is inductive: a stale save writes what a handler holds,
  so the invariant `IInv` speaks of rows in memory like rows stored. A row, wherever
  it is, `Belongs` to an issued code; codes are numbered as they are issued
  (`IssuedOnce`), so an id stands for one registration, and writing the differing columns of two
  good rows of one id gives a good row (`AfterSaveGood`). `SoloInv` adds what holds while nothing overlapped:
  the stored counter is the number of wrong guesses, but for the one whose handler is about to save it
  (`Tallied`, `Owed`); a code that is not issued yet is unused, and one that is being stored was not guessed; and
  each handler's `Stage`, that is what it read is still in the table.
- **CredentialsProofs**: `TypeCorrect`, `PasswordsChosen`,
  `SpentLinksStayGone`. `Accounts` adds that an entity held by a request has an id that
  was given out and a password chosen for that id, so that a late save or re-insertion puts
  back nothing else. `LinksGood` adds that links are numbered (`LinksNumbered`) and that
  a link about to be inserted is held by one request and neither stored nor spent
  (`PendingAlone`): without it a spent link might be inserted afterwards.
  `MailedLinksStand` and `AnswersHold` rest on `SoloInv`: requests of administrators and owners may
  overlap each other and nothing else may (`Alone`), so the entity that a login, a reset or an approval
  saves is still the row it was read from (`Stage`), and older links are stored only until `forgotPassword` has deleted
  them (`Standing`). `AnswersHold` adds `AnswersInv`, which follows an answer from the write on: a request that has written and
  not yet answered finds what it wrote in the row, unless it raced (`Own`); what was told is in the row and nobody
  in flight is to change it (`Facts`); ids of deleted accounts are not given out again (`Gone`); and of two requests that
  write one column of one account each is known to have raced (`Races`). `AnswersKept` says what a step of one slot may
  do to the table under which all four survive, and each handler is shown to do no more.
- **AccountApprovalProofs**: `TypeCorrect`, `LevelsGranted`,
  `ApprovalsGiven`, and of the functions `ApprovalOrder` (approving is irreflexive and
  transitive) and `ApproverManages` (who approves an application may manage the
  account; every application has somebody who may decide it). `Rows` adds `Grounded`: known accounts, stored
  or held, of one id have one email, so a re-insertion collides with
  the row or is unique. `Decided` adds `Entitled`: what an approval in
  flight holds was granted. `Orphans` says of an approval that is about to
  write an account which is gone that its application is among the orphaned. `DecisionsStand` is of undisturbed use: every application is `Sound`, its
  status in agreement with its stamps and with what was given, but for the one about to be saved (`Saved`), which
  `Stage` follows from the check of the status to the save. The action property
  `DecisionsAreFinal` holds of overlapping decisions too: what is saved was decided
  (`Settled`), and a save writes the status it holds or leaves the one it finds.
- **NotificationProofs**: `TypeCorrect`, `RegistrationsStay`,
  `RepeatsAreBounded`, `LogsAreTrue` and `StepsKeepPromise`. The invariant `IInv` is `TableInv`, of
  the devices, and `JobInv`, of the jobs. The first adds `Remembered`: what a
  registration in flight found is still there or was called invalid or belonged to a deleted
  department. The second adds `JobFits` and `RunFits`, which count the tries a job has
  had and has left, and say that the entries confirmed so far and those its worker still has to send make up
  the job; entries are `Distinct`, so that the sets counted are finite. Every step either leaves a job
  to Bull (`BullKeeps`) or is a worker's (`WorkerGoesOn`). `StepsKeepPromise` is the safety of the refinement.
- **EmailQueueProofs**: `TypeCorrect`, `ProcessorActive`, `CopiesAreExplained`, `StepsKeepPromise`.
  `CopiesExplained` is not inductive: `IInv` adds the copy that the processor has sent and not yet
  recorded as `Counted`, and that a job completes only after it was `Sent`.
- **TimetableProofs** proves every invariant of the run. `PointersComplete` and `LogsAttended`: an upload carries the
  id of its history row through eight calls; `Sound` says that this row, while it exists, is of its department and
  completed from the call on that completes it; `Numbered`, that no later row is given its id. `TypeCorrect` needs
  `DataInv`: timetables are created no more often than history rows, because an upload that has yet to insert its
  timetable has a row of its own (`Counted`), and an id belongs to one department wherever it stands, in a row, a file
  or a request (`OneHome`). From there follow `FilesStay` (`FilesInv`: nobody is about to delete the file of a timetable that is
  stored), `ClashesAgree` (`ClashInv`: what an upload in flight stored is what it was given, unless an editor came between)
  and, of departments whose requests ran one after the other, `RunsInOrder` and `CoursesStayOffered`
  (`SerialInv`: the rows of such a department are what the answered requests left, and what the one in flight has
  written, `RowsFit`; the options it will write include those there are, `OptionsFit`).
  `Least` is induction over the numbers, with a set where the library's theorem has a predicate, and
  `ValidGood` says what the filter of the uploaded entries keeps.
  `TimetablesAreStore` is the refinement of TimetableStore, for every behaviour and without a condition on overlap.
  `DraftsMove` says how a step of one slot changes the drafts; a save that finds its row puts its draft into a document of
  its own department because an id belongs to one department wherever it stands (`OneHome`), a save that finds none in
  `SaveWrite` drops it. `StoreInv` adds only that what is to be stored or appended is what the client gave.
- **DepartmentsProofs** proves every invariant of the run. `TypeCorrect`, `OptionsThere` and
  `DepartmentsOfAccountsKept`: a deletion reads all accounts and
  writes them one by one; `WritesFit` says that what it still has to write is what the account should have, unless
  another deletion, an update or a save of the whole account came between, and `EntitiesFit` that an
  account to be saved whole holds the departments it should have, or is known to put others back. `DepartmentCleared` (`EmptiedInv`): `Progress` says, for each
  statement of a deletion that runs alone, which tables no longer name the department, and no request mentions one that
  was emptied. `SummaryKept` (`SummaryInv`): a category the cleanup has passed deleted what the summary told, and
  one still to come holds as many rows as it told (`Tallied`).
  The module ends with the checks of departments and accounts that the code writes several times over:
  `GuardAgreesWithService` (the guard and `validateDepartmentAccess`), `UsableIsShown` (who may use
  a department sees its announcements), `CreatorsManage`, `GivenIsManaged` and
  `ListedAreManaged` (accounts that a route creates, changes or lists are ones its caller may
  manage).
- **TimetableParserProofs** proves both invariants of the parser's run, for sheets of any number of rows.
  `BothWays` rests on `WaysAgreeOn`, which holds of rows of any cells whatever: where days are named in the first cells only,
  the dividers are the rows that name a day (`DividersAreDays`), a section that one way finds and the other does not has
  no rows (`SectionsAgree`), because a header that is looked for beyond the next day leaves nothing between
  (`HeadersAgree`). `ClassesRead` compares the parser with the definition `Places` of where classes are: every class read is at a
  place (`FoundInPlaces`), at every place a class is read (`PlacesAreFound`), and what is read there is what the cell says
  (`FoundIsDescribed`); course, semester and section are the code again whatever its tokens (`CodeIsWhole`). The cells are those
  of the seven kinds of rows of MCTimetableParser; how often, and in which order, rows of these kinds come is arbitrary.

Each proof has the same shape: a frame lemma reduces a step of one slot to that slot,
one lemma per handler treats its actions, a lemma joins them to `[Next]_vars`, and a
last step by PTL concludes. The two theorems `StepsKeepPromise` state
`Promise!Init /\ [][Promise!Next]_(Promise!vars)` of every behaviour of the detailed module;
`TimetablesAreStore` proves the whole of `KeepsStore`, since TimetableStore claims no liveness.

The properties of undisturbed use hold while a history variable (`disturbed`, `alone`, `serial`)
says that nothing overlapped. They are not proved of a system with one slot: requests may overlap at any time, and
the invariant says of every intermediate state of every handler what the tables hold if none did so far.

**Only model-checked**: liveness, that is, the fair part of both `KeepsPromise`: that no job stays open for ever. It
needs `ENABLED`, which the prover has no means for; the safety part of both is proved. What `CsvRows` makes of a sheet
is only run (`timetable_parser_upload`): it is a fold over data, and the library's induction
theorems take an operator as a parameter, which no installed prover can instantiate. The one recursive
function of the parser, `WithoutTimes`, is used in the proofs on the cells of the seven kinds of rows only, where
it unfolds a fixed number of times. No module declares a recursive operator.

## 5. Where code and documentation differ

Two runs are expected to be violated; `findings` in `PROJECT.json` quotes the lines.

- `credentials_login` / `LoginKeepsPassword`: the save of "last login" puts back a
  password that was changed since the account was read.
- `timetable_parser_upload` / `ClassesExtracted`: `parseTimetableFromCSV`
  (`timetable-parser.service.ts:92`) splits the CSV at newlines before it looks at quotes, and a class is three
  lines of one cell: an upload finds no class, although README.md:17 says that classes are extracted. `ClassesAreThere`
  is therefore stated of rows whose cells are whole, and Timetable takes any result of the parser.

Other differences met while modelling, which are not runs:

- Verifications that overlap save the same count of attempts, so that more wrong guesses than the limit are
  compared (`auth.service.ts:153`); `GuessBudget` is stated without overlap.
- `isActive` is declared without `@Column`, is undefined in every row read, and every refresh is refused
  (`auth.service.ts:309`).
- An approval and a rejection that overlap both pass the check of the status, and the later save wins
  (`account-approval.service.ts:186`); `DecisionStands` is stated without overlap, `StaysDecided` with it.
- The catch of the notification worker logs that nothing was delivered also after a gateway has delivered
  (`notification-worker.service.ts:121`); `LogsTrue` does not claim that a log row names every delivery.
- `deleteDepartment` also deletes announcements for 'all' (`department.service.ts:179`); its comment speaks of those
  that target the department.
- The summary of a cleanup counts all departments whatever departments were asked for, and the cleanup deletes the
  named ones; an empty
  `departmentIds` makes the statement `IN ()`, which the database refuses (`Malformed` in Departments).
  `timetableHistory` is a category of the service, but the DTO declares it without a decorator and the validation
  pipe refuses it.
- `DELETE /timetables/all` (`timetable.controller.ts:304`) is declared after `DELETE /timetables/:id` (line 282).
- The comment of `canManageAccount` speaks of custodians "in their department"; no departments are
  compared there.
- `startWorkers` awaits the processor of the timetable queue before it registers those of the custom and the
  announcement queue (`notification-worker.service.ts:29`), and Bull resolves what it awaits when the queue is closed: nothing in this code
  makes sure that the jobs of these two queues are ever processed, nor that `onModuleInit`, which awaits all three, returns.
- A reset link outlives a rename or a deletion of its account (`auth.service.ts:579`): it then finds no account, or the one that
  took the email.
- `deleteDepartment` leaves `pending_accounts.requestedDepartmentId` (`pending-account.entity.ts:40`) and
  `notification_logs.departmentId` as they are.
- `login`, `resetPassword` and `approveAccount` save whole accounts, so that departments which an update or a deletion of
  a department took away in between may come back (`auth.service.ts:291`, `588`, `account-approval.service.ts:162`);
  `MembersKept` excuses these accounts.
- An approval whose account is deleted between the select and the update of its save writes no account and marks the
  application approved (`account-approval.service.ts:162-186`); `ApprovedWasGiven` excuses it.
- The throttle decorators allow 100 requests where the controller's comments say 5.

## 6. What is not modelled, and why

- Registration: names and other columns that no handler compares. Hash costs and formats.
- Credentials: `updateAccount` changes the email only; access columns are in
  AccountApproval, which in turn has no renames, and where administrators write levels from a set
  `AdminLevels` and delete only accounts that have access (they list no others).
  A save of login never writes the level there. With four or more overlapping
  requests late saves can leave an application rejected without the stamp of a rejecter;
  no property claims otherwise.
- Access control: how the guards get at the metadata of a route.
- Notifications: statistics, emptying of queues, removal of old jobs by age, and
  `sendToDevices`, `sendToUsers`, `sendToDepartment(s)`, `sendToAll`, `getDeviceCount`, which change
  nothing or are called by nobody. The catch around both gateways in `PushNotificationService.sendToTokens` is never
  reached. `DepartmentDeleted` is the one statement of `deleteDepartment` that touches devices.
  A notification for nobody is answered at once and is no action. Deletion of users is not modelled
  here. `RegisteredStays` excuses tokens that a gateway called invalid at
  any time: a registration made again between the gateway's answer and the cleanup is deleted.
- Timetables: the reading routes (history, entries, log, skipped classes, the class-timetable export, the preview)
  change no state. `deleteAllTimetables` is reached by no request. The parser and the storage
  appear as what they return; a department may have an unreadable file at any time.
- Departments: several rows of one table for one department, the creation of accounts by other modules while requests run, the
  foreign keys that the entities of options, timetables and history may have through `@ManyToOne` (no statement of the model is
  refused for their sake, so it allows more), notification logs, names of departments beyond their
  uniqueness, and the fields of announcements other than targets and pin.
- Parser: `extractMetadataFromExcel`, the formatting of the preview, quoting and commas within
  cells, and merged cells, which reach the parser as empty ones.
- Email queue: `getQueueStats` and the texts of mails. Redis keeps jobs through a restart.
- Storage: signed URLs, avatars and deleting a prefix (`listFiles` returns at most a thousand
  keys); no modelled handler calls them.
- Throttling, bootstrap, configuration, health, migrations: I/O, wiring or a
  library's state. They appear only where a modelled handler may see them fail.

## 7. Plan

All components that keep state are modelled, the safety of all of them is proved, and queues and timetables are shown
to implement abstract specifications. What is left, in the order of its worth:

1. Composing Timetable with Departments, each of which has the other's statements as single steps
   (`Elsewhere`), and EmailQueue with Registration and Credentials, whose handlers see no more of it than whether
   the add resolved. Each composition multiplies the states of two runs that take minutes.
2. `refreshToken` and the overlapping decisions, if the code gets transactions or a column `isActive`: the
   properties of undisturbed use should then be stated of all.
