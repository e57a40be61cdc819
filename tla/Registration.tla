---------------------------- MODULE Registration ----------------------------
(***************************************************************************)
(* Sign-up by e-mailed code: AuthService.register, verifyOtp and resendOtp *)
(* over the tables otp_verifications and users                             *)
(* (src/src/modules/auth/auth.service.ts).                                 *)
(*                                                                         *)
(* A handler is a sequence of awaited database calls and no call is in a   *)
(* transaction, so every awaited call is a step of its own and the steps   *)
(* of several requests interleave.  What a handler keeps in memory between *)
(* two steps is in its request record.                                     *)
(*                                                                         *)
(* A code stands for the pair (otpHash, expiresAt), which the handlers     *)
(* always compute together; hashing is abstracted to equality.  The id of  *)
(* a row is the first code it held, so ids are never reused.               *)
(***************************************************************************)
EXTENDS Naturals, FiniteSets

CONSTANTS Emails,       \* e-mail addresses
          Passwords,    \* passwords users register with
          Requests,     \* slots for requests in flight
          MaxAttempts,  \* 5 in the code
          MaxCodes,     \* bound: codes issued in a behaviour
          MaxCrashes,   \* bound: restarts of the server in a behaviour
          KeepHistory,  \* count through overlapping requests too (see seen)
          None          \* the null of the code

ASSUME RegistrationAssumption ==
    /\ MaxAttempts \in Nat \ {0}
    /\ MaxCodes \in Nat
    /\ MaxCrashes \in Nat
    /\ KeepHistory \in BOOLEAN
    /\ None \notin Emails \cup Passwords

Codes == 1 .. MaxCodes
\* A code, or 0 for none.
CodeOrNone == 0 .. MaxCodes

\* The table otp_verifications has a unique index on email.
OtpRow == [id : Codes, email : Emails, password : Passwords,
           code : Codes, attempts : Nat]

\* The columns of users this component touches.  password and code are None
\* and 0 in an account an administrator made; token is the code its refresh
\* token was last issued for.
Account == [email : Emails, password : Passwords \cup {None},
            code : CodeOrNone, token : CodeOrNone]

Label == {"idle",
          "regDelete", "regInsert", "regQueue", "regCleanup",
          "save", "saveWrite", "saveInsert", "resQueue",
          "verDiscard", "verFindUser", "verInsertUser", "verDelete",
          "verRespond"}

VARIABLES
    otps,      \* table otp_verifications: a set of rows
    users,     \* table users: a set of accounts
    expired,   \* the codes whose expiresAt has passed
    req,       \* req[r]: what slot r holds of the request it serves
    crashes,   \* restarts so far
    \* History, which no handler reads:
    issued,    \* every code generated, with the registration it belongs to
    disturbed, \* some request overlapped another one or was cut by a restart
    seen       \* what was observed of the codes, see History

history == <<issued, disturbed, seen>>
vars == <<otps, users, expired, req, crashes, history>>

\* A request about to take step label, with what its handler has in memory:
\* its arguments, the code it generated and the row it read.
Holding(label, op, e, pw, c, row) ==
    [at |-> label, op |-> op, email |-> e, password |-> pw, code |-> c,
     row |-> row, dirty |-> {}]

Idle == Holding("idle", None, None, None, 0, None)

Request == [at : Label, op : {"register", "verify", "resend", None},
            email : Emails \cup {None}, password : Passwords \cup {None},
            code : CodeOrNone, row : OtpRow \cup {None},
            dirty : SUBSET {"code", "attempts"}]

\* mailed: the codes whose mail was put on the queue; wrong[c]: the wrong
\* guesses compared with code c; logins[c]: the responses that logged a client
\* in for code c.  The last two stop one above what the properties allow.
History == [mailed : SUBSET Codes, wrong : [Codes -> 0 .. MaxAttempts + 1],
            logins : [Codes -> 0 .. 2]]

NothingSeen == [mailed |-> {}, wrong |-> [c \in Codes |-> 0],
                logins |-> [c \in Codes |-> 0]]

Init ==
    /\ otps = {}
    /\ users = {}
    /\ expired = {}
    /\ req = [r \in Requests |-> Idle]
    /\ crashes = 0
    /\ issued = {}
    /\ disturbed = FALSE
    /\ seen = NothingSeen

-----------------------------------------------------------------------------
(* The repositories.                                                       *)

RowsOf(e) == {o \in otps : o.email = e}
Exists(e) == \E u \in users : u.email = e

\* otpRepository.delete({ email })
DeleteOtps(e) == otps' = otps \ RowsOf(e)

\* The code the next registration or resend generates.
FreshCode == Cardinality(issued) + 1

Issue(c, id, e, pw) ==
    /\ c \in Codes
    /\ issued' = issued \cup {[code |-> c, id |-> id, email |-> e, password |-> pw]}

\* Once requests overlap, what was seen is forgotten unless it is to be kept.
Record(h) == seen' = IF disturbed' /\ ~KeepHistory THEN NothingSeen ELSE h

AtMost(n, k) == IF n > k THEN k ELSE n

\* The client sends a request to a free slot; h is what is seen after it.
Arrive(r, request, h) ==
    /\ req[r] = Idle
    /\ req' = [req EXCEPT ![r] = request]
    /\ disturbed' = (disturbed \/ \E q \in Requests \ {r} : req[q] # Idle)
    /\ Record(h)

Goto(r, label) == req' = [req EXCEPT ![r].at = label]
Answer(r) == req' = [req EXCEPT ![r] = Idle]

-----------------------------------------------------------------------------
(* register                                                                *)

\* findOne on users; an existing account refuses the registration (and
\* nothing changes), otherwise a code is generated and hashed.
RegisterFindUser(r, e, pw) ==
    LET c == FreshCode IN
    /\ ~Exists(e)
    /\ Issue(c, c, e, pw)
    /\ Arrive(r, Holding("regDelete", "register", e, pw, c, None), seen)
    /\ UNCHANGED <<otps, users, expired, crashes>>

\* delete({ email })
RegisterDelete(r) ==
    /\ req[r].at = "regDelete"
    /\ DeleteOtps(req[r].email)
    /\ Goto(r, "regInsert")
    /\ UNCHANGED <<users, expired, crashes, history>>

\* Mutant: an upsert, which gives a row already there the new password.
RegisterUpsert(r) ==
    /\ req[r].at = "regInsert"
    /\ otps' = IF RowsOf(req[r].email) = {}
               THEN {[id |-> req[r].code, email |-> req[r].email,
                      password |-> req[r].password,
                      code |-> req[r].code, attempts |-> 0]}
               ELSE {[o EXCEPT !.password = req[r].password] : o \in RowsOf(req[r].email)}
    /\ Goto(r, "regQueue")
    /\ UNCHANGED <<users, expired, crashes, history>>

\* save of a new row is an insert; the unique index on email refuses it when
\* another registration inserted first, and the request fails.
RegisterInsert(r) ==
    /\ req[r].at = "regInsert"
    /\ IF RowsOf(req[r].email) = {}
       THEN /\ otps' = otps \cup {[id |-> req[r].code, email |-> req[r].email,
                                   password |-> req[r].password,
                                   code |-> req[r].code, attempts |-> 0]}
            /\ Goto(r, "regQueue")
       ELSE /\ UNCHANGED otps
            /\ Answer(r)
    /\ UNCHANGED <<users, expired, crashes, history>>

\* queueOtpEmail resolves and the handler answers.
RegisterQueue(r) ==
    /\ req[r].at = "regQueue"
    /\ Answer(r)
    /\ UNCHANGED <<otps, users, expired, crashes, issued, disturbed>>
    /\ Record([seen EXCEPT !.mailed = @ \cup {req[r].code}])

\* queueOtpEmail rejects.
RegisterQueueFails(r) ==
    /\ req[r].at = "regQueue"
    /\ Goto(r, "regCleanup")
    /\ UNCHANGED <<otps, users, expired, crashes, history>>

\* delete({ email }), then the error answer.
RegisterCleanup(r) ==
    /\ req[r].at = "regCleanup"
    /\ DeleteOtps(req[r].email)
    /\ Answer(r)
    /\ UNCHANGED <<users, expired, crashes, history>>

-----------------------------------------------------------------------------
(* otpRepository.save(otpRecord) on a row read earlier: TypeORM selects    *)
(* the row by id, then writes the columns in which the entity in memory    *)
(* differs from what it selected, or inserts the entity when the row is    *)
(* gone.                                                                   *)

DirtyColumns(entity, row) ==
    {col \in {"code", "attempts"} : entity[col] # row[col]}

AfterSave(r) ==
    IF req[r].op = "resend"
    THEN [req[r] EXCEPT !.at = "resQueue", !.dirty = {}]
    ELSE Idle

SaveSelect(r) ==
    /\ req[r].at = "save"
    /\ \/ /\ ~\E o \in otps : o.id = req[r].row.id
          /\ Goto(r, "saveInsert")
       \/ \E o \in otps :
             /\ o.id = req[r].row.id
             /\ req' = [req EXCEPT ![r].at = "saveWrite",
                                   ![r].dirty = DirtyColumns(req[r].row, o)]
    /\ UNCHANGED <<otps, users, expired, crashes, history>>

Overwrite(o, entity, cols) ==
    [o EXCEPT !.code = IF "code" \in cols THEN entity.code ELSE @,
              !.attempts = IF "attempts" \in cols THEN entity.attempts ELSE @]

\* An update of a row deleted since the select changes nothing.
SaveWrite(r) ==
    /\ req[r].at = "saveWrite"
    /\ otps' = {IF o.id = req[r].row.id
                THEN Overwrite(o, req[r].row, req[r].dirty)
                ELSE o : o \in otps}
    /\ req' = [req EXCEPT ![r] = AfterSave(r)]
    /\ UNCHANGED <<users, expired, crashes, history>>

\* The deleted row comes back, unless a row with its email took its place.
SaveInsert(r) ==
    /\ req[r].at = "saveInsert"
    /\ IF RowsOf(req[r].row.email) = {}
       THEN /\ otps' = otps \cup {req[r].row}
            /\ req' = [req EXCEPT ![r] = AfterSave(r)]
       ELSE /\ UNCHANGED otps
            /\ Answer(r)
    /\ UNCHANGED <<users, expired, crashes, history>>

-----------------------------------------------------------------------------
(* verifyOtp                                                               *)

\* Mutant: one attempt too many before a row counts as used up.
DiscardsLate(o) == o.code \in expired \/ o.attempts > MaxAttempts

Discards(o) == o.code \in expired \/ o.attempts >= MaxAttempts

VerifyRequest(label, o) == Holding(label, "verify", o.email, None, 0, o)

\* What the client sends is only compared with the code of the row, so the
\* outcome of the comparison is what an action chooses.

\* findOne, then: the row is expired or used up, and will be deleted.
VerifyFindDead(r) ==
    \E o \in otps :
        /\ Discards(o)
        /\ Arrive(r, VerifyRequest("verDiscard", o), seen)
        /\ UNCHANGED <<otps, users, expired, crashes, issued>>

\* Mutant: a wrong guess is not counted.
VerifyFindWrongUncounted(r) ==
    \E o \in otps :
        /\ ~Discards(o)
        /\ Arrive(r, VerifyRequest("save", o),
                  [seen EXCEPT !.wrong[o.code] = AtMost(@ + 1, MaxAttempts + 1)])
        /\ UNCHANGED <<otps, users, expired, crashes, issued>>

\* findOne and bcrypt.compare: the guess is wrong, and the entity in memory
\* counts the attempt.
VerifyFindWrong(r) ==
    \E o \in otps :
        /\ ~Discards(o)
        /\ Arrive(r, VerifyRequest("save", [o EXCEPT !.attempts = @ + 1]),
                  [seen EXCEPT !.wrong[o.code] = AtMost(@ + 1, MaxAttempts + 1)])
        /\ UNCHANGED <<otps, users, expired, crashes, issued>>

\* findOne and bcrypt.compare: the guess is right.
VerifyFindRight(r) ==
    \E o \in otps :
        /\ ~Discards(o)
        /\ Arrive(r, VerifyRequest("verFindUser", o), seen)
        /\ UNCHANGED <<otps, users, expired, crashes, issued>>

VerifyDiscard(r) ==
    /\ req[r].at = "verDiscard"
    /\ DeleteOtps(req[r].email)
    /\ Answer(r)
    /\ UNCHANGED <<users, expired, crashes, history>>

\* findOne on users: an account made in the meantime is used as it is.
VerifyFindUser(r) ==
    /\ req[r].at = "verFindUser"
    /\ Goto(r, IF Exists(req[r].email) THEN "verDelete" ELSE "verInsertUser")
    /\ UNCHANGED <<otps, users, expired, crashes, history>>

\* save of a new user is an insert; the unique index on email refuses it when
\* another request inserted first, and the request fails.
VerifyInsertUser(r) ==
    /\ req[r].at = "verInsertUser"
    /\ IF Exists(req[r].email)
       THEN /\ UNCHANGED users
            /\ Answer(r)
       ELSE /\ users' = users \cup {[email |-> req[r].email,
                                     password |-> req[r].row.password,
                                     code |-> req[r].row.code, token |-> 0]}
            /\ Goto(r, "verDelete")
    /\ UNCHANGED <<otps, expired, crashes, history>>

\* Mutant: the used code stays.
VerifyDeleteForgotten(r) ==
    /\ req[r].at = "verDelete"
    /\ Goto(r, "verRespond")
    /\ UNCHANGED <<otps, users, expired, crashes, history>>

VerifyDelete(r) ==
    /\ req[r].at = "verDelete"
    /\ DeleteOtps(req[r].email)
    /\ Goto(r, "verRespond")
    /\ UNCHANGED <<users, expired, crashes, history>>

\* generateAuthResponse: an update of the token columns, then the answer.
VerifyRespond(r) ==
    /\ req[r].at = "verRespond"
    /\ users' = {IF u.email = req[r].email
                 THEN [u EXCEPT !.token = req[r].row.code] ELSE u : u \in users}
    /\ Answer(r)
    /\ UNCHANGED <<otps, expired, crashes, issued, disturbed>>
    /\ Record([seen EXCEPT !.logins[req[r].row.code] = AtMost(@ + 1, 2)])

-----------------------------------------------------------------------------
(* resendOtp                                                               *)

\* Mutant: the attempts are not reset.
ResendFindNoReset(r) ==
    \E o \in otps :
        LET c == FreshCode IN
        /\ Issue(c, o.id, o.email, o.password)
        /\ Arrive(r, Holding("save", "resend", o.email, None, c,
                             [o EXCEPT !.code = c]), seen)
        /\ UNCHANGED <<otps, users, expired, crashes>>

\* Mutant: the code is sent but the row gets none.
ResendFindNoCode(r) ==
    \E o \in otps :
        LET c == FreshCode IN
        /\ Issue(c, o.id, o.email, o.password)
        /\ Arrive(r, Holding("save", "resend", o.email, None, c,
                             [o EXCEPT !.code = 0, !.attempts = 0]), seen)
        /\ UNCHANGED <<otps, users, expired, crashes>>

\* findOne; a new code is generated and hashed into the entity in memory,
\* with no attempts counted.
ResendFind(r) ==
    \E o \in otps :
        LET c == FreshCode IN
        /\ Issue(c, o.id, o.email, o.password)
        /\ Arrive(r, Holding("save", "resend", o.email, None, c,
                             [o EXCEPT !.code = c, !.attempts = 0]), seen)
        /\ UNCHANGED <<otps, users, expired, crashes>>

ResendQueue(r) ==
    /\ req[r].at = "resQueue"
    /\ Answer(r)
    /\ UNCHANGED <<otps, users, expired, crashes, issued, disturbed>>
    /\ Record([seen EXCEPT !.mailed = @ \cup {req[r].code}])

\* The queue rejects: the error answer; the row keeps the new code.
ResendQueueFails(r) ==
    /\ req[r].at = "resQueue"
    /\ Answer(r)
    /\ UNCHANGED <<otps, users, expired, crashes, history>>

-----------------------------------------------------------------------------
(* The world around the handlers.                                          *)

\* expiresAt of a stored code passes.
Expire(c) ==
    /\ \E o \in otps : o.code = c
    /\ c \notin expired
    /\ expired' = expired \cup {c}
    /\ UNCHANGED <<otps, users, req, crashes, history>>

\* An administrator creates the account, or approves an application for it.
AccountMadeElsewhere(e) ==
    /\ ~Exists(e)
    /\ users' = users \cup {[email |-> e, password |-> None, code |-> 0, token |-> 0]}
    /\ UNCHANGED <<otps, expired, req, crashes, history>>

\* The server restarts: the requests in flight are lost.
Crash ==
    /\ crashes < MaxCrashes
    /\ \E r \in Requests : req[r] # Idle
    /\ crashes' = crashes + 1
    /\ req' = [r \in Requests |-> Idle]
    /\ disturbed' = TRUE
    /\ Record(seen)
    /\ UNCHANGED <<otps, users, expired, issued>>

\* A step of a request that has arrived.
Step(r) ==
    \/ RegisterDelete(r) \/ RegisterInsert(r) \/ RegisterQueue(r)
    \/ RegisterQueueFails(r) \/ RegisterCleanup(r)
    \/ SaveSelect(r) \/ SaveWrite(r) \/ SaveInsert(r)
    \/ VerifyDiscard(r) \/ VerifyFindUser(r) \/ VerifyInsertUser(r)
    \/ VerifyDelete(r) \/ VerifyRespond(r)
    \/ ResendQueue(r) \/ ResendQueueFails(r)

Next ==
    \/ \E r \in Requests :
          \/ \E e \in Emails, pw \in Passwords : RegisterFindUser(r, e, pw)
          \/ VerifyFindDead(r) \/ VerifyFindWrong(r) \/ VerifyFindRight(r)
          \/ ResendFind(r)
          \/ Step(r)
    \/ \E c \in Codes : Expire(c)
    \/ \E e \in Emails : AccountMadeElsewhere(e)
    \/ Crash

Spec == Init /\ [][Next]_vars

-----------------------------------------------------------------------------
(* What is true of every reachable state.                                  *)

\* The tables hold rows of their types, and a request in flight holds what
\* its handler has read so far.
TypeOK ==
    /\ otps \subseteq OtpRow
    /\ users \subseteq Account
    /\ expired \subseteq Codes
    /\ req \in [Requests -> Request]
    /\ crashes \in 0 .. MaxCrashes
    /\ issued \subseteq [code : Codes, id : Codes, email : Emails, password : Passwords]
    /\ disturbed \in BOOLEAN
    /\ seen \in History

\* An email has at most one account and at most one pending code: the unique
\* indexes of the two tables, which the proofs rest on.
UniqueEmails ==
    /\ \A u, v \in users : u.email = v.email => u = v
    /\ \A o, p \in otps : o.email = p.email => o = p

\* The account a code opened has the email and the password of the very
\* registration that code was mailed for, whatever registrations, resends and
\* late saves of other requests for that email ran in between; an account made
\* elsewhere never gets the password of a registration.
AccountFromItsOwnCode ==
    \A u \in users :
        IF u.code = 0 THEN u.password = None
        ELSE \E i \in issued : /\ i.code = u.code
                               /\ i.email = u.email
                               /\ i.password = u.password

\* The stored counter never passes the limit, although concurrent wrong
\* guesses save counters they computed from a row read earlier.
AttemptsBounded == \A o \in otps : o.attempts <= MaxAttempts

\* As long as requests arrive one at a time, a code is compared with at most
\* MaxAttempts wrong guesses (verifyOtp, lines 140-158).
GuessBudget == ~disturbed => \A c \in Codes : seen.wrong[c] <= MaxAttempts

\* As long as requests arrive one at a time, a code logs a client in once: it
\* is deleted before the answer (lines 166-187).
SingleUse == ~disturbed => \A c \in Codes : seen.logins[c] <= 1

\* As long as requests arrive one at a time, the newest code of an email, once
\* its mail is queued, can be used until it expires, has had its wrong guesses
\* or the email has an account.
NewestCodeStands ==
    (~disturbed /\ req = [r \in Requests |-> Idle]) =>
        \A i \in issued :
            (/\ i.code \in seen.mailed
             /\ \A j \in issued : j.email = i.email => j.code <= i.code
             /\ i.code \notin expired
             /\ seen.wrong[i.code] < MaxAttempts
             /\ ~Exists(i.email))
            => \E o \in RowsOf(i.email) : /\ o.code = i.code
                                         /\ o.attempts = seen.wrong[i.code]
=============================================================================
