------------------------- MODULE RegistrationProofs -------------------------
(***************************************************************************)
(* The safety of sign-up for any number of emails, passwords, concurrent   *)
(* requests, codes and restarts.  IInv holds however requests interleave;  *)
(* SoloInv follows the one request in flight as long as they do not        *)
(* overlap.                                                                *)
(***************************************************************************)
EXTENDS Registration, FiniteSetTheorems, TLAPS

\* A row holds a code issued for the registration that made the row.
Belongs(o) ==
    \E i \in issued : /\ i.id = o.id
                      /\ i.code = o.code
                      /\ i.email = o.email
                      /\ i.password = o.password

\* A row, stored or in the memory of a handler.
GoodRow(o) == o \in OtpRow /\ Belongs(o) /\ o.attempts <= MaxAttempts

\* The labels at which a handler holds a row it read.
HoldsRow == {"save", "saveWrite", "saveInsert", "verFindUser",
             "verInsertUser", "verDelete", "verRespond"}

\* Codes are numbered as they are issued, and an id stands for one registration.
IssuedOnce ==
    /\ IsFiniteSet(issued)
    /\ \A i \in issued : i.id <= Cardinality(issued)
    /\ \A i, j \in issued : i.id = j.id => i.email = j.email /\ i.password = j.password

RequestGood(r) ==
    /\ req[r].at \in HoldsRow => GoodRow(req[r].row)
    /\ req[r].at \in {"verFindUser", "verInsertUser"} => req[r].row.email = req[r].email
    /\ req[r].at \in {"regQueue", "resQueue"} => req[r].code \in Codes
    /\ req[r].at \in {"save", "saveWrite", "saveInsert"} /\ req[r].op = "resend" =>
          req[r].code \in Codes
    /\ req[r].at \in {"regDelete", "regInsert"} =>
          [code |-> req[r].code, id |-> req[r].code, email |-> req[r].email,
           password |-> req[r].password] \in issued

RowsGood == \A o \in otps : GoodRow(o)
RequestsGood == \A r \in Requests : RequestGood(r)

\* The inductive invariant.
IInv ==
    /\ TypeOK
    /\ IssuedOnce
    /\ RowsGood
    /\ RequestsGood
    /\ UniqueEmails
    /\ AccountFromItsOwnCode

-----------------------------------------------------------------------------
(* Types.                                                                  *)

\* Moving a request to another label keeps its type and its other fields.
LEMMA GotoType ==
    ASSUME TypeOK, NEW r \in Requests, NEW label \in Label, Goto(r, label)
    PROVE  /\ req' \in [Requests -> Request]
           /\ req'[r] = [req[r] EXCEPT !.at = label]
           /\ \A q \in Requests \ {r} : req'[q] = req[q]
  BY DEF TypeOK, Goto, Request

\* A slot that answered is idle.
LEMMA AnswerType ==
    ASSUME TypeOK, NEW r \in Requests, Answer(r)
    PROVE  /\ req' \in [Requests -> Request]
           /\ req'[r] = Idle
           /\ \A q \in Requests \ {r} : req'[q] = req[q]
<1>1. Idle \in Request
  BY RegistrationAssumption DEF Idle, Holding, Request, Label, CodeOrNone
<1>2. QED
  BY <1>1 DEF TypeOK, Answer

\* A slot a request arrived at holds that request.
LEMMA ArriveType ==
    ASSUME TypeOK, NEW r \in Requests, NEW request \in Request,
           NEW h \in History, Arrive(r, request, h)
    PROVE  /\ req' \in [Requests -> Request]
           /\ req'[r] = request
           /\ \A q \in Requests \ {r} : req'[q] = req[q]
           /\ disturbed' \in BOOLEAN
           /\ seen' \in History
<1>1. NothingSeen \in History
  BY RegistrationAssumption DEF NothingSeen, History
<1>2. QED
  BY <1>1 DEF TypeOK, Arrive, Record

\* What is seen keeps its type.
LEMMA RecordType ==
    ASSUME NEW h \in History, Record(h)
    PROVE  seen' \in History
<1>1. NothingSeen \in History
  BY RegistrationAssumption DEF NothingSeen, History
<1>2. QED
  BY <1>1 DEF Record

\* The counts of the history stay in their range.
LEMMA HistoryType ==
    ASSUME NEW h \in History, NEW c \in Codes
    PROVE  /\ [h EXCEPT !.mailed = @ \cup {c}] \in History
           /\ [h EXCEPT !.wrong[c] = AtMost(@ + 1, MaxAttempts + 1)] \in History
           /\ [h EXCEPT !.logins[c] = AtMost(@ + 1, 2)] \in History
<1>1. [h EXCEPT !.mailed = @ \cup {c}] \in History
  BY DEF History
<1>2. AtMost(h.wrong[c] + 1, MaxAttempts + 1) \in 0 .. MaxAttempts + 1
  BY RegistrationAssumption DEF History, AtMost
<1>3. [h EXCEPT !.wrong[c] = AtMost(@ + 1, MaxAttempts + 1)] \in History
  BY <1>2 DEF History
<1>4. AtMost(h.logins[c] + 1, 2) \in 0 .. 2
  BY DEF History, AtMost
<1>5. [h EXCEPT !.logins[c] = AtMost(@ + 1, 2)] \in History
  BY <1>4 DEF History
<1>6. QED
  BY <1>1, <1>3, <1>5

\* Overwriting columns of a row with those of another keeps its type.
LEMMA OverwriteType ==
    ASSUME NEW o \in OtpRow, NEW entity \in OtpRow, NEW cols
    PROVE  /\ Overwrite(o, entity, cols) \in OtpRow
           /\ Overwrite(o, entity, cols).id = o.id
           /\ Overwrite(o, entity, cols).email = o.email
           /\ Overwrite(o, entity, cols).password = o.password
           /\ Overwrite(o, entity, cols).code \in {o.code, entity.code}
           /\ Overwrite(o, entity, cols).attempts \in {o.attempts, entity.attempts}
  BY DEF Overwrite, OtpRow

-----------------------------------------------------------------------------
(* What stays when codes are only added.                                   *)

\* A good row stays good.
LEMMA GoodRowStable ==
    ASSUME NEW o, GoodRow(o), issued \subseteq issued'
    PROVE  GoodRow(o)'
  BY DEF GoodRow, Belongs

\* Only the request that took the step has to be looked at.
LEMMA OtherRequestsGood ==
    ASSUME RequestsGood, issued \subseteq issued', NEW r \in Requests,
           \A q \in Requests \ {r} : req'[q] = req[q],
           RequestGood(r)'
    PROVE  RequestsGood'
<1> SUFFICES ASSUME NEW q \in Requests, q # r
             PROVE  RequestGood(q)'
  BY DEF RequestsGood
<1>1. req'[q] = req[q] /\ RequestGood(q)
  BY DEF RequestsGood
<1>2. req[q].at \in HoldsRow => GoodRow(req[q].row)'
  <2>1. ASSUME NEW o, GoodRow(o) PROVE Belongs(o)'
    BY <2>1 DEF GoodRow, Belongs
  <2>2. QED
    BY <1>1, <2>1 DEF RequestGood, GoodRow, Belongs
<1>3. QED
  BY <1>1, <1>2 DEF RequestGood, GoodRow, Belongs

\* An idle slot holds nothing.
LEMMA IdleGood ==
    ASSUME NEW r \in Requests, req'[r] = Idle
    PROVE  RequestGood(r)'
  BY DEF RequestGood, Idle, Holding, HoldsRow

\* Issuing the next code keeps the numbering and adds to what is issued.
LEMMA IssueGood ==
    ASSUME TypeOK, IssuedOnce, NEW id \in Codes, NEW e \in Emails,
           NEW pw \in Passwords, Issue(FreshCode, id, e, pw),
           \/ id = FreshCode
           \/ \E i \in issued : i.id = id /\ i.email = e /\ i.password = pw
    PROVE  /\ FreshCode \in Codes
           /\ IssuedOnce'
           /\ issued' = issued \cup {[code |-> FreshCode, id |-> id, email |-> e, password |-> pw]}
           /\ issued' \subseteq [code : Codes, id : Codes, email : Emails, password : Passwords]
<1> DEFINE i0 == [code |-> FreshCode, id |-> id, email |-> e, password |-> pw]
<1>1. FreshCode \in Codes /\ issued' = issued \cup {i0}
  BY DEF Issue
<1>2. IsFiniteSet(issued) /\ Cardinality(issued) \in Nat
  BY FS_CardinalityType DEF IssuedOnce
<1>3. /\ IsFiniteSet(issued')
      /\ \/ Cardinality(issued') = Cardinality(issued) + 1
         \/ i0 \in issued /\ issued' = issued
  <2> HIDE DEF i0
  <2>1. /\ IsFiniteSet(issued \cup {i0})
        /\ Cardinality(issued \cup {i0}) =
              IF i0 \in issued THEN Cardinality(issued) ELSE Cardinality(issued) + 1
    BY <1>2, FS_AddElement
  <2>2. i0 \in issued => issued' = issued
    BY <1>1
  <2>3. QED
    BY <1>1, <2>1, <2>2
<1>4. \A i \in issued' : i.id <= Cardinality(issued')
  <2> SUFFICES ASSUME NEW i \in issued'
               PROVE  i.id <= Cardinality(issued')
    OBVIOUS
  <2>1. CASE issued' = issued
    BY <2>1 DEF IssuedOnce
  <2>2. CASE Cardinality(issued') = Cardinality(issued) + 1
    <3>1. CASE i \in issued
      <4>1. i.id \in Nat /\ i.id <= Cardinality(issued)
        BY <3>1 DEF IssuedOnce, TypeOK, Codes
      <4>2. QED
        BY <4>1, <1>2, <2>2
    <3>2. CASE i = i0
      <4>1. i.id = id /\ id <= Cardinality(issued) + 1
        <5>1. CASE id = FreshCode
          BY <5>1, <3>2, <1>2 DEF FreshCode
        <5>2. CASE \E j \in issued : j.id = id
          BY <5>2, <3>2, <1>2 DEF IssuedOnce, Codes
        <5>3. QED
          BY <5>1, <5>2
      <4>2. QED
        BY <4>1, <2>2
    <3>3. QED
      BY <3>1, <3>2, <1>1
  <2>3. QED
    BY <2>1, <2>2, <1>3
<1>5. \A i, j \in issued' : i.id = j.id => i.email = j.email /\ i.password = j.password
  <2>1. \A i \in issued : i.id = id => i.email = e /\ i.password = pw
    BY <1>2 DEF IssuedOnce, FreshCode, TypeOK, Codes
  <2>2. QED
    BY <1>1, <2>1 DEF IssuedOnce
<1>6. i0 \in [code : Codes, id : Codes, email : Emails, password : Passwords]
  BY <1>1
<1>7. issued' \subseteq [code : Codes, id : Codes, email : Emails, password : Passwords]
  BY <1>1, <1>6 DEF TypeOK
<1>8. QED
  BY <1>1, <1>3, <1>4, <1>5, <1>7 DEF IssuedOnce

-----------------------------------------------------------------------------
(* Every action keeps the invariant.                                       *)

\* A step of slot r that issues no code, removes rows at most and leaves the
\* accounts alone.
LEMMA QuietStep ==
    ASSUME IInv, NEW r \in Requests,
           req' \in [Requests -> Request],
           \A q \in Requests \ {r} : req'[q] = req[q],
           RequestGood(r)',
           otps' \subseteq otps,
           disturbed' \in BOOLEAN, seen' \in History,
           UNCHANGED <<users, expired, crashes, issued>>
    PROVE  IInv'
<1>1. TypeOK'
  BY DEF IInv, TypeOK
<1>2. IssuedOnce'
  BY DEF IInv, IssuedOnce
<1>3. RowsGood'
  BY GoodRowStable DEF IInv, RowsGood
<1>4. RequestsGood'
  BY OtherRequestsGood DEF IInv
<1>5. UniqueEmails'
  BY DEF IInv, UniqueEmails
<1>6. AccountFromItsOwnCode'
  BY DEF IInv, AccountFromItsOwnCode
<1>7. QED
  BY <1>1, <1>2, <1>3, <1>4, <1>5, <1>6 DEF IInv

\* A step of slot r that leaves at most one good row per email.
LEMMA RowStep ==
    ASSUME IInv, NEW r \in Requests,
           req' \in [Requests -> Request],
           \A q \in Requests \ {r} : req'[q] = req[q],
           RequestGood(r)',
           \A o \in otps' : GoodRow(o),
           \A o, p \in otps' : o.email = p.email => o = p,
           UNCHANGED <<users, expired, crashes, history>>
    PROVE  IInv'
<1>1. TypeOK'
  BY DEF IInv, TypeOK, GoodRow, history
<1>2. IssuedOnce'
  BY DEF IInv, IssuedOnce, history
<1>3. RowsGood'
  BY GoodRowStable DEF RowsGood, history
<1>4. RequestsGood'
  BY OtherRequestsGood DEF IInv, history
<1>5. UniqueEmails'
  BY DEF IInv, UniqueEmails
<1>6. AccountFromItsOwnCode'
  BY DEF IInv, AccountFromItsOwnCode, history
<1>7. QED
  BY <1>1, <1>2, <1>3, <1>4, <1>5, <1>6 DEF IInv

\* A step of slot r that issues a code and leaves the tables alone.
LEMMA IssueStep ==
    ASSUME IInv, NEW r \in Requests,
           req' \in [Requests -> Request],
           \A q \in Requests \ {r} : req'[q] = req[q],
           RequestGood(r)',
           IssuedOnce', issued \subseteq issued',
           issued' \subseteq [code : Codes, id : Codes, email : Emails, password : Passwords],
           disturbed' \in BOOLEAN, seen' \in History,
           UNCHANGED <<otps, users, expired, crashes>>
    PROVE  IInv'
<1>1. TypeOK'
  BY DEF IInv, TypeOK
<1>3. RowsGood'
  BY GoodRowStable DEF IInv, RowsGood
<1>4. RequestsGood'
  BY OtherRequestsGood DEF IInv
<1>5. UniqueEmails'
  BY DEF IInv, UniqueEmails
<1>6. AccountFromItsOwnCode'
  BY DEF IInv, AccountFromItsOwnCode
<1>7. QED
  BY <1>1, <1>3, <1>4, <1>5, <1>6 DEF IInv

LEMMA RegisterFindUserKeeps ==
    ASSUME IInv, NEW r \in Requests, NEW e \in Emails, NEW pw \in Passwords,
           RegisterFindUser(r, e, pw)
    PROVE  IInv'
<1> DEFINE c == FreshCode
           request == Holding("regDelete", "register", e, pw, c, None)
<1>1. c \in Codes /\ Issue(c, c, e, pw) /\ Arrive(r, request, seen)
  BY DEF RegisterFindUser, Issue
<1>2. /\ IssuedOnce'
      /\ issued' = issued \cup {[code |-> c, id |-> c, email |-> e, password |-> pw]}
      /\ issued' \subseteq [code : Codes, id : Codes, email : Emails, password : Passwords]
  BY <1>1, IssueGood DEF IInv
<1>3. request \in Request
  <2> HIDE DEF c
  <2>1. c \in CodeOrNone /\ "regDelete" \in Label
    BY <1>1, RegistrationAssumption DEF CodeOrNone, Codes, Label
  <2>2. QED
    BY <2>1 DEF Request, Holding
<1>4. TypeOK /\ seen \in History
  BY DEF IInv, TypeOK
<1>5. /\ req' \in [Requests -> Request]
      /\ req'[r] = request
      /\ \A q \in Requests \ {r} : req'[q] = req[q]
      /\ disturbed' \in BOOLEAN
      /\ seen' \in History
  BY <1>1, <1>3, <1>4, ArriveType
<1>6. RequestGood(r)'
  BY <1>2, <1>5 DEF RequestGood, Holding, HoldsRow
<1>7. UNCHANGED <<otps, users, expired, crashes>>
  BY DEF RegisterFindUser
<1>8. issued \subseteq issued'
  BY <1>2
<1> HIDE DEF request, c
<1>9. QED
  BY <1>2, <1>5, <1>6, <1>7, <1>8, IssueStep

LEMMA RegisterDeleteKeeps ==
    ASSUME IInv, NEW r \in Requests, RegisterDelete(r)
    PROVE  IInv'
<1>1. TypeOK /\ RequestGood(r) /\ "regInsert" \in Label
  BY DEF IInv, RequestsGood, Label
<1>2. /\ req' \in [Requests -> Request]
      /\ req'[r] = [req[r] EXCEPT !.at = "regInsert"]
      /\ \A q \in Requests \ {r} : req'[q] = req[q]
  BY <1>1, GotoType DEF RegisterDelete
<1>3. RequestGood(r)'
  BY <1>1, <1>2 DEF RequestGood, HoldsRow, RegisterDelete, history, TypeOK, Request
<1>4. /\ otps' \subseteq otps
      /\ disturbed' \in BOOLEAN /\ seen' \in History
      /\ UNCHANGED <<users, expired, crashes, issued>>
  BY <1>1 DEF RegisterDelete, DeleteOtps, history, TypeOK
<1>5. QED
  BY <1>2, <1>3, <1>4, QuietStep

LEMMA RegisterInsertKeeps ==
    ASSUME IInv, NEW r \in Requests, RegisterInsert(r)
    PROVE  IInv'
<1> DEFINE o == [id |-> req[r].code, email |-> req[r].email,
                 password |-> req[r].password, code |-> req[r].code, attempts |-> 0]
           i == [code |-> req[r].code, id |-> req[r].code, email |-> req[r].email,
                 password |-> req[r].password]
<1>1. TypeOK /\ RequestGood(r) /\ RowsGood /\ UniqueEmails /\ "regQueue" \in Label
  BY DEF IInv, RequestsGood, Label
<1>2. i \in issued
  BY <1>1 DEF RequestGood, RegisterInsert
<1>3. /\ req[r].code \in Codes
      /\ req[r].email \in Emails
      /\ req[r].password \in Passwords
  BY <1>1, <1>2 DEF TypeOK
<1>4. GoodRow(o)
  BY <1>2, <1>3, RegistrationAssumption DEF GoodRow, Belongs, OtpRow
<1>5. CASE RowsOf(req[r].email) = {}
  <2>1. /\ req' \in [Requests -> Request]
        /\ req'[r] = [req[r] EXCEPT !.at = "regQueue"]
        /\ \A q \in Requests \ {r} : req'[q] = req[q]
    BY <1>1, <1>5, GotoType DEF RegisterInsert
  <2>2. RequestGood(r)'
    BY <1>1, <1>3, <2>1 DEF RequestGood, HoldsRow, TypeOK, Request
  <2>3. otps' = otps \cup {o}
    BY <1>5 DEF RegisterInsert
  <2>4. \A p \in otps' : GoodRow(p)
    BY <1>1, <1>4, <2>3 DEF RowsGood
  <2>5. \A p, q \in otps' : p.email = q.email => p = q
    BY <1>1, <1>5, <2>3 DEF UniqueEmails, RowsOf
  <2>6. UNCHANGED <<users, expired, crashes, history>>
    BY DEF RegisterInsert
  <2> HIDE DEF o
  <2>7. QED
    BY <2>1, <2>2, <2>4, <2>5, <2>6, RowStep
<1>6. CASE RowsOf(req[r].email) # {}
  <2>1. /\ req' \in [Requests -> Request]
        /\ req'[r] = Idle
        /\ \A q \in Requests \ {r} : req'[q] = req[q]
    BY <1>1, <1>6, AnswerType DEF RegisterInsert
  <2>2. RequestGood(r)'
    BY <2>1, IdleGood
  <2>3. /\ otps' \subseteq otps
        /\ disturbed' \in BOOLEAN /\ seen' \in History
        /\ UNCHANGED <<users, expired, crashes, issued>>
    BY <1>1, <1>6 DEF RegisterInsert, history, TypeOK
  <2>4. QED
    BY <2>1, <2>2, <2>3, QuietStep
<1>7. QED
  BY <1>5, <1>6

LEMMA RegisterQueueKeeps ==
    ASSUME IInv, NEW r \in Requests, RegisterQueue(r)
    PROVE  IInv'
<1>1. TypeOK /\ RequestGood(r)
  BY DEF IInv, RequestsGood
<1>2. /\ req' \in [Requests -> Request]
      /\ req'[r] = Idle
      /\ \A q \in Requests \ {r} : req'[q] = req[q]
  BY <1>1, AnswerType DEF RegisterQueue
<1>3. RequestGood(r)'
  BY <1>2, IdleGood
<1>4. seen' \in History
  <2> DEFINE h == [seen EXCEPT !.mailed = @ \cup {req[r].code}]
  <2>1. req[r].code \in Codes
    BY <1>1 DEF RegisterQueue, RequestGood
  <2>2. h \in History /\ Record(h)
    BY <2>1, <1>1, HistoryType DEF RegisterQueue, TypeOK
  <2>3. QED
    BY <2>2, RecordType
<1>5. /\ otps' \subseteq otps
      /\ disturbed' \in BOOLEAN
      /\ UNCHANGED <<users, expired, crashes, issued>>
  BY <1>1 DEF RegisterQueue, TypeOK
<1>6. QED
  BY <1>2, <1>3, <1>4, <1>5, QuietStep

LEMMA RegisterQueueFailsKeeps ==
    ASSUME IInv, NEW r \in Requests, RegisterQueueFails(r)
    PROVE  IInv'
<1>1. TypeOK /\ RequestGood(r) /\ "regCleanup" \in Label
  BY DEF IInv, RequestsGood, Label
<1>2. /\ req' \in [Requests -> Request]
      /\ req'[r] = [req[r] EXCEPT !.at = "regCleanup"]
      /\ \A q \in Requests \ {r} : req'[q] = req[q]
  BY <1>1, GotoType DEF RegisterQueueFails
<1>3. RequestGood(r)'
  BY <1>1, <1>2 DEF RequestGood, HoldsRow, RegisterQueueFails, history, TypeOK, Request,
     GoodRow, Belongs
<1>4. /\ otps' \subseteq otps
      /\ disturbed' \in BOOLEAN /\ seen' \in History
      /\ UNCHANGED <<users, expired, crashes, issued>>
  BY <1>1 DEF RegisterQueueFails, DeleteOtps, history, TypeOK
<1>5. QED
  BY <1>2, <1>3, <1>4, QuietStep

LEMMA RegisterCleanupKeeps ==
    ASSUME IInv, NEW r \in Requests, RegisterCleanup(r)
    PROVE  IInv'
<1>1. TypeOK /\ RequestGood(r)
  BY DEF IInv, RequestsGood
<1>2. /\ req' \in [Requests -> Request]
      /\ req'[r] = Idle
      /\ \A q \in Requests \ {r} : req'[q] = req[q]
  BY <1>1, AnswerType DEF RegisterCleanup
<1>3. RequestGood(r)'
  BY <1>2, IdleGood
<1>4. /\ otps' \subseteq otps
      /\ disturbed' \in BOOLEAN /\ seen' \in History
      /\ UNCHANGED <<users, expired, crashes, issued>>
  BY <1>1 DEF RegisterCleanup, DeleteOtps, history, TypeOK
<1>5. QED
  BY <1>2, <1>3, <1>4, QuietStep

LEMMA ResendQueueKeeps ==
    ASSUME IInv, NEW r \in Requests, ResendQueue(r)
    PROVE  IInv'
<1>1. TypeOK /\ RequestGood(r)
  BY DEF IInv, RequestsGood
<1>2. /\ req' \in [Requests -> Request]
      /\ req'[r] = Idle
      /\ \A q \in Requests \ {r} : req'[q] = req[q]
  BY <1>1, AnswerType DEF ResendQueue
<1>3. RequestGood(r)'
  BY <1>2, IdleGood
<1>4. seen' \in History
  <2> DEFINE h == [seen EXCEPT !.mailed = @ \cup {req[r].code}]
  <2>1. req[r].code \in Codes
    BY <1>1 DEF ResendQueue, RequestGood
  <2>2. h \in History /\ Record(h)
    BY <2>1, <1>1, HistoryType DEF ResendQueue, TypeOK
  <2>3. QED
    BY <2>2, RecordType
<1>5. /\ otps' \subseteq otps
      /\ disturbed' \in BOOLEAN
      /\ UNCHANGED <<users, expired, crashes, issued>>
  BY <1>1 DEF ResendQueue, TypeOK
<1>6. QED
  BY <1>2, <1>3, <1>4, <1>5, QuietStep

LEMMA ResendQueueFailsKeeps ==
    ASSUME IInv, NEW r \in Requests, ResendQueueFails(r)
    PROVE  IInv'
<1>1. TypeOK /\ RequestGood(r)
  BY DEF IInv, RequestsGood
<1>2. /\ req' \in [Requests -> Request]
      /\ req'[r] = Idle
      /\ \A q \in Requests \ {r} : req'[q] = req[q]
  BY <1>1, AnswerType DEF ResendQueueFails
<1>3. RequestGood(r)'
  BY <1>2, IdleGood
<1>4. /\ otps' \subseteq otps
      /\ disturbed' \in BOOLEAN /\ seen' \in History
      /\ UNCHANGED <<users, expired, crashes, issued>>
  BY <1>1 DEF ResendQueueFails, DeleteOtps, history, TypeOK
<1>5. QED
  BY <1>2, <1>3, <1>4, QuietStep

LEMMA VerifyDiscardKeeps ==
    ASSUME IInv, NEW r \in Requests, VerifyDiscard(r)
    PROVE  IInv'
<1>1. TypeOK /\ RequestGood(r)
  BY DEF IInv, RequestsGood
<1>2. /\ req' \in [Requests -> Request]
      /\ req'[r] = Idle
      /\ \A q \in Requests \ {r} : req'[q] = req[q]
  BY <1>1, AnswerType DEF VerifyDiscard
<1>3. RequestGood(r)'
  BY <1>2, IdleGood
<1>4. /\ otps' \subseteq otps
      /\ disturbed' \in BOOLEAN /\ seen' \in History
      /\ UNCHANGED <<users, expired, crashes, issued>>
  BY <1>1 DEF VerifyDiscard, DeleteOtps, history, TypeOK
<1>5. QED
  BY <1>2, <1>3, <1>4, QuietStep

LEMMA VerifyDeleteKeeps ==
    ASSUME IInv, NEW r \in Requests, VerifyDelete(r)
    PROVE  IInv'
<1>1. TypeOK /\ RequestGood(r) /\ "verRespond" \in Label
  BY DEF IInv, RequestsGood, Label
<1>2. /\ req' \in [Requests -> Request]
      /\ req'[r] = [req[r] EXCEPT !.at = "verRespond"]
      /\ \A q \in Requests \ {r} : req'[q] = req[q]
  BY <1>1, GotoType DEF VerifyDelete
<1>3. RequestGood(r)'
  BY <1>1, <1>2 DEF RequestGood, HoldsRow, VerifyDelete, history, TypeOK, Request,
     GoodRow, Belongs
<1>4. /\ otps' \subseteq otps
      /\ disturbed' \in BOOLEAN /\ seen' \in History
      /\ UNCHANGED <<users, expired, crashes, issued>>
  BY <1>1 DEF VerifyDelete, DeleteOtps, history, TypeOK
<1>5. QED
  BY <1>2, <1>3, <1>4, QuietStep

LEMMA SaveSelectKeeps ==
    ASSUME IInv, NEW r \in Requests, SaveSelect(r)
    PROVE  IInv'
<1>1. TypeOK /\ RequestGood(r) /\ req[r] \in Request
  BY DEF IInv, RequestsGood, TypeOK
<1> DEFINE Moved == /\ req' \in [Requests -> Request]
                    /\ req'[r].at \in {"saveInsert", "saveWrite"}
                    /\ req'[r].row = req[r].row
                    /\ req'[r].op = req[r].op
                    /\ req'[r].code = req[r].code
                    /\ \A q \in Requests \ {r} : req'[q] = req[q]
<1>2. Moved
  <2>1. CASE Goto(r, "saveInsert")
    <3>1. "saveInsert" \in Label
      BY DEF Label
    <3>2. /\ req' \in [Requests -> Request]
          /\ req'[r] = [req[r] EXCEPT !.at = "saveInsert"]
          /\ \A q \in Requests \ {r} : req'[q] = req[q]
      BY <1>1, <2>1, <3>1, GotoType
    <3>3. QED
      BY <1>1, <3>2 DEF Request
  <2>2. ASSUME NEW o \in otps,
               req' = [req EXCEPT ![r].at = "saveWrite",
                                  ![r].dirty = DirtyColumns(req[r].row, o)]
        PROVE  Moved
    <3>1. DirtyColumns(req[r].row, o) \in SUBSET {"code", "attempts"}
      BY DEF DirtyColumns
    <3>2. req' = [req EXCEPT ![r] = [req[r] EXCEPT !.at = "saveWrite",
                                     !.dirty = DirtyColumns(req[r].row, o)]]
      BY <2>2
    <3>3. [req[r] EXCEPT !.at = "saveWrite",
                         !.dirty = DirtyColumns(req[r].row, o)] \in Request
      BY <1>1, <3>1 DEF Request, Label
    <3>4. QED
      BY <1>1, <3>2, <3>3 DEF TypeOK, Request
  <2>3. QED
    BY <2>1, <2>2 DEF SaveSelect
<1>3. RequestGood(r)'
  BY <1>1, <1>2 DEF RequestGood, HoldsRow, SaveSelect, history, GoodRow, Belongs
<1>4. /\ otps' \subseteq otps
      /\ disturbed' \in BOOLEAN /\ seen' \in History
      /\ UNCHANGED <<users, expired, crashes, issued>>
  BY <1>1 DEF SaveSelect, history, TypeOK
<1>5. QED
  BY <1>2, <1>3, <1>4, QuietStep

\* What a request goes on with after its save.
LEMMA AfterSaveGood ==
    ASSUME IInv, NEW r \in Requests,
           req[r].at \in {"saveWrite", "saveInsert"},
           req' = [req EXCEPT ![r] = AfterSave(r)]
    PROVE  /\ req' \in [Requests -> Request]
           /\ \A q \in Requests \ {r} : req'[q] = req[q]
           /\ RequestGood(r)'
<1>1. TypeOK /\ RequestGood(r) /\ req[r] \in Request
  BY DEF IInv, RequestsGood, TypeOK
<1>2. CASE req[r].op = "resend"
  <2>1. AfterSave(r) = [req[r] EXCEPT !.at = "resQueue", !.dirty = {}]
    BY <1>2 DEF AfterSave
  <2>2. AfterSave(r) \in Request
    BY <1>1, <2>1 DEF Request, Label
  <2>3. req'[r] = AfterSave(r) /\ req' \in [Requests -> Request]
    BY <1>1, <2>2 DEF TypeOK
  <2>4. RequestGood(r)'
    BY <1>1, <1>2, <2>1, <2>3 DEF RequestGood, HoldsRow, Request
  <2>5. QED
    BY <1>1, <2>3, <2>4 DEF TypeOK
<1>3. CASE req[r].op # "resend"
  <2>1. Answer(r)
    BY <1>3 DEF AfterSave, Answer
  <2>2. QED
    BY <1>1, <2>1, AnswerType, IdleGood
<1>4. QED
  BY <1>2, <1>3

LEMMA SaveWriteKeeps ==
    ASSUME IInv, NEW r \in Requests, SaveWrite(r)
    PROVE  IInv'
<1> DEFINE entity == req[r].row
           Written(o) == IF o.id = entity.id
                         THEN Overwrite(o, entity, req[r].dirty) ELSE o
<1>1. TypeOK /\ RequestGood(r) /\ RowsGood /\ UniqueEmails /\ IssuedOnce
  BY DEF IInv, RequestsGood
<1>2. GoodRow(entity)
  BY <1>1 DEF SaveWrite, RequestGood, HoldsRow
<1>3. otps' = {Written(o) : o \in otps}
  BY DEF SaveWrite
<1>4. ASSUME NEW o \in otps
      PROVE  /\ GoodRow(Written(o))
             /\ Written(o).email = o.email
  <2>1. GoodRow(o)
    BY <1>1 DEF RowsGood
  <2>2. CASE o.id # entity.id
    BY <2>1, <2>2
  <2>3. CASE o.id = entity.id
    <3> DEFINE w == Overwrite(o, entity, req[r].dirty)
    <3>1. /\ w \in OtpRow
          /\ w.id = o.id /\ w.email = o.email /\ w.password = o.password
          /\ w.code \in {o.code, entity.code}
          /\ w.attempts \in {o.attempts, entity.attempts}
      BY <1>2, <2>1, OverwriteType DEF GoodRow
    <3>2. PICK i \in issued : /\ i.id = o.id /\ i.code = o.code
                              /\ i.email = o.email /\ i.password = o.password
      BY <2>1 DEF GoodRow, Belongs
    <3>3. PICK j \in issued : /\ j.id = entity.id /\ j.code = entity.code
                              /\ j.email = entity.email /\ j.password = entity.password
      BY <1>2 DEF GoodRow, Belongs
    <3>4. i.email = j.email /\ i.password = j.password
      BY <1>1, <2>3, <3>2, <3>3 DEF IssuedOnce
    <3> HIDE DEF w
    <3>5. Belongs(w)
      BY <2>3, <3>1, <3>2, <3>3, <3>4 DEF Belongs
    <3>6. w.attempts <= MaxAttempts
      BY <1>2, <2>1, <3>1 DEF GoodRow
    <3>7. GoodRow(w) /\ w.email = o.email
      BY <3>1, <3>5, <3>6 DEF GoodRow
    <3>8. QED
      BY <2>3, <3>7 DEF w
  <2>4. QED
    BY <2>2, <2>3
<1> HIDE DEF Written
<1>5. \A o \in otps' : GoodRow(o)
  BY <1>3, <1>4
<1>6. \A o, p \in otps' : o.email = p.email => o = p
  BY <1>1, <1>3, <1>4 DEF UniqueEmails
<1>7. /\ req' \in [Requests -> Request]
      /\ \A q \in Requests \ {r} : req'[q] = req[q]
      /\ RequestGood(r)'
  BY AfterSaveGood DEF SaveWrite
<1>8. UNCHANGED <<users, expired, crashes, history>>
  BY DEF SaveWrite
<1>9. QED
  BY <1>5, <1>6, <1>7, <1>8, RowStep

LEMMA SaveInsertKeeps ==
    ASSUME IInv, NEW r \in Requests, SaveInsert(r)
    PROVE  IInv'
<1>1. TypeOK /\ RequestGood(r) /\ RowsGood /\ UniqueEmails
  BY DEF IInv, RequestsGood
<1>2. GoodRow(req[r].row)
  BY <1>1 DEF SaveInsert, RequestGood, HoldsRow
<1>3. CASE RowsOf(req[r].row.email) = {}
  <2>1. otps' = otps \cup {req[r].row}
    BY <1>3 DEF SaveInsert
  <2>2. \A o \in otps' : GoodRow(o)
    BY <1>1, <1>2, <2>1 DEF RowsGood
  <2>3. \A o, p \in otps' : o.email = p.email => o = p
    BY <1>1, <1>3, <2>1 DEF UniqueEmails, RowsOf
  <2>4. /\ req' \in [Requests -> Request]
        /\ \A q \in Requests \ {r} : req'[q] = req[q]
        /\ RequestGood(r)'
    BY <1>3, AfterSaveGood DEF SaveInsert
  <2>5. UNCHANGED <<users, expired, crashes, history>>
    BY DEF SaveInsert
  <2>6. QED
    BY <2>2, <2>3, <2>4, <2>5, RowStep
<1>4. CASE RowsOf(req[r].row.email) # {}
  <2>1. /\ req' \in [Requests -> Request]
        /\ req'[r] = Idle
        /\ \A q \in Requests \ {r} : req'[q] = req[q]
    BY <1>1, <1>4, AnswerType DEF SaveInsert
  <2>2. RequestGood(r)'
    BY <2>1, IdleGood
  <2>3. /\ otps' \subseteq otps
        /\ disturbed' \in BOOLEAN /\ seen' \in History
        /\ UNCHANGED <<users, expired, crashes, issued>>
    BY <1>1, <1>4 DEF SaveInsert, history, TypeOK
  <2>4. QED
    BY <2>1, <2>2, <2>3, QuietStep
<1>5. QED
  BY <1>3, <1>4

\* The row of a refused code is only there to be deleted.
LEMMA VerifyFindDeadKeeps ==
    ASSUME IInv, NEW r \in Requests, VerifyFindDead(r)
    PROVE  IInv'
<1>1. TypeOK /\ seen \in History
  BY DEF IInv, TypeOK
<1>2. PICK o \in otps : /\ Arrive(r, VerifyRequest("verDiscard", o), seen)
                        /\ UNCHANGED <<otps, users, expired, crashes, issued>>
  BY DEF VerifyFindDead
<1> DEFINE request == VerifyRequest("verDiscard", o)
<1>3. request \in Request
  <2>1. o \in OtpRow
    BY <1>1 DEF TypeOK
  <2>2. QED
    BY <2>1, RegistrationAssumption
       DEF VerifyRequest, Holding, Request, Label, CodeOrNone, OtpRow
<1>4. /\ req' \in [Requests -> Request]
      /\ req'[r] = request
      /\ \A q \in Requests \ {r} : req'[q] = req[q]
      /\ disturbed' \in BOOLEAN
      /\ seen' \in History
  BY <1>1, <1>2, <1>3, ArriveType
<1>5. RequestGood(r)'
  BY <1>4 DEF RequestGood, VerifyRequest, Holding, HoldsRow
<1>6. otps' \subseteq otps /\ UNCHANGED <<users, expired, crashes, issued>>
  BY <1>2
<1> HIDE DEF request
<1>7. QED
  BY <1>4, <1>5, <1>6, QuietStep

LEMMA VerifyFindWrongKeeps ==
    ASSUME IInv, NEW r \in Requests, VerifyFindWrong(r)
    PROVE  IInv'
<1>1. TypeOK /\ RowsGood
  BY DEF IInv
<1>2. PICK o \in otps : /\ ~Discards(o)
                        /\ Arrive(r, VerifyRequest("save", [o EXCEPT !.attempts = @ + 1]), [seen EXCEPT !.wrong[o.code] = AtMost(@ + 1, MaxAttempts + 1)])
                        /\ UNCHANGED <<otps, users, expired, crashes, issued>>
  BY DEF VerifyFindWrong
<1> DEFINE row == [o EXCEPT !.attempts = @ + 1]
           request == VerifyRequest("save", row)
<1>3. o \in OtpRow /\ Belongs(o) /\ o.attempts < MaxAttempts
  BY <1>1, <1>2, RegistrationAssumption DEF RowsGood, GoodRow, Discards, OtpRow
<1>4. row \in OtpRow /\ Belongs(row) /\ row.attempts <= MaxAttempts /\ row.email = o.email
  BY <1>3, RegistrationAssumption DEF OtpRow, Belongs
<1>5. [seen EXCEPT !.wrong[o.code] = AtMost(@ + 1, MaxAttempts + 1)] \in History
  BY <1>1, <1>3, HistoryType DEF TypeOK, OtpRow
<1> HIDE DEF row
<1>6. request \in Request
  BY <1>3, <1>4, RegistrationAssumption
     DEF VerifyRequest, Holding, Request, Label, CodeOrNone, OtpRow
<1>7. /\ req' \in [Requests -> Request]
      /\ req'[r] = request
      /\ \A q \in Requests \ {r} : req'[q] = req[q]
      /\ disturbed' \in BOOLEAN
      /\ seen' \in History
  BY <1>1, <1>2, <1>5, <1>6, ArriveType DEF row
<1>8. GoodRow(row)'
  BY <1>2, <1>4 DEF GoodRow, Belongs
<1>9. RequestGood(r)'
  BY <1>4, <1>7, <1>8, RegistrationAssumption DEF RequestGood, VerifyRequest, Holding, HoldsRow
<1>10. otps' \subseteq otps /\ UNCHANGED <<users, expired, crashes, issued>>
  BY <1>2
<1> HIDE DEF request
<1>11. QED
  BY <1>7, <1>9, <1>10, QuietStep

LEMMA VerifyFindRightKeeps ==
    ASSUME IInv, NEW r \in Requests, VerifyFindRight(r)
    PROVE  IInv'
<1>1. TypeOK /\ RowsGood
  BY DEF IInv
<1>2. PICK o \in otps : /\ ~Discards(o)
                        /\ Arrive(r, VerifyRequest("verFindUser", o), seen)
                        /\ UNCHANGED <<otps, users, expired, crashes, issued>>
  BY DEF VerifyFindRight
<1> DEFINE row == o
           request == VerifyRequest("verFindUser", row)
<1>3. o \in OtpRow /\ Belongs(o) /\ o.attempts < MaxAttempts
  BY <1>1, <1>2, RegistrationAssumption DEF RowsGood, GoodRow, Discards, OtpRow
<1>4. row \in OtpRow /\ Belongs(row) /\ row.attempts <= MaxAttempts /\ row.email = o.email
  BY <1>3, RegistrationAssumption DEF OtpRow, Belongs
<1>5. seen \in History
  BY <1>1, <1>3, HistoryType DEF TypeOK, OtpRow
<1> HIDE DEF row
<1>6. request \in Request
  BY <1>3, <1>4, RegistrationAssumption
     DEF VerifyRequest, Holding, Request, Label, CodeOrNone, OtpRow
<1>7. /\ req' \in [Requests -> Request]
      /\ req'[r] = request
      /\ \A q \in Requests \ {r} : req'[q] = req[q]
      /\ disturbed' \in BOOLEAN
      /\ seen' \in History
  BY <1>1, <1>2, <1>5, <1>6, ArriveType DEF row
<1>8. GoodRow(row)'
  BY <1>2, <1>4 DEF GoodRow, Belongs
<1>9. RequestGood(r)'
  BY <1>4, <1>7, <1>8, RegistrationAssumption DEF RequestGood, VerifyRequest, Holding, HoldsRow
<1>10. otps' \subseteq otps /\ UNCHANGED <<users, expired, crashes, issued>>
  BY <1>2
<1> HIDE DEF request
<1>11. QED
  BY <1>7, <1>9, <1>10, QuietStep

LEMMA VerifyFindUserKeeps ==
    ASSUME IInv, NEW r \in Requests, VerifyFindUser(r)
    PROVE  IInv'
<1> DEFINE label == IF Exists(req[r].email) THEN "verDelete" ELSE "verInsertUser"
<1>1. TypeOK /\ RequestGood(r) /\ label \in Label
  BY DEF IInv, RequestsGood, Label
<1>2. /\ req' \in [Requests -> Request]
      /\ req'[r] = [req[r] EXCEPT !.at = label]
      /\ \A q \in Requests \ {r} : req'[q] = req[q]
  BY <1>1, GotoType DEF VerifyFindUser
<1>3. RequestGood(r)'
  BY <1>1, <1>2 DEF RequestGood, HoldsRow, VerifyFindUser, history, TypeOK, Request,
     GoodRow, Belongs
<1>4. /\ otps' \subseteq otps
      /\ disturbed' \in BOOLEAN /\ seen' \in History
      /\ UNCHANGED <<users, expired, crashes, issued>>
  BY <1>1 DEF VerifyFindUser, history, TypeOK
<1> HIDE DEF label
<1>5. QED
  BY <1>2, <1>3, <1>4, QuietStep

\* A step of slot r that changes accounts and removes no code.
LEMMA AccountStep ==
    ASSUME IInv, NEW r \in Requests,
           req' \in [Requests -> Request],
           \A q \in Requests \ {r} : req'[q] = req[q],
           RequestGood(r)',
           users' \subseteq Account,
           \A u, v \in users' : u.email = v.email => u = v,
           \A u \in users' :
              IF u.code = 0 THEN u.password = None
              ELSE \E i \in issued : /\ i.code = u.code
                                     /\ i.email = u.email
                                     /\ i.password = u.password,
           seen' \in History,
           UNCHANGED <<otps, expired, crashes, issued, disturbed>>
    PROVE  IInv'
<1>1. TypeOK'
  BY DEF IInv, TypeOK
<1>2. IssuedOnce'
  BY DEF IInv, IssuedOnce
<1>3. RowsGood'
  BY GoodRowStable DEF IInv, RowsGood
<1>4. RequestsGood'
  BY OtherRequestsGood DEF IInv
<1>5. UniqueEmails'
  BY DEF IInv, UniqueEmails
<1>6. AccountFromItsOwnCode'
  BY DEF AccountFromItsOwnCode
<1>7. QED
  BY <1>1, <1>2, <1>3, <1>4, <1>5, <1>6 DEF IInv

LEMMA VerifyInsertUserKeeps ==
    ASSUME IInv, NEW r \in Requests, VerifyInsertUser(r)
    PROVE  IInv'
<1> DEFINE row == req[r].row
           u0 == [email |-> req[r].email, password |-> row.password,
                  code |-> row.code, token |-> 0]
<1>1. /\ TypeOK /\ RequestGood(r) /\ UniqueEmails /\ AccountFromItsOwnCode
      /\ "verDelete" \in Label
  BY DEF IInv, RequestsGood, Label
<1>2. GoodRow(row) /\ row.email = req[r].email
  BY <1>1 DEF VerifyInsertUser, RequestGood, HoldsRow
<1>3. CASE Exists(req[r].email)
  <2>1. /\ req' \in [Requests -> Request]
        /\ req'[r] = Idle
        /\ \A q \in Requests \ {r} : req'[q] = req[q]
    BY <1>1, <1>3, AnswerType DEF VerifyInsertUser
  <2>2. RequestGood(r)'
    BY <2>1, IdleGood
  <2>3. /\ otps' \subseteq otps
        /\ disturbed' \in BOOLEAN /\ seen' \in History
        /\ UNCHANGED <<users, expired, crashes, issued>>
    BY <1>1, <1>3 DEF VerifyInsertUser, history, TypeOK
  <2>4. QED
    BY <2>1, <2>2, <2>3, QuietStep
<1>4. CASE ~Exists(req[r].email)
  <2>1. /\ req' \in [Requests -> Request]
        /\ req'[r] = [req[r] EXCEPT !.at = "verDelete"]
        /\ \A q \in Requests \ {r} : req'[q] = req[q]
    BY <1>1, <1>4, GotoType DEF VerifyInsertUser
  <2>2. RequestGood(r)'
    BY <1>1, <1>2, <2>1 DEF RequestGood, HoldsRow, VerifyInsertUser, history, TypeOK,
       Request, GoodRow, Belongs
  <2>3. users' = users \cup {u0}
    BY <1>4 DEF VerifyInsertUser
  <2>4. u0 \in Account /\ u0.code # 0
    BY <1>2, RegistrationAssumption DEF Account, GoodRow, OtpRow, Codes, CodeOrNone
  <2>5. \E i \in issued : i.code = u0.code /\ i.email = u0.email /\ i.password = u0.password
    BY <1>2 DEF GoodRow, Belongs
  <2>6. u0.email = req[r].email
    OBVIOUS
  <2> HIDE DEF u0
  <2>7. \A u, v \in users' : u.email = v.email => u = v
    BY <1>1, <1>4, <2>3, <2>6 DEF UniqueEmails, Exists
  <2>8. \A u \in users' :
           IF u.code = 0 THEN u.password = None
           ELSE \E i \in issued : /\ i.code = u.code
                                  /\ i.email = u.email
                                  /\ i.password = u.password
    BY <1>1, <2>3, <2>4, <2>5 DEF AccountFromItsOwnCode
  <2>9. users' \subseteq Account /\ seen' \in History
    BY <1>1, <2>3, <2>4 DEF TypeOK, VerifyInsertUser, history
  <2>10. UNCHANGED <<otps, expired, crashes, issued, disturbed>>
    BY DEF VerifyInsertUser, history
  <2>11. QED
    BY <2>1, <2>2, <2>7, <2>8, <2>9, <2>10, AccountStep
<1>5. QED
  BY <1>3, <1>4

LEMMA VerifyRespondKeeps ==
    ASSUME IInv, NEW r \in Requests, VerifyRespond(r)
    PROVE  IInv'
<1> DEFINE Told(u) == IF u.email = req[r].email
                      THEN [u EXCEPT !.token = req[r].row.code] ELSE u
<1>1. /\ TypeOK /\ RequestGood(r) /\ UniqueEmails /\ AccountFromItsOwnCode
  BY DEF IInv, RequestsGood
<1>2. req[r].row.code \in Codes
  BY <1>1 DEF VerifyRespond, RequestGood, HoldsRow, GoodRow, OtpRow
<1>3. /\ req' \in [Requests -> Request]
      /\ req'[r] = Idle
      /\ \A q \in Requests \ {r} : req'[q] = req[q]
  BY <1>1, AnswerType DEF VerifyRespond
<1>4. RequestGood(r)'
  BY <1>3, IdleGood
<1>5. seen' \in History
  <2> DEFINE h == [seen EXCEPT !.logins[req[r].row.code] = AtMost(@ + 1, 2)]
  <2>1. h \in History /\ Record(h)
    BY <1>1, <1>2, HistoryType DEF VerifyRespond, TypeOK
  <2>2. QED
    BY <2>1, RecordType
<1>6. users' = {Told(u) : u \in users}
  BY DEF VerifyRespond
<1>7. \A u \in users : /\ Told(u) \in Account
                       /\ Told(u).email = u.email
                       /\ Told(u).code = u.code
                       /\ Told(u).password = u.password
  BY <1>1, <1>2, RegistrationAssumption DEF TypeOK, Account, Codes, CodeOrNone
<1> HIDE DEF Told
<1>8. \A u, v \in users' : u.email = v.email => u = v
  BY <1>1, <1>6, <1>7 DEF UniqueEmails
<1>9. \A u \in users' :
         IF u.code = 0 THEN u.password = None
         ELSE \E i \in issued : /\ i.code = u.code
                                /\ i.email = u.email
                                /\ i.password = u.password
  BY <1>1, <1>6, <1>7 DEF AccountFromItsOwnCode
<1>10. users' \subseteq Account
  BY <1>6, <1>7
<1>11. UNCHANGED <<otps, expired, crashes, issued, disturbed>>
  BY DEF VerifyRespond
<1>12. QED
  BY <1>3, <1>4, <1>5, <1>8, <1>9, <1>10, <1>11, AccountStep

LEMMA ResendFindKeeps ==
    ASSUME IInv, NEW r \in Requests, ResendFind(r)
    PROVE  IInv'
<1>0. PICK c : c = FreshCode
  OBVIOUS
<1>1. TypeOK /\ RowsGood /\ IssuedOnce /\ seen \in History
  BY DEF IInv, TypeOK
<1>2. PICK o \in otps :
         /\ Issue(c, o.id, o.email, o.password)
         /\ Arrive(r, Holding("save", "resend", o.email, None, c,
                              [o EXCEPT !.code = c, !.attempts = 0]), seen)
         /\ UNCHANGED <<otps, users, expired, crashes>>
  BY <1>0 DEF ResendFind
<1>a. PICK row : row = [o EXCEPT !.code = c, !.attempts = 0]
  OBVIOUS
<1> DEFINE request == Holding("save", "resend", o.email, None, c, row)
<1>3. /\ o \in OtpRow
      /\ o.id \in Codes /\ o.email \in Emails /\ o.password \in Passwords
      /\ \E i \in issued : i.id = o.id /\ i.email = o.email /\ i.password = o.password
  BY <1>1 DEF RowsGood, GoodRow, Belongs, OtpRow
<1>4. /\ c \in Codes
      /\ IssuedOnce'
      /\ issued' = issued \cup {[code |-> c, id |-> o.id, email |-> o.email,
                                 password |-> o.password]}
      /\ issued' \subseteq [code : Codes, id : Codes, email : Emails, password : Passwords]
  BY <1>0, <1>1, <1>2, <1>3, IssueGood
<1>5. /\ row \in OtpRow
      /\ row.id = o.id /\ row.email = o.email /\ row.password = o.password
      /\ row.code = c /\ row.attempts = 0
  BY <1>a, <1>3, <1>4 DEF OtpRow
<1>6. request \in Request
  BY <1>3, <1>4, <1>5, RegistrationAssumption
     DEF Holding, Request, Label, CodeOrNone, Codes
<1>7. /\ req' \in [Requests -> Request]
      /\ req'[r] = request
      /\ \A q \in Requests \ {r} : req'[q] = req[q]
      /\ disturbed' \in BOOLEAN
      /\ seen' \in History
  BY <1>a, <1>1, <1>2, <1>6, ArriveType
<1>8. GoodRow(row)'
  <2>1. PICK i \in issued' : /\ i.id = o.id /\ i.code = c
                             /\ i.email = o.email /\ i.password = o.password
    <3> DEFINE i0 == [code |-> c, id |-> o.id, email |-> o.email,
                      password |-> o.password]
    <3>1. i0 \in issued'
      BY <1>4
    <3>2. /\ i0.id = o.id /\ i0.code = c
          /\ i0.email = o.email /\ i0.password = o.password
      OBVIOUS
    <3> HIDE DEF i0
    <3>3. QED
      BY <3>1, <3>2
  <2>2. Belongs(row)'
    BY <1>5, <2>1 DEF Belongs
  <2>3. row.attempts <= MaxAttempts
    BY <1>5, RegistrationAssumption
  <2>4. QED
    BY <1>5, <2>2, <2>3 DEF GoodRow
<1>9. RequestGood(r)'
  BY <1>4, <1>7, <1>8 DEF RequestGood, Holding, HoldsRow
<1>10. issued \subseteq issued' /\ UNCHANGED <<otps, users, expired, crashes>>
  BY <1>2, <1>4
<1> HIDE DEF request
<1>11. QED
  BY <1>4, <1>7, <1>9, <1>10, IssueStep

LEMMA ExpireKeeps ==
    ASSUME IInv, NEW c \in Codes, Expire(c)
    PROVE  IInv'
<1>1. TypeOK'
  BY DEF IInv, TypeOK, Expire, history
<1>2. IssuedOnce' /\ UniqueEmails' /\ AccountFromItsOwnCode'
  BY DEF IInv, IssuedOnce, UniqueEmails, AccountFromItsOwnCode, Expire, history
<1>3. RowsGood' /\ RequestsGood'
  BY DEF IInv, RowsGood, RequestsGood, RequestGood, GoodRow, Belongs, Expire, history
<1>4. QED
  BY <1>1, <1>2, <1>3 DEF IInv

LEMMA AccountMadeElsewhereKeeps ==
    ASSUME IInv, NEW e \in Emails, AccountMadeElsewhere(e)
    PROVE  IInv'
<1> DEFINE u0 == [email |-> e, password |-> None, code |-> 0, token |-> 0]
<1>1. u0 \in Account
  BY RegistrationAssumption DEF Account, CodeOrNone
<1>2. users' = users \cup {u0} /\ ~Exists(e)
  BY DEF AccountMadeElsewhere
<1>3. TypeOK'
  BY <1>1, <1>2 DEF IInv, TypeOK, AccountMadeElsewhere, history
<1>4. UniqueEmails'
  BY <1>2 DEF IInv, UniqueEmails, AccountMadeElsewhere, Exists
<1>5. AccountFromItsOwnCode'
  BY <1>2 DEF IInv, AccountFromItsOwnCode, AccountMadeElsewhere, history
<1>6. IssuedOnce' /\ RowsGood' /\ RequestsGood'
  BY DEF IInv, IssuedOnce, RowsGood, RequestsGood, RequestGood, GoodRow, Belongs,
     AccountMadeElsewhere, history
<1>7. QED
  BY <1>3, <1>4, <1>5, <1>6 DEF IInv

LEMMA CrashKeeps ==
    ASSUME IInv, Crash
    PROVE  IInv'
<1>1. Idle \in Request /\ NothingSeen \in History
  BY RegistrationAssumption
     DEF Idle, Holding, Request, Label, CodeOrNone, NothingSeen, History
<1>2. req' \in [Requests -> Request] /\ \A r \in Requests : req'[r] = Idle
  BY <1>1 DEF Crash
<1>3. seen' \in History
  BY <1>1, RecordType DEF IInv, TypeOK, Crash
<1>4. TypeOK'
  BY <1>2, <1>3, RegistrationAssumption DEF IInv, TypeOK, Crash
<1>5. RequestsGood'
  BY <1>2, IdleGood DEF RequestsGood
<1>6. IssuedOnce' /\ RowsGood' /\ UniqueEmails' /\ AccountFromItsOwnCode'
  BY DEF IInv, IssuedOnce, RowsGood, GoodRow, Belongs, UniqueEmails,
     AccountFromItsOwnCode, Crash
<1>7. QED
  BY <1>4, <1>5, <1>6 DEF IInv

-----------------------------------------------------------------------------
(* The theorems.                                                           *)

\* The invariant holds throughout every behaviour.
THEOREM Invariance == Spec => []IInv
<1>1. Init => IInv
  <2> SUFFICES ASSUME Init PROVE IInv
    OBVIOUS
  <2>1. Idle \in Request /\ NothingSeen \in History
    BY RegistrationAssumption
       DEF Idle, Holding, Request, Label, CodeOrNone, NothingSeen, History
  <2>2. TypeOK
    <3>1. req \in [Requests -> Request] /\ seen \in History
      BY <2>1 DEF Init
    <3>2. crashes \in 0 .. MaxCrashes
      BY RegistrationAssumption DEF Init
    <3>3. disturbed \in BOOLEAN
      BY DEF Init
    <3>4. QED
      BY <3>1, <3>2, <3>3 DEF Init, TypeOK
  <2>3. IssuedOnce
    BY FS_EmptySet DEF Init, IssuedOnce
  <2>4. RequestsGood
    BY DEF Init, RequestsGood, RequestGood, Idle, Holding, HoldsRow
  <2>5. RowsGood /\ UniqueEmails /\ AccountFromItsOwnCode
    BY DEF Init, RowsGood, UniqueEmails, AccountFromItsOwnCode
  <2>6. QED
    BY <2>2, <2>3, <2>4, <2>5 DEF IInv
<1>2. IInv /\ [Next]_vars => IInv'
  <2> SUFFICES ASSUME IInv, [Next]_vars PROVE IInv'
    OBVIOUS
  <2>1. ASSUME NEW r \in Requests, Step(r) PROVE IInv'
    BY <2>1, RegisterDeleteKeeps, RegisterInsertKeeps, RegisterQueueKeeps,
       RegisterQueueFailsKeeps, RegisterCleanupKeeps, SaveSelectKeeps,
       SaveWriteKeeps, SaveInsertKeeps, VerifyDiscardKeeps, VerifyFindUserKeeps,
       VerifyInsertUserKeeps, VerifyDeleteKeeps, VerifyRespondKeeps,
       ResendQueueKeeps, ResendQueueFailsKeeps DEF Step
  <2>2. CASE UNCHANGED vars
    BY <2>2 DEF vars, history, IInv, TypeOK, IssuedOnce, RowsGood, RequestsGood,
       RequestGood, GoodRow, Belongs, UniqueEmails, AccountFromItsOwnCode
  <2>3. QED
    BY <2>1, <2>2, RegisterFindUserKeeps, VerifyFindDeadKeeps, VerifyFindWrongKeeps,
       VerifyFindRightKeeps, ResendFindKeeps, ExpireKeeps,
       AccountMadeElsewhereKeeps, CrashKeeps DEF Next
<1>3. QED
  BY <1>1, <1>2, PTL DEF Spec

\* The state always has its type.
THEOREM TypeCorrect == Spec => []TypeOK
<1>1. IInv => TypeOK
  BY DEF IInv
<1>2. QED
  BY <1>1, Invariance, PTL

\* The counter a wrong guess saves never passes the limit, however many
\* requests save counters they computed from rows read earlier.
THEOREM CounterBounded == Spec => []AttemptsBounded
<1>1. IInv => AttemptsBounded
  BY DEF IInv, RowsGood, GoodRow, AttemptsBounded
<1>2. QED
  BY <1>1, Invariance, PTL

\* An account is the one of the registration whose code opened it.
THEOREM AccountsGenuine == Spec => []AccountFromItsOwnCode
<1>1. IInv => AccountFromItsOwnCode
  BY DEF IInv
<1>2. QED
  BY <1>1, Invariance, PTL
-----------------------------------------------------------------------------
(* Requests that arrive one at a time.                                     *)

\* No two slots are in use.
Alone == \A r, q \in Requests : req[r] # Idle /\ req[q] # Idle => r = q

\* The codes issued are 1, 2, ... and each belongs to one issue.
Numbered ==
    /\ \A i \in issued : i.code <= Cardinality(issued)
    /\ \A i, j \in issued : i.code = j.code => i = j

\* Nobody was told code c.
Unseen(c) == seen.wrong[c] = 0 /\ seen.logins[c] = 0 /\ c \notin seen.mailed

\* c is the last code issued for email e.
Newest(c, e) == \A i \in issued : i.email = e => i.code <= c

\* A wrong guess whose counter is still in the memory of the handler.
Counting(r) == req[r].at \in {"save", "saveWrite"} /\ req[r].op = "verify"
Owed(o) == \E r \in Requests : Counting(r) /\ req[r].row.id = o.id

UnusedUnseen == \A c \in Codes : c > Cardinality(issued) => Unseen(c)

\* The stored counter is the number of wrong guesses, but for one being saved.
Tallied ==
    \A o \in otps : /\ seen.logins[o.code] = 0
                    /\ seen.wrong[o.code] = IF Owed(o) THEN o.attempts + 1 ELSE o.attempts

Spent == \A c \in Codes : seen.wrong[c] <= MaxAttempts /\ seen.logins[c] <= 1

\* The newest code of an email is stored as long as it is of use.
NewestStored ==
    \A i \in issued :
        (/\ i.code \in seen.mailed
         /\ Newest(i.code, i.email)
         /\ i.code \notin expired
         /\ seen.wrong[i.code] < MaxAttempts
         /\ ~Exists(i.email))
        => \E o \in otps : o.email = i.email /\ o.code = i.code

\* The code request r generated is not stored yet.
Unstored(r) ==
    /\ req[r].code \in Codes
    /\ Unseen(req[r].code)
    /\ Newest(req[r].code, req[r].email)
    /\ \A o \in otps : o.code # req[r].code

\* The code request r generated is stored and its mail is not queued.
Stored(r) ==
    /\ req[r].code \in Codes
    /\ Unseen(req[r].code)
    /\ Newest(req[r].code, req[r].email)
    /\ \E o \in otps : o.email = req[r].email /\ o.code = req[r].code

\* The row that the entity of request r was read from is still there.
Saving(r) ==
    /\ req[r].op \in {"verify", "resend"}
    /\ req[r].op = "resend" =>
          /\ Unstored(r)
          /\ req[r].row.code = req[r].code
          /\ req[r].row.attempts = 0
          /\ req[r].row.email = req[r].email
    /\ \E o \in otps :
          /\ o.id = req[r].row.id
          /\ req[r].op = "verify" => /\ o.code = req[r].row.code
                                     /\ o.attempts + 1 = req[r].row.attempts
          /\ req[r].at = "saveWrite" => req[r].dirty = DirtyColumns(req[r].row, o)

\* Where the request that runs alone has come to.
Stage(r) ==
    /\ req[r].at \in {"regDelete", "regInsert"} => Unstored(r)
    /\ req[r].at = "regInsert" => RowsOf(req[r].email) = {}
    /\ req[r].at \in {"regQueue", "regCleanup", "resQueue"} => Stored(r)
    /\ req[r].at \in {"save", "saveWrite"} => Saving(r)
    /\ req[r].at # "saveInsert"
    /\ req[r].at \in {"verDiscard", "verFindUser", "verInsertUser", "verDelete"} =>
          req[r].row \in otps /\ req[r].row.email = req[r].email
    /\ req[r].at = "verDiscard" => Discards(req[r].row)
    /\ req[r].at = "verDelete" => Exists(req[r].email)
    /\ req[r].at = "verRespond" => /\ seen.logins[req[r].row.code] = 0
                                   /\ \A o \in otps : o.code # req[r].row.code

Solo ==
    /\ Alone
    /\ UnusedUnseen
    /\ Tallied
    /\ Spent
    /\ NewestStored
    /\ \A r \in Requests : Stage(r)

SoloInv == Numbered /\ (~disturbed => Solo)

\* Rows are told apart by their emails, ids and codes, and hold codes in use.
LEMMA RowsApart ==
    ASSUME IInv, Numbered
    PROVE  /\ \A o, p \in otps : o.id = p.id \/ o.code = p.code => o = p
           /\ \A o \in otps : /\ o \in OtpRow
                              /\ o.code <= Cardinality(issued)
                              /\ o.attempts <= MaxAttempts
           /\ Cardinality(issued) \in Nat
<1>1. \A o \in otps : GoodRow(o)
  BY DEF IInv, RowsGood
<1>2. ASSUME NEW o \in otps, NEW p \in otps, o.id = p.id \/ o.code = p.code
      PROVE  o = p
  <2>1. PICK i \in issued : i.id = o.id /\ i.code = o.code /\ i.email = o.email
    BY <1>1 DEF GoodRow, Belongs
  <2>2. PICK j \in issued : j.id = p.id /\ j.code = p.code /\ j.email = p.email
    BY <1>1 DEF GoodRow, Belongs
  <2>3. i.email = j.email
    BY <1>2, <2>1, <2>2 DEF IInv, IssuedOnce, Numbered
  <2>4. QED
    BY <2>1, <2>2, <2>3 DEF IInv, UniqueEmails
<1>3. ASSUME NEW o \in otps
      PROVE  o \in OtpRow /\ o.code <= Cardinality(issued) /\ o.attempts <= MaxAttempts
  BY <1>1 DEF GoodRow, Belongs, Numbered
<1>4. Cardinality(issued) \in Nat
  BY FS_CardinalityType DEF IInv, IssuedOnce
<1>5. QED
  BY <1>2, <1>3, <1>4

\* A slot that is idle is at no stage.
LEMMA IdleStage ==
    ASSUME NEW r \in Requests, req'[r] = Idle
    PROVE  Stage(r)' /\ ~Counting(r)'
  BY DEF Stage, Idle, Holding, Counting

\* The step of the only request leaves the other slots idle.
LEMMA AloneStep ==
    ASSUME SoloInv, ~disturbed, NEW r \in Requests, req[r] # Idle,
           \A q \in Requests \ {r} : req'[q] = req[q]
    PROVE  /\ Numbered /\ UnusedUnseen /\ Tallied /\ Spent /\ NewestStored
           /\ Stage(r)
           /\ Alone'
           /\ \A q \in Requests \ {r} : Stage(q)'
           /\ \A o : Owed(o) <=> (Counting(r) /\ req[r].row.id = o.id)
           /\ \A o : Owed(o)' <=> (Counting(r)' /\ req'[r].row.id = o.id)
<1>1. Numbered /\ Solo
  BY DEF SoloInv
<1>2. \A q \in Requests \ {r} : req[q] = Idle /\ req'[q] = Idle
  BY <1>1 DEF Solo, Alone
<1>3. \A q \in Requests \ {r} : ~Counting(q)
  BY <1>2 DEF Counting, Idle, Holding
<1>4. \A q \in Requests \ {r} : Stage(q)' /\ ~Counting(q)'
  BY <1>2, IdleStage
<1>5. Alone'
  BY <1>2 DEF Alone
<1>6. \A o : Owed(o) <=> (Counting(r) /\ req[r].row.id = o.id)
  BY <1>3 DEF Owed
<1>7. \A o : Owed(o)' <=> (Counting(r)' /\ req'[r].row.id = o.id)
  BY <1>4 DEF Owed
<1>8. QED
  BY <1>1, <1>4, <1>5, <1>6, <1>7 DEF Solo

\* The request that arrives when none is in flight is the only one.
LEMMA AloneArrives ==
    ASSUME IInv, SoloInv, NEW r \in Requests, NEW request \in Request, NEW h,
           Arrive(r, request, h), ~disturbed'
    PROVE  /\ ~disturbed
           /\ Numbered /\ UnusedUnseen /\ Tallied /\ Spent /\ NewestStored
           /\ seen' = h
           /\ Alone'
           /\ req'[r] = request
           /\ \A q \in Requests \ {r} : Stage(q)'
           /\ \A o : ~Owed(o)
           /\ \A o : Owed(o)' <=> (Counting(r)' /\ req'[r].row.id = o.id)
<1>1. ~disturbed /\ \A q \in Requests : req[q] = Idle
  BY DEF Arrive
<1>2. Numbered /\ Solo
  BY <1>1 DEF SoloInv
<1>3. req'[r] = request /\ \A q \in Requests \ {r} : req'[q] = Idle
  BY <1>1 DEF Arrive, IInv, TypeOK
<1>4. \A q \in Requests : ~Counting(q)
  BY <1>1 DEF Counting, Idle, Holding
<1>5. \A q \in Requests \ {r} : Stage(q)' /\ ~Counting(q)'
  BY <1>3, IdleStage
<1>6. Alone'
  BY <1>3 DEF Alone
<1>7. \A o : ~Owed(o)
  BY <1>4 DEF Owed
<1>8. \A o : Owed(o)' <=> (Counting(r)' /\ req'[r].row.id = o.id)
  BY <1>5 DEF Owed
<1>9. seen' = h
  BY DEF Arrive, Record
<1>10. QED
  BY <1>1, <1>2, <1>3, <1>5, <1>6, <1>7, <1>8, <1>9 DEF Solo

\* A step of the only request that issues no code and is told nothing.
LEMMA QuietSolo ==
    ASSUME SoloInv, ~disturbed, NEW r \in Requests, req[r] # Idle,
           \A q \in Requests \ {r} : req'[q] = req[q],
           UNCHANGED <<issued, seen>>,
           Tallied', NewestStored', Stage(r)'
    PROVE  SoloInv'
<1>1. /\ Numbered /\ UnusedUnseen /\ Spent /\ Alone'
      /\ \A q \in Requests \ {r} : Stage(q)'
  BY AloneStep
<1>2. Numbered' /\ UnusedUnseen' /\ Spent'
  BY <1>1 DEF Numbered, UnusedUnseen, Unseen, Spent
<1>3. \A q \in Requests : Stage(q)'
  BY <1>1
<1>4. QED
  BY <1>1, <1>2, <1>3 DEF SoloInv, Solo

\* The newest codes stay stored when only rows of no more use are removed.
LEMMA NewestKept ==
    ASSUME NewestStored, UNCHANGED <<issued, seen>>, expired \subseteq expired',
           \A e : Exists(e) => Exists(e)',
           \A o \in otps : \/ \E p \in otps' : p.email = o.email /\ p.code = o.code
                           \/ o.code \notin seen.mailed
                           \/ ~Newest(o.code, o.email)
                           \/ o.code \in expired'
                           \/ ~(seen.wrong[o.code] < MaxAttempts)
                           \/ Exists(o.email)'
    PROVE  NewestStored'
<1> SUFFICES ASSUME NEW i \in issued, i.code \in seen.mailed,
                    Newest(i.code, i.email), i.code \notin expired',
                    seen.wrong[i.code] < MaxAttempts, ~Exists(i.email)'
             PROVE  \E o \in otps' : o.email = i.email /\ o.code = i.code
  BY DEF NewestStored, Newest
<1>1. PICK o \in otps : o.email = i.email /\ o.code = i.code
  BY DEF NewestStored
<1>2. QED
  BY <1>1

\* The counts stay right when rows are only removed and no guess is counted.
LEMMA TalliedFewer ==
    ASSUME Tallied, otps' \subseteq otps, UNCHANGED seen,
           \A o \in otps' : Owed(o)' <=> Owed(o)
    PROVE  Tallied'
  BY DEF Tallied

LEMMA RegisterDeleteSolo ==
    ASSUME IInv, SoloInv, ~disturbed, NEW r \in Requests, RegisterDelete(r)
    PROVE  SoloInv'
<1>1. /\ TypeOK /\ RequestGood(r) /\ "regInsert" \in Label /\ req[r] # Idle
      /\ req[r].at = "regDelete" /\ req[r] \in Request
  BY DEF IInv, RequestsGood, Label, RegisterDelete, Idle, Holding, TypeOK
<1>2. /\ req'[r] = [req[r] EXCEPT !.at = "regInsert"]
      /\ \A q \in Requests \ {r} : req'[q] = req[q]
  BY <1>1, GotoType DEF RegisterDelete
<1>3. /\ req'[r].at = "regInsert" /\ req'[r].email = req[r].email
      /\ req'[r].code = req[r].code
  BY <1>1, <1>2 DEF Request
<1>4. /\ Numbered /\ Tallied /\ NewestStored /\ Stage(r)
      /\ \A o : Owed(o) <=> (Counting(r) /\ req[r].row.id = o.id)
      /\ \A o : Owed(o)' <=> (Counting(r)' /\ req'[r].row.id = o.id)
  BY <1>1, <1>2, AloneStep
<1>5. ~Counting(r) /\ ~Counting(r)' /\ Unstored(r)
  BY <1>1, <1>3, <1>4 DEF Counting, Stage
<1>6. /\ otps' = otps \ RowsOf(req[r].email)
      /\ UNCHANGED <<issued, seen, expired, users>>
  BY DEF RegisterDelete, DeleteOtps, history
<1>7. Tallied'
  BY <1>4, <1>5, <1>6, TalliedFewer
<1>8. ASSUME NEW o \in otps, o.email = req[r].email
      PROVE  ~Newest(o.code, o.email)
  <2>1. PICK i \in issued : i.code = req[r].code /\ i.email = req[r].email
    BY <1>1 DEF RequestGood
  <2>2. o.code \in Codes /\ o.code # i.code /\ i.code \in Codes
    BY <1>1, <1>5, <2>1 DEF Unstored, TypeOK, OtpRow
  <2>3. PICK j \in issued : j.code = o.code /\ j.email = o.email
    BY DEF IInv, RowsGood, GoodRow, Belongs
  <2>4. o.code <= i.code
    BY <1>5, <1>8, <2>1, <2>3 DEF Unstored, Newest
  <2>5. QED
    BY <1>8, <2>1, <2>2, <2>4 DEF Newest, Codes
<1>9. NewestStored'
  <2>1. \A e : Exists(e) => Exists(e)'
    BY <1>6 DEF Exists
  <2>2. QED
    BY <1>4, <1>6, <1>8, <2>1, NewestKept DEF RowsOf
<1>10. Stage(r)'
  BY <1>3, <1>5, <1>6 DEF Stage, Unstored, Unseen, Newest, RowsOf
<1>11. QED
  BY <1>1, <1>2, <1>6, <1>7, <1>9, <1>10, QuietSolo

LEMMA RegisterInsertSolo ==
    ASSUME IInv, SoloInv, ~disturbed, NEW r \in Requests, RegisterInsert(r)
    PROVE  SoloInv'
<1>1. /\ TypeOK /\ RequestGood(r) /\ "regQueue" \in Label /\ req[r] # Idle
      /\ req[r].at = "regInsert" /\ req[r] \in Request
  BY DEF IInv, RequestsGood, Label, RegisterInsert, Idle, Holding, TypeOK
<1>2. RowsOf(req[r].email) = {}
  <2>1. Alone /\ Stage(r)
    BY DEF SoloInv, Solo
  <2>2. QED
    BY <1>1, <2>1 DEF Stage
<1>a. PICK o : o = [id |-> req[r].code, email |-> req[r].email,
                    password |-> req[r].password, code |-> req[r].code, attempts |-> 0]
  OBVIOUS
<1>3. /\ otps' = otps \cup {o} /\ Goto(r, "regQueue")
      /\ UNCHANGED <<issued, seen, expired, users>>
  BY <1>2, <1>a DEF RegisterInsert, history
<1>4. /\ req'[r] = [req[r] EXCEPT !.at = "regQueue"]
      /\ \A q \in Requests \ {r} : req'[q] = req[q]
  BY <1>1, <1>3, GotoType
<1>5. /\ req'[r].at = "regQueue" /\ req'[r].email = req[r].email
      /\ req'[r].code = req[r].code
  BY <1>1, <1>4 DEF Request
<1>6. /\ Numbered /\ Tallied /\ NewestStored /\ Stage(r)
      /\ \A p : Owed(p) <=> (Counting(r) /\ req[r].row.id = p.id)
      /\ \A p : Owed(p)' <=> (Counting(r)' /\ req'[r].row.id = p.id)
  BY <1>1, <1>4, AloneStep
<1>7. ~Counting(r) /\ ~Counting(r)' /\ Unstored(r)
  BY <1>1, <1>5, <1>6 DEF Counting, Stage
<1>8. o.code = req[r].code /\ o.email = req[r].email /\ o.attempts = 0
  BY <1>a
<1>9. Tallied'
  BY <1>3, <1>6, <1>7, <1>8 DEF Tallied, Unstored, Unseen
<1>10. NewestStored'
  <2>1. \A e : Exists(e) => Exists(e)'
    BY <1>3 DEF Exists
  <2>2. QED
    BY <1>3, <1>6, <2>1, NewestKept
<1>11. Stage(r)'
  <2>1. Stored(r)'
    BY <1>3, <1>5, <1>7, <1>8 DEF Stored, Unstored, Unseen, Newest
  <2>2. QED
    BY <1>5, <2>1 DEF Stage
<1>12. QED
  BY <1>1, <1>3, <1>4, <1>9, <1>10, <1>11, QuietSolo

\* The mail of the stored code of request r is queued.
LEMMA QueuedSolo ==
    ASSUME IInv, SoloInv, ~disturbed, NEW r \in Requests, req[r] # Idle,
           Answer(r), UNCHANGED <<otps, users, expired, issued, disturbed>>,
           Record([seen EXCEPT !.mailed = @ \cup {req[r].code}]),
           req[r].at \in {"regQueue", "resQueue"}
    PROVE  SoloInv'
<1>1. TypeOK /\ seen \in History
  BY DEF IInv, TypeOK
<1>2. /\ req'[r] = Idle
      /\ \A q \in Requests \ {r} : req'[q] = req[q]
  BY <1>1, AnswerType
<1>3. /\ Numbered /\ UnusedUnseen /\ Tallied /\ Spent /\ NewestStored /\ Stage(r)
      /\ Alone'
      /\ \A q \in Requests \ {r} : Stage(q)'
      /\ \A p : Owed(p) <=> (Counting(r) /\ req[r].row.id = p.id)
      /\ \A p : Owed(p)' <=> (Counting(r)' /\ req'[r].row.id = p.id)
  BY <1>2, AloneStep
<1>4. Stage(r)' /\ ~Counting(r)' /\ ~Counting(r)
  BY <1>2, IdleStage DEF Counting
<1>5. /\ seen'.mailed = seen.mailed \cup {req[r].code}
      /\ seen'.wrong = seen.wrong /\ seen'.logins = seen.logins
  BY <1>1 DEF Record, History
<1>6. Stored(r)
  BY <1>3 DEF Stage
<1>7. PICK o \in otps : o.email = req[r].email /\ o.code = req[r].code
  BY <1>6 DEF Stored
<1>8. o.code <= Cardinality(issued) /\ Cardinality(issued) \in Nat
  BY <1>3, RowsApart
<1>9. UnusedUnseen'
  <2> SUFFICES ASSUME NEW c \in Codes, c > Cardinality(issued)
               PROVE  Unseen(c)'
    BY DEF UnusedUnseen
  <2>1. Unseen(c) /\ c # o.code
    BY <1>3, <1>8 DEF UnusedUnseen, Codes
  <2>2. QED
    BY <1>5, <1>7, <2>1 DEF Unseen
<1>10. Tallied' /\ Spent' /\ Numbered'
  BY <1>3, <1>4, <1>5 DEF Tallied, Spent, Numbered
<1>11. NewestStored'
  <2> SUFFICES ASSUME NEW i \in issued, i.code \in seen'.mailed,
                      Newest(i.code, i.email), i.code \notin expired,
                      seen.wrong[i.code] < MaxAttempts, ~Exists(i.email)
               PROVE  \E p \in otps : p.email = i.email /\ p.code = i.code
    BY <1>5 DEF NewestStored, Newest, Exists
  <2>1. CASE i.code \in seen.mailed
    BY <1>3, <2>1 DEF NewestStored
  <2>2. CASE i.code = req[r].code
    <3>1. PICK j \in issued : j.code = o.code /\ j.email = o.email
      BY DEF IInv, RowsGood, GoodRow, Belongs
    <3>2. i = j
      BY <1>3, <1>7, <2>2, <3>1 DEF Numbered
    <3>3. QED
      BY <3>1, <3>2
  <2>3. QED
    BY <1>5, <2>1, <2>2
<1>12. \A q \in Requests : Stage(q)'
  BY <1>3, <1>4
<1>13. QED
  BY <1>3, <1>9, <1>10, <1>11, <1>12 DEF SoloInv, Solo

LEMMA RegisterQueueSolo ==
    ASSUME IInv, SoloInv, ~disturbed, NEW r \in Requests, RegisterQueue(r)
    PROVE  SoloInv'
<1>1. req[r] # Idle
  BY DEF RegisterQueue, Idle, Holding
<1>2. QED
  BY <1>1, QueuedSolo DEF RegisterQueue

LEMMA ResendQueueSolo ==
    ASSUME IInv, SoloInv, ~disturbed, NEW r \in Requests, ResendQueue(r)
    PROVE  SoloInv'
<1>1. req[r] # Idle
  BY DEF ResendQueue, Idle, Holding
<1>2. QED
  BY <1>1, QueuedSolo DEF ResendQueue

LEMMA RegisterQueueFailsSolo ==
    ASSUME IInv, SoloInv, ~disturbed, NEW r \in Requests, RegisterQueueFails(r)
    PROVE  SoloInv'
<1>1. /\ TypeOK /\ "regCleanup" \in Label /\ req[r] # Idle
      /\ req[r].at = "regQueue" /\ req[r] \in Request
  BY DEF IInv, Label, RegisterQueueFails, Idle, Holding, TypeOK
<1>2. /\ req'[r] = [req[r] EXCEPT !.at = "regCleanup"]
      /\ \A q \in Requests \ {r} : req'[q] = req[q]
  BY <1>1, GotoType DEF RegisterQueueFails
<1>3. /\ req'[r].at = "regCleanup" /\ req'[r].email = req[r].email
      /\ req'[r].code = req[r].code
  BY <1>1, <1>2 DEF Request
<1>4. /\ Tallied /\ NewestStored /\ Stage(r)
      /\ \A o : Owed(o) <=> (Counting(r) /\ req[r].row.id = o.id)
      /\ \A o : Owed(o)' <=> (Counting(r)' /\ req'[r].row.id = o.id)
  BY <1>1, <1>2, AloneStep
<1>5. ~Counting(r) /\ ~Counting(r)' /\ Stored(r)
  BY <1>1, <1>3, <1>4 DEF Counting, Stage
<1>6. UNCHANGED <<otps, issued, seen, expired, users>>
  BY DEF RegisterQueueFails, history
<1>7. Tallied'
  BY <1>4, <1>5, <1>6, TalliedFewer
<1>8. NewestStored'
  BY <1>4, <1>6 DEF NewestStored, Newest, Exists
<1>9. Stage(r)'
  <2>1. Stored(r)'
    BY <1>3, <1>5, <1>6 DEF Stored, Unseen, Newest
  <2>2. QED
    BY <1>3, <2>1 DEF Stage
<1>10. QED
  BY <1>1, <1>2, <1>6, <1>7, <1>8, <1>9, QuietSolo

\* A request that answers and whose deletes removed rows of no more use.
LEMMA AnsweredSolo ==
    ASSUME IInv, SoloInv, ~disturbed, NEW r \in Requests, req[r] # Idle, ~Counting(r),
           Answer(r), otps' \subseteq otps, UNCHANGED <<issued, seen>>, NewestStored'
    PROVE  SoloInv'
<1>1. /\ req'[r] = Idle
      /\ \A q \in Requests \ {r} : req'[q] = req[q]
  BY AnswerType DEF IInv
<1>2. Stage(r)' /\ ~Counting(r)'
  BY <1>1, IdleStage
<1>3. /\ Tallied
      /\ \A p : Owed(p) <=> (Counting(r) /\ req[r].row.id = p.id)
      /\ \A p : Owed(p)' <=> (Counting(r)' /\ req'[r].row.id = p.id)
  BY <1>1, AloneStep
<1>4. Tallied'
  BY <1>2, <1>3, TalliedFewer
<1>5. QED
  BY <1>1, <1>2, <1>4, QuietSolo

LEMMA RegisterCleanupSolo ==
    ASSUME IInv, SoloInv, ~disturbed, NEW r \in Requests, RegisterCleanup(r)
    PROVE  SoloInv'
<1>1. /\ req[r] # Idle /\ ~Counting(r) /\ req[r].at = "regCleanup" /\ Answer(r)
      /\ otps' = otps \ RowsOf(req[r].email)
      /\ UNCHANGED <<users, expired, issued, seen>>
  BY DEF RegisterCleanup, Idle, Holding, Counting, DeleteOtps, history
<1>2. Stored(r) /\ NewestStored
  BY <1>1 DEF SoloInv, Solo, Stage
<1>3. PICK p \in otps : p.email = req[r].email /\ p.code = req[r].code
  BY <1>2 DEF Stored
<1>4. ASSUME NEW o \in otps, o.email = req[r].email
      PROVE  o.code \notin seen.mailed
  BY <1>2, <1>3, <1>4 DEF IInv, UniqueEmails, Stored, Unseen
<1>5. \A e : Exists(e) => Exists(e)'
  BY <1>1 DEF Exists
<1>6. NewestStored'
  BY <1>1, <1>2, <1>4, <1>5, NewestKept DEF RowsOf
<1>7. QED
  BY <1>1, <1>6, AnsweredSolo

LEMMA ResendQueueFailsSolo ==
    ASSUME IInv, SoloInv, ~disturbed, NEW r \in Requests, ResendQueueFails(r)
    PROVE  SoloInv'
<1>1. /\ req[r] # Idle /\ ~Counting(r) /\ Answer(r)
      /\ UNCHANGED <<otps, users, expired, issued, seen>>
  BY DEF ResendQueueFails, Idle, Holding, Counting, history
<1>2. NewestStored'
  BY <1>1 DEF SoloInv, Solo, NewestStored, Newest, Exists
<1>3. QED
  BY <1>1, <1>2, AnsweredSolo

LEMMA VerifyDiscardSolo ==
    ASSUME IInv, SoloInv, ~disturbed, NEW r \in Requests, VerifyDiscard(r)
    PROVE  SoloInv'
<1>1. /\ req[r] # Idle /\ ~Counting(r) /\ req[r].at = "verDiscard" /\ Answer(r)
      /\ otps' = otps \ RowsOf(req[r].email)
      /\ UNCHANGED <<users, expired, issued, seen>>
  BY DEF VerifyDiscard, Idle, Holding, Counting, DeleteOtps, history
<1>2. /\ NewestStored /\ Tallied /\ Numbered
      /\ req[r].row \in otps /\ req[r].row.email = req[r].email
      /\ Discards(req[r].row)
  BY <1>1 DEF SoloInv, Solo, Stage
<1>3. ASSUME NEW o \in otps, o.email = req[r].email
      PROVE  o.code \in expired \/ ~(seen.wrong[o.code] < MaxAttempts)
  <2>1. o = req[r].row
    BY <1>2, <1>3 DEF IInv, UniqueEmails
  <2>2. o.attempts \in Nat
    BY <1>2, RowsApart DEF OtpRow
  <2>3. ~Owed(o)
    BY <1>1 DEF Owed, Counting, SoloInv, Solo, Alone, Idle, Holding
  <2>4. QED
    BY <1>2, <2>1, <2>2, <2>3, RegistrationAssumption DEF Tallied, Discards
<1>4. \A e : Exists(e) => Exists(e)'
  BY <1>1 DEF Exists
<1>5. NewestStored'
  BY <1>1, <1>2, <1>3, <1>4, NewestKept DEF RowsOf
<1>6. QED
  BY <1>1, <1>5, AnsweredSolo

LEMMA VerifyFindUserSolo ==
    ASSUME IInv, SoloInv, ~disturbed, NEW r \in Requests, VerifyFindUser(r)
    PROVE  SoloInv'
<1>a. PICK label : label = IF Exists(req[r].email) THEN "verDelete" ELSE "verInsertUser"
  OBVIOUS
<1>1. /\ TypeOK /\ label \in Label /\ req[r] # Idle
      /\ req[r].at = "verFindUser" /\ req[r] \in Request
  BY <1>a DEF IInv, Label, VerifyFindUser, Idle, Holding, TypeOK
<1>2. /\ req'[r] = [req[r] EXCEPT !.at = label]
      /\ \A q \in Requests \ {r} : req'[q] = req[q]
  BY <1>1, <1>a, GotoType DEF VerifyFindUser
<1>3. /\ req'[r].at = label /\ req'[r].email = req[r].email
      /\ req'[r].row = req[r].row
  BY <1>1, <1>2 DEF Request
<1>4. /\ Tallied /\ NewestStored /\ Stage(r)
      /\ \A o : Owed(o) <=> (Counting(r) /\ req[r].row.id = o.id)
      /\ \A o : Owed(o)' <=> (Counting(r)' /\ req'[r].row.id = o.id)
  BY <1>1, <1>2, AloneStep
<1>5. ~Counting(r) /\ ~Counting(r)'
  BY <1>a, <1>1, <1>3 DEF Counting
<1>6. UNCHANGED <<otps, issued, seen, expired, users>>
  BY DEF VerifyFindUser, history
<1>7. Tallied'
  BY <1>4, <1>5, <1>6, TalliedFewer
<1>8. NewestStored'
  BY <1>4, <1>6 DEF NewestStored, Newest, Exists
<1>9. Stage(r)'
  BY <1>a, <1>1, <1>3, <1>4, <1>6 DEF Stage, Exists
<1>10. QED
  BY <1>1, <1>2, <1>6, <1>7, <1>8, <1>9, QuietSolo

LEMMA VerifyInsertUserSolo ==
    ASSUME IInv, SoloInv, ~disturbed, NEW r \in Requests, VerifyInsertUser(r)
    PROVE  SoloInv'
<1>1. /\ TypeOK /\ "verDelete" \in Label /\ req[r] # Idle /\ ~Counting(r)
      /\ req[r].at = "verInsertUser" /\ req[r] \in Request
      /\ UNCHANGED <<otps, issued, seen, expired>>
  BY DEF IInv, Label, VerifyInsertUser, Idle, Holding, TypeOK, Counting, history
<1>2. NewestStored
  BY DEF SoloInv, Solo
<1>3. CASE Exists(req[r].email)
  <2>1. Answer(r) /\ UNCHANGED users
    BY <1>3 DEF VerifyInsertUser
  <2>2. NewestStored'
    BY <1>1, <1>2, <2>1 DEF NewestStored, Newest, Exists
  <2>3. QED
    BY <1>1, <2>1, <2>2, AnsweredSolo
<1>4. CASE ~Exists(req[r].email)
  <2>a. PICK u0 : u0 = [email |-> req[r].email, password |-> req[r].row.password,
                        code |-> req[r].row.code, token |-> 0]
    OBVIOUS
  <2>1. users' = users \cup {u0} /\ Goto(r, "verDelete") /\ u0.email = req[r].email
    BY <1>4, <2>a DEF VerifyInsertUser
  <2>2. /\ req'[r] = [req[r] EXCEPT !.at = "verDelete"]
        /\ \A q \in Requests \ {r} : req'[q] = req[q]
    BY <1>1, <2>1, GotoType
  <2>3. /\ req'[r].at = "verDelete" /\ req'[r].email = req[r].email
        /\ req'[r].row = req[r].row
    BY <1>1, <2>2 DEF Request
  <2>4. /\ Tallied /\ Stage(r)
        /\ \A o : Owed(o) <=> (Counting(r) /\ req[r].row.id = o.id)
        /\ \A o : Owed(o)' <=> (Counting(r)' /\ req'[r].row.id = o.id)
    BY <1>1, <2>2, AloneStep
  <2>5. ~Counting(r)'
    BY <2>3 DEF Counting
  <2>6. Tallied'
    BY <1>1, <2>4, <2>5, TalliedFewer
  <2>7. NewestStored'
    <3>1. \A e : Exists(e) => Exists(e)'
      BY <2>1 DEF Exists
    <3>2. QED
      BY <1>1, <1>2, <3>1, NewestKept
  <2>8. Stage(r)'
    BY <1>1, <2>1, <2>3, <2>4 DEF Stage, Exists
  <2>9. QED
    BY <1>1, <2>2, <2>6, <2>7, <2>8, QuietSolo
<1>5. QED
  BY <1>3, <1>4

LEMMA VerifyDeleteSolo ==
    ASSUME IInv, SoloInv, ~disturbed, NEW r \in Requests, VerifyDelete(r)
    PROVE  SoloInv'
<1>1. /\ TypeOK /\ "verRespond" \in Label /\ req[r] # Idle /\ ~Counting(r)
      /\ req[r].at = "verDelete" /\ req[r] \in Request
      /\ otps' = otps \ RowsOf(req[r].email)
      /\ UNCHANGED <<issued, seen, expired, users>>
  BY DEF IInv, Label, VerifyDelete, Idle, Holding, TypeOK, Counting, DeleteOtps, history
<1>2. /\ req'[r] = [req[r] EXCEPT !.at = "verRespond"]
      /\ \A q \in Requests \ {r} : req'[q] = req[q]
  BY <1>1, GotoType DEF VerifyDelete
<1>3. req'[r].at = "verRespond" /\ req'[r].row = req[r].row
  BY <1>1, <1>2 DEF Request
<1>4. /\ Numbered /\ Tallied /\ NewestStored /\ Stage(r)
      /\ \A o : Owed(o) <=> (Counting(r) /\ req[r].row.id = o.id)
      /\ \A o : Owed(o)' <=> (Counting(r)' /\ req'[r].row.id = o.id)
  BY <1>1, <1>2, AloneStep
<1>5. ~Counting(r)'
  BY <1>3 DEF Counting
<1>6. Tallied'
  BY <1>1, <1>4, <1>5, TalliedFewer
<1>7. /\ req[r].row \in otps /\ req[r].row.email = req[r].email
      /\ Exists(req[r].email)
  BY <1>1, <1>4 DEF Stage
<1>8. NewestStored'
  <2>1. \A e : Exists(e) => Exists(e)'
    BY <1>1 DEF Exists
  <2>2. QED
    BY <1>1, <1>4, <1>7, <2>1, NewestKept DEF RowsOf
<1>9. seen.logins[req[r].row.code] = 0
  BY <1>4, <1>7 DEF Tallied
<1>10. \A o \in otps' : o.code # req[r].row.code
  BY <1>1, <1>4, <1>7, RowsApart DEF RowsOf
<1>11. Stage(r)'
  BY <1>1, <1>3, <1>9, <1>10 DEF Stage
<1>12. QED
  BY <1>1, <1>2, <1>6, <1>8, <1>11, QuietSolo

LEMMA VerifyRespondSolo ==
    ASSUME IInv, SoloInv, ~disturbed, NEW r \in Requests, VerifyRespond(r)
    PROVE  SoloInv'
<1>a. PICK c : c = req[r].row.code
  OBVIOUS
<1>1. /\ TypeOK /\ RequestGood(r) /\ req[r] # Idle /\ ~Counting(r) /\ Answer(r)
      /\ req[r].at = "verRespond" /\ seen \in History
      /\ UNCHANGED <<otps, issued, expired, disturbed>>
      /\ Record([seen EXCEPT !.logins[c] = AtMost(@ + 1, 2)])
  BY <1>a DEF IInv, RequestsGood, VerifyRespond, Idle, Holding, TypeOK, Counting
<1>2. /\ req'[r] = Idle
      /\ \A q \in Requests \ {r} : req'[q] = req[q]
  BY <1>1, AnswerType
<1>3. /\ Numbered /\ UnusedUnseen /\ Tallied /\ Spent /\ NewestStored /\ Stage(r)
      /\ Alone'
      /\ \A q \in Requests \ {r} : Stage(q)'
      /\ \A p : Owed(p) <=> (Counting(r) /\ req[r].row.id = p.id)
      /\ \A p : Owed(p)' <=> (Counting(r)' /\ req'[r].row.id = p.id)
  BY <1>1, <1>2, AloneStep
<1>4. Stage(r)' /\ ~Counting(r)'
  BY <1>2, IdleStage
<1>5. c \in Codes /\ c <= Cardinality(issued) /\ Cardinality(issued) \in Nat
  <2>1. GoodRow(req[r].row)
    BY <1>1 DEF RequestGood, HoldsRow
  <2>2. c \in Codes /\ \E i \in issued : i.code = c
    BY <1>a, <2>1 DEF GoodRow, Belongs, OtpRow
  <2>3. QED
    BY <1>3, <2>2, RowsApart DEF Numbered
<1>6. seen.logins[c] = 0 /\ \A o \in otps : o.code # c
  BY <1>a, <1>1, <1>3 DEF Stage
<1>7. /\ seen'.mailed = seen.mailed /\ seen'.wrong = seen.wrong
      /\ seen'.logins[c] = 1
      /\ \A d \in Codes \ {c} : seen'.logins[d] = seen.logins[d]
  BY <1>1, <1>5, <1>6 DEF Record, History, AtMost
<1>8. UnusedUnseen'
  BY <1>1, <1>3, <1>5, <1>7 DEF UnusedUnseen, Unseen, Codes
<1>9. Tallied'
  <2>1. \A o \in otps : o.code \in Codes
    BY <1>1 DEF TypeOK, OtpRow
  <2>2. QED
    BY <1>1, <1>3, <1>4, <1>6, <1>7, <2>1 DEF Tallied
<1>10. Spent' /\ Numbered'
  BY <1>1, <1>3, <1>7 DEF Spent, Numbered
<1>11. \A e : Exists(e) => Exists(e)'
  <2> SUFFICES ASSUME NEW u \in users
               PROVE  \E v \in users' : v.email = u.email
    BY DEF Exists
  <2>1. u \in Account
    BY <1>1 DEF TypeOK
  <2>2. PICK v : v = IF u.email = req[r].email THEN [u EXCEPT !.token = c] ELSE u
    OBVIOUS
  <2>3. v.email = u.email
    BY <2>1, <2>2 DEF Account
  <2>4. v \in users'
    BY <1>a, <2>2 DEF VerifyRespond
  <2>5. QED
    BY <2>3, <2>4
<1>12. NewestStored'
  BY <1>1, <1>3, <1>7, <1>11 DEF NewestStored, Newest
<1>13. \A q \in Requests : Stage(q)'
  BY <1>3, <1>4
<1>14. QED
  BY <1>3, <1>8, <1>9, <1>10, <1>12, <1>13 DEF SoloInv, Solo

LEMMA SaveSelectSolo ==
    ASSUME IInv, SoloInv, ~disturbed, NEW r \in Requests, SaveSelect(r)
    PROVE  SoloInv'
<1>1. /\ TypeOK /\ req[r] # Idle /\ req[r].at = "save" /\ req[r] \in Request
      /\ UNCHANGED <<otps, issued, seen, expired, users>>
  BY DEF IInv, SaveSelect, Idle, Holding, TypeOK, history
<1>2. Numbered /\ Saving(r)
  BY <1>1 DEF SoloInv, Solo, Stage
<1>b. PICK o \in otps : /\ o.id = req[r].row.id
                        /\ req[r].op = "verify" => /\ o.code = req[r].row.code
                                                   /\ o.attempts + 1 = req[r].row.attempts
  BY <1>2 DEF Saving
<1>a. PICK cols : cols = DirtyColumns(req[r].row, o)
  OBVIOUS
<1>3. req' = [req EXCEPT ![r].at = "saveWrite", ![r].dirty = cols]
  <2>1. PICK p \in otps :
           /\ p.id = req[r].row.id
           /\ req' = [req EXCEPT ![r].at = "saveWrite",
                                 ![r].dirty = DirtyColumns(req[r].row, p)]
    BY <1>b DEF SaveSelect
  <2>2. p = o
    BY <1>2, <1>b, <2>1, RowsApart
  <2>3. QED
    BY <1>a, <2>1, <2>2
<1>4. /\ req'[r].at = "saveWrite" /\ req'[r].dirty = cols
      /\ req'[r].op = req[r].op /\ req'[r].row = req[r].row
      /\ req'[r].code = req[r].code /\ req'[r].email = req[r].email
      /\ \A q \in Requests \ {r} : req'[q] = req[q]
  <2>1. req' = [req EXCEPT ![r] = [req[r] EXCEPT !.at = "saveWrite", !.dirty = cols]]
    BY <1>3
  <2>2. QED
    BY <1>1, <2>1 DEF TypeOK, Request
<1>5. /\ Tallied /\ NewestStored
      /\ \A p : Owed(p) <=> (Counting(r) /\ req[r].row.id = p.id)
      /\ \A p : Owed(p)' <=> (Counting(r)' /\ req'[r].row.id = p.id)
  BY <1>1, <1>4, AloneStep
<1>6. Counting(r)' <=> Counting(r)
  BY <1>1, <1>4 DEF Counting
<1>7. Tallied'
  BY <1>1, <1>4, <1>5, <1>6, TalliedFewer
<1>8. NewestStored'
  BY <1>1, <1>5 DEF NewestStored, Newest, Exists
<1>9. Saving(r)'
  <2>1. Unstored(r) => Unstored(r)'
    BY <1>1, <1>4 DEF Unstored, Unseen, Newest
  <2>2. DirtyColumns(req[r].row, o) = cols /\ o \in otps'
    BY <1>a, <1>1
  <2>3. \E p \in otps' :
          /\ p.id = req'[r].row.id
          /\ req'[r].op = "verify" => /\ p.code = req'[r].row.code
                                      /\ p.attempts + 1 = req'[r].row.attempts
          /\ req'[r].at = "saveWrite" => req'[r].dirty = DirtyColumns(req'[r].row, p)
    BY <1>b, <1>4, <2>2
  <2>4. QED
    BY <1>2, <1>4, <2>1, <2>3 DEF Saving
<1>10. Stage(r)'
  BY <1>4, <1>9 DEF Stage
<1>11. QED
  BY <1>1, <1>4, <1>7, <1>8, <1>10, QuietSolo

\* Alone, a request finds the row its entity was read from.
LEMMA SaveInsertSolo ==
    ASSUME SoloInv, ~disturbed, NEW r \in Requests, SaveInsert(r)
    PROVE  FALSE
  BY DEF SoloInv, Solo, Stage, SaveInsert

LEMMA SaveWriteSolo ==
    ASSUME IInv, SoloInv, ~disturbed, NEW r \in Requests, SaveWrite(r)
    PROVE  SoloInv'
<1>a. PICK entity : entity = req[r].row
  OBVIOUS
<1>1. /\ TypeOK /\ RequestGood(r) /\ req[r] # Idle /\ req[r].at = "saveWrite"
      /\ req[r] \in Request
      /\ UNCHANGED <<issued, seen, expired, users, disturbed>>
  BY DEF IInv, RequestsGood, SaveWrite, Idle, Holding, TypeOK, history
<1>2. Numbered /\ Saving(r)
  BY <1>1 DEF SoloInv, Solo, Stage
<1>b. PICK o \in otps : /\ o.id = entity.id
                        /\ req[r].op = "verify" => /\ o.code = entity.code
                                                   /\ o.attempts + 1 = entity.attempts
                        /\ req[r].dirty = DirtyColumns(entity, o)
  BY <1>a, <1>1, <1>2 DEF Saving
<1>3. entity \in OtpRow /\ entity.attempts <= MaxAttempts /\ entity.email = o.email
  <2>1. GoodRow(entity) /\ GoodRow(o)
    BY <1>a, <1>1 DEF RequestGood, HoldsRow, IInv, RowsGood
  <2>2. entity.email = o.email
    BY <1>b, <2>1 DEF GoodRow, Belongs, IInv, IssuedOnce
  <2>3. QED
    BY <2>1, <2>2 DEF GoodRow
<1>4. o \in OtpRow
  BY <1>1 DEF TypeOK
<1>c. PICK w : w = Overwrite(o, entity, req[r].dirty)
  OBVIOUS
<1>5. /\ w.id = o.id /\ w.email = o.email
      /\ w.code = entity.code /\ w.attempts = entity.attempts
  <2>1. /\ w.id = o.id /\ w.email = o.email
        /\ w.code = IF "code" \in req[r].dirty THEN entity.code ELSE o.code
        /\ w.attempts = IF "attempts" \in req[r].dirty THEN entity.attempts ELSE o.attempts
    BY <1>c, <1>3, <1>4 DEF Overwrite, OtpRow
  <2>2. /\ "code" \in req[r].dirty <=> entity.code # o.code
        /\ "attempts" \in req[r].dirty <=> entity.attempts # o.attempts
    <3>1. req[r].dirty = {col \in {"code", "attempts"} : entity[col] # o[col]}
      BY <1>b DEF DirtyColumns
    <3>2. QED
      BY <3>1
  <2>3. QED
    BY <2>1, <2>2
<1>6. \A p \in otps' : p = w \/ (p \in otps /\ p.id # o.id)
  <2>1. otps' = {IF p.id = entity.id THEN Overwrite(p, entity, req[r].dirty)
                 ELSE p : p \in otps}
    BY <1>a DEF SaveWrite
  <2>2. \A p \in otps : p.id = entity.id => p = o
    BY <1>2, <1>b, RowsApart
  <2>3. QED
    BY <1>b, <1>c, <2>1, <2>2
<1>7. w \in otps' /\ \A p \in otps : p.id # o.id => p \in otps'
  <2>1. otps' = {IF p.id = entity.id THEN Overwrite(p, entity, req[r].dirty)
                 ELSE p : p \in otps}
    BY <1>a DEF SaveWrite
  <2>2. QED
    BY <1>b, <1>c, <2>1
<1>8. req' = [req EXCEPT ![r] = AfterSave(r)]
  BY DEF SaveWrite
<1>9. \A q \in Requests \ {r} : req'[q] = req[q]
  BY <1>1, <1>8 DEF TypeOK
<1>10. /\ Tallied /\ NewestStored
       /\ \A p : Owed(p) <=> (Counting(r) /\ req[r].row.id = p.id)
       /\ \A p : Owed(p)' <=> (Counting(r)' /\ req'[r].row.id = p.id)
  BY <1>1, <1>9, AloneStep
<1>11. \A p \in otps : p.id # o.id => p.code # o.code
  BY <1>2, RowsApart
<1>12. CASE req[r].op = "verify"
  <2>1. req'[r] = Idle
    BY <1>1, <1>8, <1>12 DEF AfterSave, TypeOK
  <2>2. Stage(r)' /\ ~Counting(r)'
    BY <2>1, IdleStage
  <2>3. w.code = o.code /\ w.attempts = o.attempts + 1
    BY <1>b, <1>5, <1>12
  <2>4. Counting(r)
    BY <1>1, <1>12 DEF Counting
  <2>5. Tallied'
    <3> SUFFICES ASSUME NEW p \in otps'
                 PROVE  /\ seen.logins[p.code] = 0
                        /\ seen.wrong[p.code] = p.attempts
      BY <1>1, <1>10, <2>2 DEF Tallied
    <3>1. CASE p = w
      BY <1>a, <1>b, <1>10, <2>3, <2>4, <3>1 DEF Tallied
    <3>2. CASE p \in otps /\ p.id # o.id
      BY <1>a, <1>b, <1>10, <3>2 DEF Tallied
    <3>3. QED
      BY <1>6, <3>1, <3>2
  <2>6. NewestStored'
    <3>1. \A e : Exists(e) => Exists(e)'
      BY <1>1 DEF Exists
    <3>2. \A p \in otps : \E q \in otps' : q.email = p.email /\ q.code = p.code
      <4> SUFFICES ASSUME NEW p \in otps
                   PROVE  \E q \in otps' : q.email = p.email /\ q.code = p.code
        OBVIOUS
      <4>1. CASE p.id = o.id
        <5>1. p = o
          BY <1>2, <4>1, RowsApart
        <5>2. QED
          BY <1>5, <1>7, <2>3, <5>1
      <4>2. CASE p.id # o.id
        BY <1>7, <4>2
      <4>3. QED
        BY <4>1, <4>2
    <3>3. QED
      BY <1>1, <1>10, <3>1, <3>2, NewestKept
  <2>7. QED
    BY <1>1, <1>9, <2>2, <2>5, <2>6, QuietSolo
<1>13. CASE req[r].op = "resend"
  <2>1. /\ req'[r].at = "resQueue" /\ req'[r].op = "resend"
        /\ req'[r].code = req[r].code /\ req'[r].email = req[r].email
    <3>1. req'[r] = [req[r] EXCEPT !.at = "resQueue", !.dirty = {}]
      BY <1>1, <1>8, <1>13 DEF AfterSave, TypeOK
    <3>2. QED
      BY <1>1, <1>13, <3>1 DEF Request
  <2>2. ~Counting(r) /\ ~Counting(r)'
    BY <1>13, <2>1 DEF Counting
  <2>3. /\ Unstored(r) /\ w.code = req[r].code /\ w.attempts = 0
        /\ w.email = req[r].email
    BY <1>a, <1>2, <1>3, <1>5, <1>13 DEF Saving
  <2>4. Tallied'
    <3> SUFFICES ASSUME NEW p \in otps'
                 PROVE  /\ seen.logins[p.code] = 0
                        /\ seen.wrong[p.code] = p.attempts
      BY <1>1, <1>10, <2>2 DEF Tallied
    <3>1. CASE p = w
      BY <2>3, <3>1 DEF Unstored, Unseen
    <3>2. CASE p \in otps /\ p.id # o.id
      BY <1>10, <2>2, <3>2 DEF Tallied
    <3>3. QED
      BY <1>6, <3>1, <3>2
  <2>5. NewestStored'
    <3>1. \A e : Exists(e) => Exists(e)'
      BY <1>1 DEF Exists
    <3>2. ~Newest(o.code, o.email)
      <4>1. PICK i \in issued : i.code = req[r].code /\ i.email = req[r].email
        <5>1. GoodRow(entity)
          BY <1>a, <1>1 DEF RequestGood, HoldsRow
        <5>2. QED
          BY <1>5, <1>3, <2>3, <5>1 DEF GoodRow, Belongs
      <4>2. PICK j \in issued : j.code = o.code /\ j.email = o.email
        BY DEF IInv, RowsGood, GoodRow, Belongs
      <4>3. o.code \in Codes /\ i.code \in Codes /\ o.code # i.code
        BY <1>1, <1>4, <2>3, <4>1 DEF TypeOK, OtpRow, Unstored
      <4>4. o.code <= i.code
        BY <1>5, <2>3, <4>1, <4>2 DEF Unstored, Newest
      <4>5. QED
        BY <1>5, <2>3, <4>1, <4>3, <4>4 DEF Newest, Codes
    <3>3. \A p \in otps : p = o \/ p \in otps'
      BY <1>2, <1>7, RowsApart
    <3>4. QED
      BY <1>1, <1>10, <3>1, <3>2, <3>3, NewestKept
  <2>6. Stored(r)'
    BY <1>1, <1>7, <2>1, <2>3 DEF Stored, Unstored, Unseen, Newest
  <2>7. Stage(r)'
    BY <2>1, <2>6 DEF Stage
  <2>8. QED
    BY <1>1, <1>9, <2>4, <2>5, <2>7, QuietSolo
<1>14. QED
  BY <1>2, <1>12, <1>13 DEF Saving

LEMMA ExpireSolo ==
    ASSUME SoloInv, ~disturbed, NEW c \in Codes, Expire(c)
    PROVE  SoloInv'
<1>1. Solo /\ Numbered /\ expired' = expired \cup {c}
      /\ UNCHANGED <<otps, users, req, issued, disturbed, seen>>
  BY DEF SoloInv, Expire, history
<1>2. Alone' /\ UnusedUnseen' /\ Spent' /\ Numbered'
  BY <1>1 DEF Solo, Alone, UnusedUnseen, Unseen, Spent, Numbered
<1>3. Tallied'
  BY <1>1 DEF Solo, Tallied, Owed, Counting
<1>4. NewestStored'
  BY <1>1 DEF Solo, NewestStored, Newest, Exists
<1>5. ASSUME NEW r \in Requests
      PROVE  Stage(r)'
  <2>1. Stage(r) /\ UNCHANGED req
    BY <1>1 DEF Solo
  <2>2. (Unstored(r) => Unstored(r)') /\ (Stored(r) => Stored(r)')
    BY <1>1 DEF Unstored, Stored, Unseen, Newest
  <2>3. Saving(r) => Saving(r)'
    BY <1>1, <2>2 DEF Saving
  <2>4. Discards(req[r].row) => Discards(req[r].row)'
    BY <1>1 DEF Discards
  <2>5. Exists(req[r].email) => Exists(req[r].email)'
    BY <1>1 DEF Exists
  <2>6. QED
    BY <1>1, <2>1, <2>2, <2>3, <2>4, <2>5 DEF Stage, RowsOf
<1>6. QED
  BY <1>2, <1>3, <1>4, <1>5 DEF SoloInv, Solo

LEMMA AccountMadeElsewhereSolo ==
    ASSUME SoloInv, ~disturbed, NEW e \in Emails, AccountMadeElsewhere(e)
    PROVE  SoloInv'
<1>1. Solo /\ Numbered /\ users \subseteq users'
      /\ UNCHANGED <<otps, expired, req, issued, disturbed, seen>>
  BY DEF SoloInv, AccountMadeElsewhere, history
<1>2. Alone' /\ UnusedUnseen' /\ Spent' /\ Numbered'
  BY <1>1 DEF Solo, Alone, UnusedUnseen, Unseen, Spent, Numbered
<1>3. Tallied'
  BY <1>1 DEF Solo, Tallied, Owed, Counting
<1>4. NewestStored'
  BY <1>1 DEF Solo, NewestStored, Newest, Exists
<1>5. ASSUME NEW r \in Requests
      PROVE  Stage(r)'
  <2>1. Stage(r) /\ UNCHANGED req
    BY <1>1 DEF Solo
  <2>2. (Unstored(r) => Unstored(r)') /\ (Stored(r) => Stored(r)')
    BY <1>1 DEF Unstored, Stored, Unseen, Newest
  <2>3. Saving(r) => Saving(r)'
    BY <1>1, <2>2 DEF Saving
  <2>4. Discards(req[r].row) => Discards(req[r].row)'
    BY <1>1 DEF Discards
  <2>5. Exists(req[r].email) => Exists(req[r].email)'
    BY <1>1 DEF Exists
  <2>6. QED
    BY <1>1, <2>1, <2>2, <2>3, <2>4, <2>5 DEF Stage, RowsOf
<1>6. QED
  BY <1>2, <1>3, <1>4, <1>5 DEF SoloInv, Solo

\* The next code is above every code issued, and the numbering goes on.
LEMMA NumberedIssue ==
    ASSUME IInv, Numbered, NEW id, NEW e, NEW pw, Issue(FreshCode, id, e, pw)
    PROVE  /\ Numbered'
           /\ Cardinality(issued) \in Nat
           /\ Cardinality(issued') = FreshCode
           /\ \A i \in issued : i.code <= Cardinality(issued)
           /\ issued' = issued \cup {[code |-> FreshCode, id |-> id, email |-> e, password |-> pw]}
<1>a. PICK i0 : i0 = [code |-> FreshCode, id |-> id, email |-> e, password |-> pw]
  OBVIOUS
<1>1. issued' = issued \cup {i0} /\ i0.code = FreshCode
  BY <1>a DEF Issue
<1>2. IsFiniteSet(issued) /\ Cardinality(issued) \in Nat
  BY FS_CardinalityType DEF IInv, IssuedOnce
<1>3. FreshCode = Cardinality(issued) + 1
  BY DEF FreshCode
<1>4. \A i \in issued : i.code \in Nat /\ i.code <= Cardinality(issued)
  BY DEF Numbered, IInv, TypeOK, Codes
<1>5. i0 \notin issued
  BY <1>1, <1>2, <1>3, <1>4
<1>6. Cardinality(issued') = Cardinality(issued) + 1
  BY <1>1, <1>2, <1>5, FS_AddElement
<1>7. \A i \in issued' : i.code <= Cardinality(issued')
  BY <1>1, <1>2, <1>3, <1>4, <1>6
<1>8. \A i, j \in issued' : i.code = j.code => i = j
  BY <1>1, <1>2, <1>3, <1>4 DEF Numbered
<1>9. QED
  BY <1>a, <1>1, <1>2, <1>3, <1>4, <1>6, <1>7, <1>8 DEF Numbered

LEMMA RegisterFindUserSolo ==
    ASSUME IInv, SoloInv, NEW r \in Requests, NEW e \in Emails, NEW pw \in Passwords,
           RegisterFindUser(r, e, pw), ~disturbed'
    PROVE  SoloInv'
<1>0. PICK c : c = FreshCode
  OBVIOUS
<1>a. PICK request : request = Holding("regDelete", "register", e, pw, c, None)
  OBVIOUS
<1>1. /\ c \in Codes /\ Issue(FreshCode, c, e, pw) /\ Arrive(r, request, seen)
      /\ UNCHANGED <<otps, users, expired, crashes>>
  BY <1>0, <1>a DEF RegisterFindUser, Issue
<1>2. request \in Request
  <2>1. c \in CodeOrNone /\ "regDelete" \in Label
    BY <1>1, RegistrationAssumption DEF CodeOrNone, Codes, Label
  <2>2. QED
    BY <2>1, <1>a DEF Request, Holding
<1>3. /\ Numbered /\ UnusedUnseen /\ Tallied /\ Spent /\ NewestStored
      /\ seen' = seen
      /\ Alone'
      /\ req'[r] = request
      /\ \A q \in Requests \ {r} : Stage(q)'
      /\ \A o : ~Owed(o)
      /\ \A o : Owed(o)' <=> (Counting(r)' /\ req'[r].row.id = o.id)
  BY <1>1, <1>2, AloneArrives
<1>4. /\ req'[r].at = "regDelete" /\ req'[r].code = c /\ req'[r].email = e
  BY <1>a, <1>3 DEF Holding
<1>b. PICK i0 : i0 = [code |-> c, id |-> c, email |-> e, password |-> pw]
  OBVIOUS
<1>5. /\ Numbered'
      /\ Cardinality(issued) \in Nat /\ c = Cardinality(issued) + 1
      /\ Cardinality(issued') = c
      /\ \A i \in issued : i.code <= Cardinality(issued)
      /\ issued' = issued \cup {i0} /\ i0.code = c
  BY <1>0, <1>b, <1>1, <1>3, NumberedIssue DEF FreshCode
<1>6. UnusedUnseen' /\ Unseen(c)'
  BY <1>1, <1>3, <1>5 DEF UnusedUnseen, Unseen, Codes
<1>7. Tallied' /\ Spent'
  BY <1>1, <1>3, <1>4 DEF Tallied, Spent, Counting
<1>8. NewestStored'
  <2> SUFFICES ASSUME NEW i \in issued', i.code \in seen.mailed,
                      Newest(i.code, i.email)', i.code \notin expired,
                      seen.wrong[i.code] < MaxAttempts, ~Exists(i.email)
               PROVE  \E o \in otps : o.email = i.email /\ o.code = i.code
    BY <1>1, <1>3 DEF NewestStored, Newest, Exists
  <2>1. i \in issued
    BY <1>3, <1>5, <1>6 DEF Unseen
  <2>2. Newest(i.code, i.email)
    BY <1>5 DEF Newest
  <2>3. QED
    BY <1>3, <2>1, <2>2 DEF NewestStored
<1>9. Stage(r)'
  <2>1. Newest(c, e)'
    BY <1>5 DEF Newest, IInv, TypeOK, Codes
  <2>2. \A o \in otps : o.code # c
    BY <1>3, <1>5, RowsApart DEF OtpRow, Codes
  <2>3. Unstored(r)'
    BY <1>1, <1>4, <1>6, <2>1, <2>2 DEF Unstored
  <2>4. QED
    BY <1>4, <2>3 DEF Stage
<1>10. \A q \in Requests : Stage(q)'
  BY <1>3, <1>9
<1>11. QED
  BY <1>3, <1>5, <1>6, <1>7, <1>8, <1>10 DEF SoloInv, Solo

LEMMA ResendFindSolo ==
    ASSUME IInv, SoloInv, NEW r \in Requests, ResendFind(r), ~disturbed'
    PROVE  SoloInv'
<1>0. PICK c : c = FreshCode
  OBVIOUS
<1>p. PICK o \in otps :
         /\ Issue(c, o.id, o.email, o.password)
         /\ Arrive(r, Holding("save", "resend", o.email, None, c,
                              [o EXCEPT !.code = c, !.attempts = 0]), seen)
         /\ UNCHANGED <<otps, users, expired, crashes>>
  BY <1>0 DEF ResendFind
<1>q. PICK row : row = [o EXCEPT !.code = c, !.attempts = 0]
  OBVIOUS
<1>a. PICK request : request = Holding("save", "resend", o.email, None, c, row)
  OBVIOUS
<1>1. /\ c \in Codes /\ Issue(FreshCode, o.id, o.email, o.password)
      /\ Arrive(r, request, seen)
      /\ UNCHANGED <<otps, users, expired, crashes>>
  BY <1>0, <1>a, <1>p, <1>q DEF Issue
<1>c. /\ o \in OtpRow /\ row \in OtpRow
      /\ row.id = o.id /\ row.email = o.email /\ row.code = c /\ row.attempts = 0
  BY <1>q, <1>1 DEF IInv, TypeOK, OtpRow
<1>2. request \in Request
  BY <1>a, <1>c, <1>1, RegistrationAssumption
     DEF Holding, Request, Label, CodeOrNone, Codes, OtpRow
<1>3. /\ Numbered /\ UnusedUnseen /\ Tallied /\ Spent /\ NewestStored
      /\ seen' = seen
      /\ Alone'
      /\ req'[r] = request
      /\ \A q \in Requests \ {r} : Stage(q)'
      /\ \A p : ~Owed(p)
      /\ \A p : Owed(p)' <=> (Counting(r)' /\ req'[r].row.id = p.id)
  BY <1>1, <1>2, AloneArrives
<1>4. /\ req'[r].at = "save" /\ req'[r].op = "resend" /\ req'[r].code = c
      /\ req'[r].email = o.email /\ req'[r].row = row
  BY <1>a, <1>3 DEF Holding
<1>b. PICK i0 : i0 = [code |-> c, id |-> o.id, email |-> o.email, password |-> o.password]
  OBVIOUS
<1>5. /\ Numbered'
      /\ Cardinality(issued) \in Nat /\ c = Cardinality(issued) + 1
      /\ Cardinality(issued') = c
      /\ \A i \in issued : i.code <= Cardinality(issued)
      /\ issued' = issued \cup {i0} /\ i0.code = c
  BY <1>0, <1>b, <1>1, <1>3, NumberedIssue DEF FreshCode
<1>6. UnusedUnseen' /\ Unseen(c)'
  BY <1>1, <1>3, <1>5 DEF UnusedUnseen, Unseen, Codes
<1>7. Tallied' /\ Spent'
  BY <1>1, <1>3, <1>4 DEF Tallied, Spent, Counting
<1>8. NewestStored'
  <2> SUFFICES ASSUME NEW i \in issued', i.code \in seen.mailed,
                      Newest(i.code, i.email)', i.code \notin expired,
                      seen.wrong[i.code] < MaxAttempts, ~Exists(i.email)
               PROVE  \E p \in otps : p.email = i.email /\ p.code = i.code
    BY <1>1, <1>3 DEF NewestStored, Newest, Exists
  <2>1. i \in issued
    BY <1>3, <1>5, <1>6 DEF Unseen
  <2>2. Newest(i.code, i.email)
    BY <1>5 DEF Newest
  <2>3. QED
    BY <1>3, <2>1, <2>2 DEF NewestStored
<1>9. Stage(r)'
  <2>1. Newest(c, o.email)'
    BY <1>5 DEF Newest, IInv, TypeOK, Codes
  <2>2. \A p \in otps : p.code # c
    BY <1>3, <1>5, RowsApart DEF OtpRow, Codes
  <2>3. Unstored(r)'
    BY <1>1, <1>4, <1>6, <2>1, <2>2 DEF Unstored
  <2>4. Saving(r)'
    BY <1>1, <1>4, <1>c, <2>3 DEF Saving
  <2>5. QED
    BY <1>4, <2>4 DEF Stage
<1>10. \A q \in Requests : Stage(q)'
  BY <1>3, <1>9
<1>11. QED
  BY <1>3, <1>5, <1>6, <1>7, <1>8, <1>10 DEF SoloInv, Solo

\* A verification that reads the row and is told nothing.
LEMMA ReadSolo ==
    ASSUME IInv, SoloInv, NEW r \in Requests, NEW o \in otps, NEW label,
           label \in {"verDiscard", "verFindUser"}, label = "verDiscard" => Discards(o),
           Arrive(r, VerifyRequest(label, o), seen), ~disturbed',
           UNCHANGED <<otps, users, expired, issued>>
    PROVE  SoloInv'
<1>a. PICK request : request = VerifyRequest(label, o)
  OBVIOUS
<1>1. Arrive(r, request, seen)
  BY <1>a
<1>2. request \in Request
  BY <1>a, RegistrationAssumption
     DEF VerifyRequest, Holding, Request, Label, CodeOrNone, Codes, OtpRow, IInv, TypeOK
<1>3. /\ Numbered /\ UnusedUnseen /\ Tallied /\ Spent /\ NewestStored
      /\ seen' = seen
      /\ Alone'
      /\ req'[r] = request
      /\ \A q \in Requests \ {r} : Stage(q)'
      /\ \A p : ~Owed(p)
      /\ \A p : Owed(p)' <=> (Counting(r)' /\ req'[r].row.id = p.id)
  BY <1>1, <1>2, AloneArrives
<1>4. req'[r].at = label /\ req'[r].row = o /\ req'[r].email = o.email
  BY <1>a, <1>3 DEF VerifyRequest, Holding
<1>5. UnusedUnseen' /\ Tallied' /\ Spent' /\ NewestStored' /\ Numbered'
  BY <1>3, <1>4 DEF UnusedUnseen, Unseen, Tallied, Spent, Counting, NewestStored,
     Newest, Exists, Numbered
<1>6. Stage(r)'
  BY <1>4 DEF Stage, Discards
<1>7. \A q \in Requests : Stage(q)'
  BY <1>3, <1>6
<1>8. QED
  BY <1>3, <1>5, <1>7 DEF SoloInv, Solo

LEMMA VerifyFindWrongSolo ==
    ASSUME IInv, SoloInv, NEW r \in Requests, VerifyFindWrong(r), ~disturbed'
    PROVE  SoloInv'
<1>p. PICK o \in otps :
         /\ ~Discards(o)
         /\ Arrive(r, VerifyRequest("save", [o EXCEPT !.attempts = @ + 1]),
                   [seen EXCEPT !.wrong[o.code] = AtMost(@ + 1, MaxAttempts + 1)])
         /\ UNCHANGED <<otps, users, expired, crashes, issued>>
  BY DEF VerifyFindWrong
<1>q. PICK row : row = [o EXCEPT !.attempts = @ + 1]
  OBVIOUS
<1>a. PICK request : request = VerifyRequest("save", row)
  OBVIOUS
<1>h. PICK h : h = [seen EXCEPT !.wrong[o.code] = AtMost(@ + 1, MaxAttempts + 1)]
  OBVIOUS
<1>1. Arrive(r, request, h) /\ UNCHANGED <<otps, users, expired, crashes, issued>>
  BY <1>a, <1>p, <1>q, <1>h
<1>c. /\ o \in OtpRow /\ row \in OtpRow
      /\ row.id = o.id /\ row.email = o.email /\ row.code = o.code
      /\ row.attempts = o.attempts + 1
  BY <1>q DEF IInv, TypeOK, OtpRow
<1>2. request \in Request
  BY <1>a, <1>c, RegistrationAssumption
     DEF VerifyRequest, Holding, Request, Label, CodeOrNone, Codes, OtpRow
<1>3. /\ Numbered /\ UnusedUnseen /\ Tallied /\ Spent /\ NewestStored
      /\ seen' = h
      /\ Alone'
      /\ req'[r] = request
      /\ \A q \in Requests \ {r} : Stage(q)'
      /\ \A p : ~Owed(p)
      /\ \A p : Owed(p)' <=> (Counting(r)' /\ req'[r].row.id = p.id)
  BY <1>1, <1>2, AloneArrives
<1>4. /\ req'[r].at = "save" /\ req'[r].op = "verify" /\ req'[r].row = row
  BY <1>a, <1>3 DEF VerifyRequest, Holding
<1>5. /\ o.code \in Codes /\ o.attempts \in Nat /\ o.attempts < MaxAttempts
      /\ o.code <= Cardinality(issued) /\ Cardinality(issued) \in Nat
  BY <1>p, <1>c, <1>3, RowsApart, RegistrationAssumption DEF OtpRow, Discards
<1>6. seen.wrong[o.code] = o.attempts
  BY <1>3 DEF Tallied
<1>7. /\ h.mailed = seen.mailed /\ h.logins = seen.logins
      /\ h.wrong[o.code] = o.attempts + 1
      /\ \A d \in Codes \ {o.code} : h.wrong[d] = seen.wrong[d]
  BY <1>h, <1>5, <1>6, RegistrationAssumption DEF AtMost, IInv, TypeOK, History
<1>8. UnusedUnseen'
  BY <1>1, <1>3, <1>5, <1>7 DEF UnusedUnseen, Unseen, Codes
<1>9. Tallied'
  <2> SUFFICES ASSUME NEW p \in otps
               PROVE  /\ h.logins[p.code] = 0
                      /\ h.wrong[p.code] = IF p.id = o.id THEN p.attempts + 1
                                           ELSE p.attempts
    BY <1>1, <1>3, <1>4, <1>c DEF Tallied, Counting
  <2>1. p.code \in Codes /\ seen.logins[p.code] = 0 /\ seen.wrong[p.code] = p.attempts
    BY <1>3 DEF Tallied, IInv, TypeOK, OtpRow
  <2>2. CASE p = o
    BY <1>7, <2>1, <2>2
  <2>3. CASE p # o
    <3>1. p.id # o.id /\ p.code # o.code
      BY <1>3, <2>3, RowsApart
    <3>2. QED
      BY <1>7, <2>1, <3>1
  <2>4. QED
    BY <2>2, <2>3
<1>10. Spent' /\ Numbered'
  BY <1>1, <1>3, <1>5, <1>7, RegistrationAssumption DEF Spent, Numbered
<1>11. NewestStored'
  <2>1. \A i \in issued : h.wrong[i.code] < MaxAttempts => seen.wrong[i.code] < MaxAttempts
    BY <1>5, <1>6, <1>7, RegistrationAssumption DEF IInv, TypeOK
  <2>2. QED
    BY <1>1, <1>3, <1>7, <2>1 DEF NewestStored, Newest, Exists
<1>12. Stage(r)'
  <2>1. Saving(r)'
    BY <1>1, <1>4, <1>c DEF Saving
  <2>2. QED
    BY <1>4, <2>1 DEF Stage
<1>13. \A q \in Requests : Stage(q)'
  BY <1>3, <1>12
<1>14. QED
  BY <1>3, <1>8, <1>9, <1>10, <1>11, <1>13 DEF SoloInv, Solo

\* The codes are numbered on, whether requests overlap or not.
LEMMA NumberedKeeps ==
    ASSUME IInv, Numbered, [Next]_vars
    PROVE  Numbered'
<1>1. ASSUME NEW r \in Requests, NEW e \in Emails, NEW pw \in Passwords,
             RegisterFindUser(r, e, pw)
      PROVE  Numbered'
  BY <1>1, NumberedIssue DEF RegisterFindUser
<1>2. ASSUME NEW r \in Requests, ResendFind(r)
      PROVE  Numbered'
  BY <1>2, NumberedIssue DEF ResendFind
<1>3. ASSUME NEW r \in Requests, Step(r)
      PROVE  UNCHANGED issued
  BY <1>3 DEF Step, RegisterDelete, RegisterInsert, RegisterQueue, RegisterQueueFails,
     RegisterCleanup, SaveSelect, SaveWrite, SaveInsert, VerifyDiscard, VerifyFindUser,
     VerifyInsertUser, VerifyDelete, VerifyRespond, ResendQueue, ResendQueueFails, history
<1>4. ASSUME NEW r \in Requests,
             VerifyFindDead(r) \/ VerifyFindWrong(r) \/ VerifyFindRight(r)
      PROVE  UNCHANGED issued
  BY <1>4 DEF VerifyFindDead, VerifyFindWrong, VerifyFindRight
<1>5. ASSUME \/ \E c \in Codes : Expire(c)
             \/ \E e \in Emails : AccountMadeElsewhere(e)
             \/ Crash
             \/ UNCHANGED vars
      PROVE  UNCHANGED issued
  BY <1>5 DEF Expire, AccountMadeElsewhere, Crash, vars, history
<1>6. UNCHANGED issued => Numbered'
  BY DEF Numbered
<1>7. QED
  BY <1>1, <1>2, <1>3, <1>4, <1>5, <1>6 DEF Next

\* Requests that have not overlapped had not overlapped a step before.
LEMMA DisturbedStays ==
    ASSUME [Next]_vars, ~disturbed'
    PROVE  ~disturbed
<1>1. ASSUME NEW r \in Requests, Step(r)
      PROVE  UNCHANGED disturbed
  BY <1>1 DEF Step, RegisterDelete, RegisterInsert, RegisterQueue, RegisterQueueFails,
     RegisterCleanup, SaveSelect, SaveWrite, SaveInsert, VerifyDiscard, VerifyFindUser,
     VerifyInsertUser, VerifyDelete, VerifyRespond, ResendQueue, ResendQueueFails, history
<1>2. ASSUME NEW r \in Requests, NEW request, NEW h, Arrive(r, request, h)
      PROVE  ~disturbed
  BY <1>2 DEF Arrive
<1>3. ASSUME NEW r \in Requests,
             \/ \E e \in Emails, pw \in Passwords : RegisterFindUser(r, e, pw)
             \/ VerifyFindDead(r) \/ VerifyFindWrong(r) \/ VerifyFindRight(r)
             \/ ResendFind(r)
      PROVE  ~disturbed
  BY <1>2, <1>3 DEF RegisterFindUser, VerifyFindDead, VerifyFindWrong, VerifyFindRight,
     ResendFind
<1>4. ASSUME \/ \E c \in Codes : Expire(c)
             \/ \E e \in Emails : AccountMadeElsewhere(e)
             \/ Crash
             \/ UNCHANGED vars
      PROVE  ~disturbed
  BY <1>4 DEF Expire, AccountMadeElsewhere, Crash, vars, history
<1>5. QED
  BY <1>1, <1>3, <1>4 DEF Next

LEMMA SoloKeeps ==
    ASSUME IInv, SoloInv, [Next]_vars
    PROVE  SoloInv'
<1>1. CASE disturbed'
  BY <1>1, NumberedKeeps DEF SoloInv
<1>2. CASE ~disturbed'
  <2>1. ~disturbed
    BY <1>2, DisturbedStays
  <2>2. ASSUME NEW r \in Requests, Step(r) PROVE SoloInv'
    BY <2>1, <2>2, RegisterDeleteSolo, RegisterInsertSolo, RegisterQueueSolo,
       RegisterQueueFailsSolo, RegisterCleanupSolo, SaveSelectSolo,
       SaveWriteSolo, SaveInsertSolo, VerifyDiscardSolo, VerifyFindUserSolo,
       VerifyInsertUserSolo, VerifyDeleteSolo, VerifyRespondSolo,
       ResendQueueSolo, ResendQueueFailsSolo DEF Step
  <2>3. ASSUME NEW r \in Requests, VerifyFindDead(r) PROVE SoloInv'
    BY <1>2, <2>3, ReadSolo DEF VerifyFindDead
  <2>4. ASSUME NEW r \in Requests, VerifyFindRight(r) PROVE SoloInv'
    BY <1>2, <2>4, ReadSolo DEF VerifyFindRight
  <2>5. CASE UNCHANGED vars
    BY <2>5 DEF vars, history, SoloInv, Solo, Numbered, Alone, UnusedUnseen, Unseen,
       Tallied, Owed, Counting, Spent, NewestStored, Newest, Exists, Stage, Unstored,
       Stored, Saving, Discards, RowsOf
  <2>6. CASE Crash
    BY <1>2, <2>6 DEF Crash
  <2>7. QED
    BY <1>2, <2>1, <2>2, <2>3, <2>4, <2>5, <2>6, RegisterFindUserSolo, ResendFindSolo,
       VerifyFindWrongSolo, ExpireSolo, AccountMadeElsewhereSolo DEF Next
<1>3. QED
  BY <1>1, <1>2

\* Both invariants hold throughout every behaviour.
THEOREM SoloInvariance == Spec => [](IInv /\ SoloInv)
<1>1. Init => SoloInv
  <2> SUFFICES ASSUME Init PROVE SoloInv
    OBVIOUS
  <2>1. \A r \in Requests : req[r] = Idle
    BY DEF Init
  <2>2. \A r \in Requests : Stage(r)
    BY <2>1 DEF Stage, Idle, Holding
  <2>3. Numbered /\ Alone /\ Tallied /\ NewestStored
    BY <2>1 DEF Init, Numbered, Alone, Tallied, NewestStored
  <2>4. UnusedUnseen /\ Spent
    BY RegistrationAssumption DEF Init, UnusedUnseen, Unseen, Spent, NothingSeen
  <2>5. QED
    BY <2>2, <2>3, <2>4 DEF SoloInv, Solo
<1>2. IInv /\ SoloInv /\ [Next]_vars => SoloInv'
  BY SoloKeeps
<1>3. QED
  BY <1>1, <1>2, Invariance, PTL DEF Spec

\* As long as requests arrive one at a time, no code is compared with more
\* wrong guesses than the limit: the stored counter is their number, so the
\* row is used up in time.
THEOREM GuessesBounded == Spec => []GuessBudget
<1>1. SoloInv => GuessBudget
  BY DEF SoloInv, Solo, Spent, GuessBudget
<1>2. QED
  BY <1>1, SoloInvariance, PTL

\* As long as requests arrive one at a time, a code logs in once: when the
\* answer is sent no row holds the code any more.
THEOREM UsedOnce == Spec => []SingleUse
<1>1. SoloInv => SingleUse
  BY DEF SoloInv, Solo, Spent, SingleUse
<1>2. QED
  BY <1>1, SoloInvariance, PTL

\* As long as requests arrive one at a time, the newest mailed code of an email
\* without an account is stored, with the number of its wrong guesses, until it
\* expires or is used up.
THEOREM NewestCodeUsable == Spec => []NewestCodeStands
<1>1. SoloInv => NewestCodeStands
  <2> SUFFICES ASSUME SoloInv, ~disturbed, req = [r \in Requests |-> Idle],
                      NEW i \in issued, i.code \in seen.mailed,
                      Newest(i.code, i.email), i.code \notin expired,
                      seen.wrong[i.code] < MaxAttempts, ~Exists(i.email)
               PROVE  \E o \in RowsOf(i.email) : /\ o.code = i.code
                                                /\ o.attempts = seen.wrong[i.code]
    BY DEF NewestCodeStands, Newest
  <2>1. PICK o \in otps : o.email = i.email /\ o.code = i.code
    BY DEF SoloInv, Solo, NewestStored
  <2>2. ~Owed(o)
    BY DEF Owed, Counting, Idle, Holding
  <2>3. o.attempts = seen.wrong[o.code]
    BY <2>2 DEF SoloInv, Solo, Tallied
  <2>4. QED
    BY <2>1, <2>3 DEF RowsOf
<1>2. QED
  BY <1>1, SoloInvariance, PTL
=============================================================================
