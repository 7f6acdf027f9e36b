----------------------- MODULE AccountRecoveryProofs -----------------------
(***************************************************************************)
(* Proofs about AccountRecovery for every set of browsers, every set of    *)
(* methods a deployment switches on, all limits and every bound.           *)
(***************************************************************************)
EXTENDS AccountRecovery, TLAPS

\* What the assumption says about each constant.
LEMMA Constants ==
    /\ Owner \subseteq Browser
    /\ Deployments \subseteq SUBSET Method
    /\ MaxAttempts \in Nat /\ SqMaxAttempts \in Nat /\ LockTicks \in Nat /\ CodeTicks \in Nat
    /\ CooldownTicks \in Nat /\ BackupTicks \in Nat
    /\ CodesPerBatch \in Nat /\ CodesPerBatch > 0 /\ MaxCode \in Nat /\ MaxCode > CodesPerBatch
    /\ MaxTime \in Nat /\ MaxTime > 0 /\ Relational \in BOOLEAN
BY RecoveryAssumption DEF Method

\* The moments a handler writes down are moments.
LEMMA Moments ==
    ASSUME now \in 1..MaxTime
    PROVE  /\ now \in Time /\ now + LockTicks \in Time /\ now + CodeTicks \in Time
           /\ now + BackupTicks \in Time /\ 0 \in Time
BY Constants DEF Time

-----------------------------------------------------------------------------
(* The functions of RecoveryUtils keep a document a document.              *)

LEMMA NoRecoveryType == NoRecovery \in Document
BY Constants DEF NoRecovery, Document, Method, Code, Time

\* The failure counters change nothing but themselves and their lock.
LEMMA FailuresType ==
    ASSUME NEW d \in Document, now \in 1..MaxTime
    PROVE  /\ RecordFailure(d) \in Document /\ RecordSqFailure(d) \in Document
           /\ ClearLockout(d) \in Document /\ ClearSqLockout(d) \in Document
           /\ SetLastRecovered(d) \in Document
<1>1. \A n \in Nat, t \in Time :
        /\ [d EXCEPT !.failed = n, !.locked = t] \in Document
        /\ [d EXCEPT !.sqFailed = n, !.sqLocked = t] \in Document
        /\ [d EXCEPT !.last = t] \in Document
  BY DEF Document
<1>2. d.failed \in Nat /\ d.sqFailed \in Nat /\ d.locked \in Time /\ d.sqLocked \in Time
  BY DEF Document
<1>3. RecordFailure(d) \in Document
  <2> DEFINE n == (IF d.locked # 0 /\ d.locked <= now THEN 0 ELSE d.failed) + 1
             t == IF n >= MaxAttempts THEN now + LockTicks
                  ELSE IF d.locked # 0 /\ d.locked <= now THEN 0 ELSE d.locked
  <2>1. n \in Nat /\ t \in Time
    BY <1>2, Moments
  <2>2. RecordFailure(d) = [d EXCEPT !.failed = n, !.locked = t]
    BY DEF RecordFailure
  <2> HIDE DEF n, t
  <2> QED BY <1>1, <2>1, <2>2
<1>4. RecordSqFailure(d) \in Document
  <2> DEFINE n == (IF d.sqLocked # 0 /\ d.sqLocked <= now THEN 0 ELSE d.sqFailed) + 1
             t == IF n >= SqMaxAttempts THEN now + LockTicks
                  ELSE IF d.sqLocked # 0 /\ d.sqLocked <= now THEN 0 ELSE d.sqLocked
  <2>1. n \in Nat /\ t \in Time
    BY <1>2, Moments
  <2>2. RecordSqFailure(d) = [d EXCEPT !.sqFailed = n, !.sqLocked = t]
    BY DEF RecordSqFailure
  <2> HIDE DEF n, t
  <2> QED BY <1>1, <2>1, <2>2
<1> QED BY <1>1, <1>3, <1>4, Moments DEF ClearLockout, ClearSqLockout, SetLastRecovered

\* They leave the codes where they are; only SetLastRecovered dates a recovery.
LEMMA FailuresKeep ==
    ASSUME NEW d \in Document
    PROVE  /\ \A e \in {RecordFailure(d), RecordSqFailure(d), ClearLockout(d), ClearSqLockout(d)} :
                e.codes = d.codes /\ e.sms = d.sms /\ e.last = d.last
           /\ SetLastRecovered(d).codes = d.codes /\ SetLastRecovered(d).sms = d.sms
           /\ SetLastRecovered(d).last = now
<1>2. /\ RecordFailure(d).codes = d.codes /\ RecordFailure(d).sms = d.sms
      /\ RecordFailure(d).last = d.last
  BY DEF RecordFailure, Document
<1>3. /\ RecordSqFailure(d).codes = d.codes /\ RecordSqFailure(d).sms = d.sms
      /\ RecordSqFailure(d).last = d.last
  BY DEF RecordSqFailure, Document
<1>4. /\ ClearLockout(d).codes = d.codes /\ ClearLockout(d).sms = d.sms
      /\ ClearLockout(d).last = d.last
  BY DEF ClearLockout, Document
<1>5. /\ ClearSqLockout(d).codes = d.codes /\ ClearSqLockout(d).sms = d.sms
      /\ ClearSqLockout(d).last = d.last
  BY DEF ClearSqLockout, Document
<1>6. /\ SetLastRecovered(d).codes = d.codes /\ SetLastRecovered(d).sms = d.sms
      /\ SetLastRecovered(d).last = now
  BY DEF SetLastRecovered, Document
<1> QED BY <1>2, <1>3, <1>4, <1>5, <1>6

\* So does disabling a method, which may drop codes.
LEMMA WithoutKeeps ==
    ASSUME NEW d \in Document, NEW m \in Method
    PROVE  /\ Without(d, m) \in Document
           /\ Without(d, m).codes \subseteq d.codes /\ Without(d, m).sms \in {0, d.sms}
           /\ Without(d, m).last = d.last
<1> DEFINE e == [d EXCEPT !.methods = @ \ {m}]
<1>1. e \in Document /\ e.codes = d.codes /\ e.sms = d.sms /\ e.last = d.last
  BY DEF Document
<1>2. 0 \in Time /\ 0 \in Code /\ 0 \in Nat
  BY Constants DEF Time, Code
<1>3. Without(d, m) =
        CASE m = "backup_codes" -> [e EXCEPT !.codes = {}, !.codesExp = 0]
          [] m = "secondary_email" -> [e EXCEPT !.addr = 0, !.verified = FALSE, !.addrExp = 0]
          [] m = "security_questions" -> [e EXCEPT !.questions = FALSE, !.sqFailed = 0, !.sqLocked = 0]
          [] m = "sms" -> [e EXCEPT !.sms = 0, !.smsExp = 0]
  BY DEF Without
<1> HIDE DEF e
<1>4. CASE m = "backup_codes"
  BY <1>1, <1>2, <1>3, <1>4, ZenonT(40) DEF Document
<1>5. CASE m = "secondary_email"
  BY <1>1, <1>2, <1>3, <1>5, ZenonT(40) DEF Document
<1>6. CASE m = "security_questions"
  BY <1>1, <1>2, <1>3, <1>6, ZenonT(40) DEF Document
<1>7. CASE m = "sms"
  BY <1>1, <1>2, <1>3, <1>7, ZenonT(40) DEF Document
<1> QED BY <1>4, <1>5, <1>6, <1>7 DEF Method

\* Storing a document keeps its codes; MongoDB keeps all of it.
LEMMA PersistedKeeps ==
    ASSUME NEW d \in Document
    PROVE  /\ Persisted(d) \in Document
           /\ Persisted(d).codes = d.codes /\ Persisted(d).sms = d.sms
           /\ ~Relational => Persisted(d) = d
<1>1. 0 \in Time /\ 0 \in Nat
  BY Constants DEF Time
<1>2. CASE Relational
  <2> DEFINE f == IF d.questions THEN d.sqFailed ELSE 0
             l == IF d.questions THEN d.sqLocked ELSE 0
  <2>1. f \in Nat /\ l \in Time
    BY <1>1 DEF Document
  <2>2. Persisted(d) = [d EXCEPT !.failed = 0, !.locked = 0, !.last = 0, !.sqFailed = f, !.sqLocked = l]
    BY <1>2 DEF Persisted
  <2> HIDE DEF f, l
  <2> QED BY <1>1, <1>2, <2>1, <2>2, ZenonT(40) DEF Document
<1>3. CASE ~Relational
  BY <1>3 DEF Persisted
<1> QED BY <1>2, <1>3

-----------------------------------------------------------------------------
(* Types.                                                                  *)

\* The documents a request of any kind works on.
LEMMA RequestFields ==
    ASSUME TypeOK, NEW b \in Browser
    PROVE  /\ req[b] \in Request /\ req[b].snap \in Document /\ req[b].input \in Code
           /\ req[b].ok \in BOOLEAN /\ req[b].fresh \in BOOLEAN
BY DEF TypeOK, Request

LEMMA IdleType == Idle \in Request /\ Idle.op = "none" /\ Idle.at = "idle"
BY NoRecoveryType, Constants DEF Idle, Request, Code

\* updateById stores one document, ends its request and leaves the copies of the
\* others as they are, out of date.
LEMMA SaveEffect ==
    ASSUME TypeOK, NEW b \in Browser, NEW d \in Document, Save(b, d)
    PROVE  /\ doc' = Persisted(d) /\ doc' \in Document
           /\ req' \in [Browser -> Request]
           /\ req'[b] = Idle
           /\ \A x \in Browser : \/ req'[x] = Idle
                                 \/ /\ req'[x] = [req[x] EXCEPT !.fresh = FALSE]
                                    /\ req'[x].op = req[x].op /\ req'[x].at = req[x].at
                                    /\ req'[x].snap = req[x].snap /\ req'[x].input = req[x].input
                                    /\ req'[x].ok = req[x].ok /\ req'[x].fresh = FALSE
           /\ \A x \in Browser : req'[x].op = "regenerate" => req'[x].input >= CodesPerBatch
           /\ stale' \in BOOLEAN /\ (~stale' => req[b].fresh /\ ~stale)
           /\ undated' \in BOOLEAN
<1>1. doc' = Persisted(d) /\ doc' \in Document
  BY PersistedKeeps DEF Save
<1>2. \A x \in Browser : req'[x] = IF x = b \/ req[x].at = "idle" THEN Idle ELSE [req[x] EXCEPT !.fresh = FALSE]
  BY DEF Save
<1>3. \A x \in Browser : LET q == [req[x] EXCEPT !.fresh = FALSE]
                         IN  /\ q \in Request /\ q.op = req[x].op /\ q.at = req[x].at
                             /\ q.snap = req[x].snap /\ q.input = req[x].input
                             /\ q.ok = req[x].ok /\ q.fresh = FALSE
  BY DEF TypeOK, Request
<1>4. DOMAIN req' = Browser /\ req' = [x \in Browser |-> req'[x]]
  BY DEF Save
<1>5. req' \in [Browser -> Request]
  BY <1>2, <1>3, <1>4, IdleType
<1>6. stale' \in BOOLEAN /\ (~stale' => req[b].fresh /\ ~stale) /\ undated' \in BOOLEAN
  BY RequestFields DEF Save, TypeOK
<1>7. req'[b] = Idle
  BY <1>2
<1>8. \A x \in Browser : \/ req'[x] = Idle
                         \/ /\ req'[x] = [req[x] EXCEPT !.fresh = FALSE]
                            /\ req'[x].op = req[x].op /\ req'[x].at = req[x].at
                            /\ req'[x].snap = req[x].snap /\ req'[x].input = req[x].input
                            /\ req'[x].ok = req[x].ok /\ req'[x].fresh = FALSE
  BY <1>2, <1>3, ZenonT(40)
<1>9. \A x \in Browser : req'[x].op = "regenerate" => req'[x].input >= CodesPerBatch
  BY <1>8, IdleType DEF TypeOK
<1> QED BY <1>1, <1>5, <1>6, <1>7, <1>8, <1>9

\* A handler has read the user: the request of b is of kind op, at step at, with
\* copy d and input c; it is up to date and the other requests are as before.
Started(b, op, at, d, c) ==
    /\ req' \in [Browser -> Request]
    /\ req'[b].op = op /\ req'[b].at = at /\ req'[b].snap = d /\ req'[b].input = c /\ req'[b].fresh = TRUE
    /\ \A x \in Browser : x # b => req'[x] = req[x]
    /\ \A x \in Browser : req'[x].op = "regenerate" => req'[x].input >= CodesPerBatch

LEMMA WorkEffect ==
    ASSUME TypeOK, NEW b \in Browser, NEW q \in Request, req' = [req EXCEPT ![b] = q],
           q.op = "regenerate" => q.input >= CodesPerBatch, q.fresh = TRUE
    PROVE  Started(b, q.op, q.at, q.snap, q.input) /\ req'[b] = q
<1>1. req'[b] = q /\ \A x \in Browser : x # b => req'[x] = req[x]
  BY DEF TypeOK
<1> QED BY <1>1 DEF TypeOK, Started

\* What each handler that starts, or reads the user again, makes of its request.
LEMMA Starts ==
    ASSUME TypeOK, NEW b \in Browser
    PROVE
      /\ \A c \in Code : ProcessRecoveryBackupCodes(b, c) =>
            /\ Started(b, "backup", "save", doc, c)
            /\ req'[b].ok = BackupMatches(doc, c)
      /\ \A c \in Code : VerifyRecoverySms(b, c) =>
            /\ Started(b, "smsCode", "lockout", doc, c)
            /\ req'[b].ok = FALSE
      /\ \A c \in Code : VerifyRecoveryEmailCode(b, c) =>
            /\ Started(b, "emailCode", "reread", doc, c) \/ Started(b, "emailCode", "save", doc, c)
            /\ req'[b].at = "reread" => c = sess[b].code
            /\ req'[b].ok = FALSE
      /\ SendRecoverySms(b) =>
            /\ Started(b, "sms", "send", [doc EXCEPT !.sms = issued + 1, !.smsExp = now + CodeTicks], 0)
            /\ req'[b].ok = FALSE
      /\ RereadUser(b) =>
            /\ Started(b, "emailCode", "save", doc, req[b].input)
            /\ req'[b].ok = TRUE
      /\ \A right \in BOOLEAN : ProcessRecoverySecurityQuestions(b, right) =>
            /\ Started(b, "questions", "save", doc, 0)
            /\ req'[b].ok = right
      /\ OpenSettings(b, "regenerate", "backup_codes" \in on, CodesPerBatch) =>
            /\ Started(b, "regenerate", "save", doc, issued + CodesPerBatch)
            /\ req'[b].ok = FALSE
      /\ OpenSettings(b, "address", "secondary_email" \in on, 1) =>
            /\ Started(b, "address", "save", doc, issued + 1)
            /\ req'[b].ok = FALSE
      /\ OpenSettings(b, "setQuestions", "security_questions" \in on, 0) =>
            /\ Started(b, "setQuestions", "save", doc, issued)
            /\ req'[b].ok = FALSE
      /\ OpenSettings(b, "disable", TRUE, 0) =>
            /\ Started(b, "disable", "save", doc, issued)
            /\ req'[b].ok = FALSE
      /\ \A c \in Code : OpenVerificationLink(b, c) =>
            /\ Started(b, "link", "save", doc, c)
            /\ req'[b].ok = TRUE
<1>0. /\ doc \in Document /\ 0 \in Code /\ issued \in Code /\ now \in 1..MaxTime
      /\ CodesPerBatch \in Nat /\ issued >= 0
      /\ \A n \in Nat : issued + n <= MaxCode => issued + n \in Code
      /\ issued < MaxCode => issued + 1 \in Code
      /\ issued + CodesPerBatch >= CodesPerBatch
  BY Constants DEF TypeOK, Code
<1>1. ASSUME NEW c \in Code, ProcessRecoveryBackupCodes(b, c)
      PROVE  /\ Started(b, "backup", "save", doc, c)
             /\ req'[b].ok = BackupMatches(doc, c)
  <2> DEFINE at == "save"
             d == doc
             q == [op |-> "backup", at |-> at, snap |-> d, input |-> c, ok |-> BackupMatches(doc, c), fresh |-> TRUE]
  <2>1. d \in Document /\ c \in Code /\ at \in {"send", "lockout", "reread", "save"}
    BY <1>1, <1>0, RequestFields DEF Document, ProcessRecoveryBackupCodes, Read, BackupMatches
  <2>2. req' = [req EXCEPT ![b] = q]
    BY <1>1 DEF Work, ProcessRecoveryBackupCodes, Read, BackupMatches
  <2> HIDE DEF at, d
  <2>3. /\ q \in Request /\ q.op = "backup" /\ q.at = at /\ q.snap = d /\ q.input = c
        /\ q.ok = BackupMatches(doc, c) /\ q.fresh = TRUE
    BY <1>1, <2>1 DEF Request, BackupMatches
  <2> HIDE DEF q
  <2>4. Started(b, "backup", at, d, c) /\ req'[b] = q
    <3>1. q \in Request /\ q.fresh = TRUE /\ (q.op = "regenerate" => q.input >= CodesPerBatch)
      BY <1>0, <2>3
    <3>2. Started(b, q.op, q.at, q.snap, q.input) /\ req'[b] = q
      BY <2>2, <3>1, WorkEffect
    <3> QED BY <2>3, <3>2
  <2>5. req'[b].ok = BackupMatches(doc, c) /\ req'[b].at = at
    BY <2>3, <2>4
  <2> QED BY <2>4, <2>5 DEF at, d
<1>2. ASSUME NEW c \in Code, VerifyRecoverySms(b, c)
      PROVE  /\ Started(b, "smsCode", "lockout", doc, c)
             /\ req'[b].ok = FALSE
  <2> DEFINE at == "lockout"
             d == doc
             q == [op |-> "smsCode", at |-> at, snap |-> d, input |-> c, ok |-> FALSE, fresh |-> TRUE]
  <2>1. d \in Document /\ c \in Code /\ at \in {"send", "lockout", "reread", "save"}
    BY <1>2, <1>0, RequestFields DEF Document, VerifyRecoverySms, Read
  <2>2. req' = [req EXCEPT ![b] = q]
    BY <1>2 DEF Work, VerifyRecoverySms, Read
  <2> HIDE DEF at, d
  <2>3. /\ q \in Request /\ q.op = "smsCode" /\ q.at = at /\ q.snap = d /\ q.input = c
        /\ q.ok = FALSE /\ q.fresh = TRUE
    BY <1>2, <2>1 DEF Request
  <2> HIDE DEF q
  <2>4. Started(b, "smsCode", at, d, c) /\ req'[b] = q
    <3>1. q \in Request /\ q.fresh = TRUE /\ (q.op = "regenerate" => q.input >= CodesPerBatch)
      BY <1>0, <2>3
    <3>2. Started(b, q.op, q.at, q.snap, q.input) /\ req'[b] = q
      BY <2>2, <3>1, WorkEffect
    <3> QED BY <2>3, <3>2
  <2>5. req'[b].ok = FALSE /\ req'[b].at = at
    BY <2>3, <2>4
  <2> QED BY <2>4, <2>5 DEF at, d
<1>3. ASSUME NEW c \in Code, VerifyRecoveryEmailCode(b, c)
      PROVE  /\ Started(b, "emailCode", "reread", doc, c) \/ Started(b, "emailCode", "save", doc, c)
             /\ req'[b].at = "reread" => c = sess[b].code
             /\ req'[b].ok = FALSE
  <2> DEFINE at == IF c = sess[b].code THEN "reread" ELSE "save"
             d == doc
             q == [op |-> "emailCode", at |-> at, snap |-> d, input |-> c, ok |-> FALSE, fresh |-> TRUE]
  <2>1. d \in Document /\ c \in Code /\ at \in {"send", "lockout", "reread", "save"}
    BY <1>3, <1>0, RequestFields DEF Document, VerifyRecoveryEmailCode, Read
  <2>2. req' = [req EXCEPT ![b] = q]
    BY <1>3 DEF Work, VerifyRecoveryEmailCode, Read
  <2> HIDE DEF at, d
  <2>3. /\ q \in Request /\ q.op = "emailCode" /\ q.at = at /\ q.snap = d /\ q.input = c
        /\ q.ok = FALSE /\ q.fresh = TRUE
    BY <1>3, <2>1 DEF Request
  <2> HIDE DEF q
  <2>4. Started(b, "emailCode", at, d, c) /\ req'[b] = q
    <3>1. q \in Request /\ q.fresh = TRUE /\ (q.op = "regenerate" => q.input >= CodesPerBatch)
      BY <1>0, <2>3
    <3>2. Started(b, q.op, q.at, q.snap, q.input) /\ req'[b] = q
      BY <2>2, <3>1, WorkEffect
    <3> QED BY <2>3, <3>2
  <2>5. req'[b].ok = FALSE /\ req'[b].at = at
    BY <2>3, <2>4
  <2> QED BY <2>4, <2>5 DEF at, d
<1>4. ASSUME SendRecoverySms(b)
      PROVE  /\ Started(b, "sms", "send", [doc EXCEPT !.sms = issued + 1, !.smsExp = now + CodeTicks], 0)
             /\ req'[b].ok = FALSE
  <2> DEFINE at == "send"
             d == [doc EXCEPT !.sms = issued + 1, !.smsExp = now + CodeTicks]
             q == [op |-> "sms", at |-> at, snap |-> d, input |-> 0, ok |-> FALSE, fresh |-> TRUE]
  <2>1. d \in Document /\ 0 \in Code /\ at \in {"send", "lockout", "reread", "save"}
    BY <1>4, <1>0, Moments, RequestFields DEF Document, SendRecoverySms
  <2>2. req' = [req EXCEPT ![b] = q]
    BY <1>4 DEF Work, SendRecoverySms
  <2> HIDE DEF at, d
  <2>3. /\ q \in Request /\ q.op = "sms" /\ q.at = at /\ q.snap = d /\ q.input = 0
        /\ q.ok = FALSE /\ q.fresh = TRUE
    BY <1>4, <2>1 DEF Request
  <2> HIDE DEF q
  <2>4. Started(b, "sms", at, d, 0) /\ req'[b] = q
    <3>1. q \in Request /\ q.fresh = TRUE /\ (q.op = "regenerate" => q.input >= CodesPerBatch)
      BY <1>0, <2>3
    <3>2. Started(b, q.op, q.at, q.snap, q.input) /\ req'[b] = q
      BY <2>2, <3>1, WorkEffect
    <3> QED BY <2>3, <3>2
  <2>5. req'[b].ok = FALSE /\ req'[b].at = at
    BY <2>3, <2>4
  <2> QED BY <2>4, <2>5 DEF at, d
<1>5. ASSUME RereadUser(b)
      PROVE  /\ Started(b, "emailCode", "save", doc, req[b].input)
             /\ req'[b].ok = TRUE
  <2> DEFINE at == "save"
             d == doc
             q == [op |-> "emailCode", at |-> at, snap |-> d, input |-> req[b].input, ok |-> TRUE, fresh |-> TRUE]
  <2>1. d \in Document /\ req[b].input \in Code /\ at \in {"send", "lockout", "reread", "save"}
    BY <1>5, <1>0, RequestFields DEF Document, RereadUser, Read
  <2>2. req' = [req EXCEPT ![b] = q]
    BY <1>5 DEF Work, RereadUser, Read
  <2> HIDE DEF at, d
  <2>3. /\ q \in Request /\ q.op = "emailCode" /\ q.at = at /\ q.snap = d /\ q.input = req[b].input
        /\ q.ok = TRUE /\ q.fresh = TRUE
    BY <1>5, <2>1 DEF Request
  <2> HIDE DEF q
  <2>4. Started(b, "emailCode", at, d, req[b].input) /\ req'[b] = q
    <3>1. q \in Request /\ q.fresh = TRUE /\ (q.op = "regenerate" => q.input >= CodesPerBatch)
      BY <1>0, <2>3
    <3>2. Started(b, q.op, q.at, q.snap, q.input) /\ req'[b] = q
      BY <2>2, <3>1, WorkEffect
    <3> QED BY <2>3, <3>2
  <2>5. req'[b].ok = TRUE /\ req'[b].at = at
    BY <2>3, <2>4
  <2> QED BY <2>4, <2>5 DEF at, d
<1>6. ASSUME NEW right, right \in BOOLEAN, ProcessRecoverySecurityQuestions(b, right)
      PROVE  /\ Started(b, "questions", "save", doc, 0)
             /\ req'[b].ok = right
  <2> DEFINE at == "save"
             d == doc
             q == [op |-> "questions", at |-> at, snap |-> d, input |-> 0, ok |-> right, fresh |-> TRUE]
  <2>1. d \in Document /\ 0 \in Code /\ at \in {"send", "lockout", "reread", "save"}
    BY <1>6, <1>0, RequestFields DEF Document, ProcessRecoverySecurityQuestions, Read
  <2>2. req' = [req EXCEPT ![b] = q]
    BY <1>6 DEF Work, ProcessRecoverySecurityQuestions, Read
  <2> HIDE DEF at, d
  <2>3. /\ q \in Request /\ q.op = "questions" /\ q.at = at /\ q.snap = d /\ q.input = 0
        /\ q.ok = right /\ q.fresh = TRUE
    BY <1>6, <2>1 DEF Request
  <2> HIDE DEF q
  <2>4. Started(b, "questions", at, d, 0) /\ req'[b] = q
    <3>1. q \in Request /\ q.fresh = TRUE /\ (q.op = "regenerate" => q.input >= CodesPerBatch)
      BY <1>0, <2>3
    <3>2. Started(b, q.op, q.at, q.snap, q.input) /\ req'[b] = q
      BY <2>2, <3>1, WorkEffect
    <3> QED BY <2>3, <3>2
  <2>5. req'[b].ok = right /\ req'[b].at = at
    BY <2>3, <2>4
  <2> QED BY <2>4, <2>5 DEF at, d
<1>7. ASSUME OpenSettings(b, "regenerate", "backup_codes" \in on, CodesPerBatch)
      PROVE  /\ Started(b, "regenerate", "save", doc, issued + CodesPerBatch)
             /\ req'[b].ok = FALSE
  <2> DEFINE at == "save"
             d == doc
             q == [op |-> "regenerate", at |-> at, snap |-> d, input |-> issued + CodesPerBatch, ok |-> FALSE, fresh |-> TRUE]
  <2>1. d \in Document /\ issued + CodesPerBatch \in Code /\ at \in {"send", "lockout", "reread", "save"}
    BY <1>7, <1>0, RequestFields DEF Document, OpenSettings, Read
  <2>2. req' = [req EXCEPT ![b] = q]
    BY <1>7 DEF Work, OpenSettings, Read
  <2> HIDE DEF at, d
  <2>3. /\ q \in Request /\ q.op = "regenerate" /\ q.at = at /\ q.snap = d /\ q.input = issued + CodesPerBatch
        /\ q.ok = FALSE /\ q.fresh = TRUE
    BY <1>7, <2>1 DEF Request
  <2> HIDE DEF q
  <2>4. Started(b, "regenerate", at, d, issued + CodesPerBatch) /\ req'[b] = q
    <3>1. q \in Request /\ q.fresh = TRUE /\ (q.op = "regenerate" => q.input >= CodesPerBatch)
      BY <1>0, <2>3
    <3>2. Started(b, q.op, q.at, q.snap, q.input) /\ req'[b] = q
      BY <2>2, <3>1, WorkEffect
    <3> QED BY <2>3, <3>2
  <2>5. req'[b].ok = FALSE /\ req'[b].at = at
    BY <2>3, <2>4
  <2> QED BY <2>4, <2>5 DEF at, d
<1>8. ASSUME OpenSettings(b, "address", "secondary_email" \in on, 1)
      PROVE  /\ Started(b, "address", "save", doc, issued + 1)
             /\ req'[b].ok = FALSE
  <2> DEFINE at == "save"
             d == doc
             q == [op |-> "address", at |-> at, snap |-> d, input |-> issued + 1, ok |-> FALSE, fresh |-> TRUE]
  <2>1. d \in Document /\ issued + 1 \in Code /\ at \in {"send", "lockout", "reread", "save"}
    BY <1>8, <1>0, RequestFields DEF Document, OpenSettings, Read
  <2>2. req' = [req EXCEPT ![b] = q]
    BY <1>8 DEF Work, OpenSettings, Read
  <2> HIDE DEF at, d
  <2>3. /\ q \in Request /\ q.op = "address" /\ q.at = at /\ q.snap = d /\ q.input = issued + 1
        /\ q.ok = FALSE /\ q.fresh = TRUE
    BY <1>8, <2>1 DEF Request
  <2> HIDE DEF q
  <2>4. Started(b, "address", at, d, issued + 1) /\ req'[b] = q
    <3>1. q \in Request /\ q.fresh = TRUE /\ (q.op = "regenerate" => q.input >= CodesPerBatch)
      BY <1>0, <2>3
    <3>2. Started(b, q.op, q.at, q.snap, q.input) /\ req'[b] = q
      BY <2>2, <3>1, WorkEffect
    <3> QED BY <2>3, <3>2
  <2>5. req'[b].ok = FALSE /\ req'[b].at = at
    BY <2>3, <2>4
  <2> QED BY <2>4, <2>5 DEF at, d
<1>9. ASSUME OpenSettings(b, "setQuestions", "security_questions" \in on, 0)
      PROVE  /\ Started(b, "setQuestions", "save", doc, issued)
             /\ req'[b].ok = FALSE
  <2> DEFINE at == "save"
             d == doc
             q == [op |-> "setQuestions", at |-> at, snap |-> d, input |-> issued, ok |-> FALSE, fresh |-> TRUE]
  <2>1. d \in Document /\ issued \in Code /\ at \in {"send", "lockout", "reread", "save"}
    BY <1>9, <1>0, RequestFields DEF Document, OpenSettings, Read
  <2>2. req' = [req EXCEPT ![b] = q]
    <3>1. Work(b, "setQuestions", "save", doc, issued + 0, FALSE)
      BY <1>9 DEF OpenSettings, Read
    <3>2. issued + 0 = issued
      BY <1>0 DEF Code
    <3> QED BY <3>1, <3>2 DEF Work
  <2> HIDE DEF at, d
  <2>3. /\ q \in Request /\ q.op = "setQuestions" /\ q.at = at /\ q.snap = d /\ q.input = issued
        /\ q.ok = FALSE /\ q.fresh = TRUE
    BY <1>9, <2>1 DEF Request
  <2> HIDE DEF q
  <2>4. Started(b, "setQuestions", at, d, issued) /\ req'[b] = q
    <3>1. q \in Request /\ q.fresh = TRUE /\ (q.op = "regenerate" => q.input >= CodesPerBatch)
      BY <1>0, <2>3
    <3>2. Started(b, q.op, q.at, q.snap, q.input) /\ req'[b] = q
      BY <2>2, <3>1, WorkEffect
    <3> QED BY <2>3, <3>2
  <2>5. req'[b].ok = FALSE /\ req'[b].at = at
    BY <2>3, <2>4
  <2> QED BY <2>4, <2>5 DEF at, d
<1>10. ASSUME OpenSettings(b, "disable", TRUE, 0)
      PROVE  /\ Started(b, "disable", "save", doc, issued)
             /\ req'[b].ok = FALSE
  <2> DEFINE at == "save"
             d == doc
             q == [op |-> "disable", at |-> at, snap |-> d, input |-> issued, ok |-> FALSE, fresh |-> TRUE]
  <2>1. d \in Document /\ issued \in Code /\ at \in {"send", "lockout", "reread", "save"}
    BY <1>10, <1>0, RequestFields DEF Document, OpenSettings, Read
  <2>2. req' = [req EXCEPT ![b] = q]
    <3>1. Work(b, "disable", "save", doc, issued + 0, FALSE)
      BY <1>10 DEF OpenSettings, Read
    <3>2. issued + 0 = issued
      BY <1>0 DEF Code
    <3> QED BY <3>1, <3>2 DEF Work
  <2> HIDE DEF at, d
  <2>3. /\ q \in Request /\ q.op = "disable" /\ q.at = at /\ q.snap = d /\ q.input = issued
        /\ q.ok = FALSE /\ q.fresh = TRUE
    BY <2>1 DEF Request
  <2> HIDE DEF q
  <2>4. Started(b, "disable", at, d, issued) /\ req'[b] = q
    <3>1. q \in Request /\ q.fresh = TRUE /\ (q.op = "regenerate" => q.input >= CodesPerBatch)
      BY <1>0, <2>3
    <3>2. Started(b, q.op, q.at, q.snap, q.input) /\ req'[b] = q
      BY <2>2, <3>1, WorkEffect
    <3> QED BY <2>3, <3>2
  <2>5. req'[b].ok = FALSE /\ req'[b].at = at
    BY <2>3, <2>4
  <2> QED BY <2>4, <2>5 DEF at, d
<1>11. ASSUME NEW c \in Code, OpenVerificationLink(b, c)
      PROVE  /\ Started(b, "link", "save", doc, c)
             /\ req'[b].ok = TRUE
  <2> DEFINE at == "save"
             d == doc
             q == [op |-> "link", at |-> at, snap |-> d, input |-> c, ok |-> TRUE, fresh |-> TRUE]
  <2>1. d \in Document /\ c \in Code /\ at \in {"send", "lockout", "reread", "save"}
    BY <1>11, <1>0, RequestFields DEF Document, OpenVerificationLink, Read
  <2>2. req' = [req EXCEPT ![b] = q]
    BY <1>11 DEF Work, OpenVerificationLink, Read
  <2> HIDE DEF at, d
  <2>3. /\ q \in Request /\ q.op = "link" /\ q.at = at /\ q.snap = d /\ q.input = c
        /\ q.ok = TRUE /\ q.fresh = TRUE
    BY <1>11, <2>1 DEF Request
  <2> HIDE DEF q
  <2>4. Started(b, "link", at, d, c) /\ req'[b] = q
    <3>1. q \in Request /\ q.fresh = TRUE /\ (q.op = "regenerate" => q.input >= CodesPerBatch)
      BY <1>0, <2>3
    <3>2. Started(b, q.op, q.at, q.snap, q.input) /\ req'[b] = q
      BY <2>2, <3>1, WorkEffect
    <3> QED BY <2>3, <3>2
  <2>5. req'[b].ok = TRUE /\ req'[b].at = at
    BY <2>3, <2>4
  <2> QED BY <2>4, <2>5 DEF at, d
<1> QED BY <1>1, <1>2, <1>3, <1>4, <1>5, <1>6, <1>7, <1>8, <1>9, <1>10, <1>11

LEMMA DropEffect ==
    ASSUME TypeOK, NEW b \in Browser, Drop(b)
    PROVE  /\ req' \in [Browser -> Request]
           /\ req'[b] = Idle /\ \A x \in Browser : x # b => req'[x] = req[x]
           /\ \A x \in Browser : req'[x].op = "regenerate" => req'[x].input >= CodesPerBatch
<1>1. req'[b] = Idle /\ \A x \in Browser : x # b => req'[x] = req[x]
  BY DEF Drop, TypeOK
<1> QED BY <1>1, IdleType DEF Drop, TypeOK

\* What a right and a wrong submission write into the history.
LEMMA OutcomeType ==
    ASSUME TypeOK, NEW k \in {"code", "answers"}, NEW c \in Code
    PROVE  /\ NoneWrong(k) => wrong' \in [{"code", "answers"} -> Seq(1..MaxTime)]
           /\ Accept(k, c) => /\ accepted' \subseteq Code /\ reused' \subseteq accepted'
                              /\ wrong' \in [{"code", "answers"} -> Seq(1..MaxTime)]
                              /\ recovered' \in Time /\ wiped' \in BOOLEAN
           /\ Reject(k) => /\ UNCHANGED outcome
                           /\ wrong' \in [{"code", "answers"} -> Seq(1..MaxTime)]
<1>1. << >> \in Seq(1..MaxTime)
  OBVIOUS
<1>2. NoneWrong(k) => wrong' \in [{"code", "answers"} -> Seq(1..MaxTime)]
  BY <1>1 DEF NoneWrong, TypeOK
<1>3. Append(wrong[k], now) \in Seq(1..MaxTime)
  BY DEF TypeOK
<1>5. CountWrong(k) => wrong' \in [{"code", "answers"} -> Seq(1..MaxTime)]
  BY <1>3 DEF CountWrong, TypeOK
<1>6. Accept(k, c) => /\ accepted' \subseteq Code /\ reused' \subseteq accepted'
                      /\ recovered' \in Time /\ wiped' \in BOOLEAN
  <2>1. now \in Time /\ 0 \in Time
    BY Moments DEF TypeOK
  <2> QED BY <2>1 DEF Accept, TypeOK, Code
<1> QED BY <1>2, <1>5, <1>6 DEF Accept, Reject

\* The fields of a session, and a session that is replaced.
LEMMA SessionFields ==
    ASSUME TypeOK, NEW b \in Browser
    PROVE  /\ sess[b] \in Session /\ sess[b].code \in Code /\ sess[b].codeExp \in Time
           /\ sess[b].auth \in BOOLEAN /\ sess[b].try.avail \subseteq Method
           /\ sess[b].try.method \in Method \cup {"none"} /\ sess[b].try.smsSent \in BOOLEAN
           /\ \A s \in Session : [sess EXCEPT ![b] = s] \in [Browser -> Session]
<1>1. sess[b] \in Session /\ \A s \in Session : [sess EXCEPT ![b] = s] \in [Browser -> Session]
  BY DEF TypeOK
<1> QED BY <1>1 DEF Session

\* Signing in after a recovery.
LEMMA SignInEffect ==
    ASSUME TypeOK, NEW b \in Browser
    PROVE  /\ SignIn(b, TRUE) => /\ sess' \in [Browser -> Session] /\ sess'[b].code = sess[b].code
                                 /\ \A x \in Browser : x # b => sess'[x] = sess[x]
           /\ SignIn(b, FALSE) => /\ sess' \in [Browser -> Session] /\ sess'[b].code = 0
                                  /\ \A x \in Browser : x # b => sess'[x] = sess[x]
<1> DEFINE s(c, e) == [sess[b] EXCEPT !.try = NoAttempt, !.auth = TRUE, !.code = c, !.codeExp = e]
<1>1. 0 \in Code /\ 0 \in Time
  BY Constants DEF Code, Time
<1>2. NoAttempt \in [avail : SUBSET Method, method : Method \cup {"none"}, smsSent : BOOLEAN]
  BY DEF NoAttempt
<1>3. \A c \in Code, e \in Time : s(c, e) \in Session /\ s(c, e).code = c
  BY <1>2, SessionFields DEF Session
<1>4. /\ SignIn(b, TRUE) => sess' = [sess EXCEPT ![b] = s(sess[b].code, sess[b].codeExp)]
      /\ SignIn(b, FALSE) => sess' = [sess EXCEPT ![b] = s(0, 0)]
  BY DEF SignIn
<1> HIDE DEF s
<1>5. \A t \in Session : sess' = [sess EXCEPT ![b] = t] =>
        sess' \in [Browser -> Session] /\ sess'[b] = t /\ \A x \in Browser : x # b => sess'[x] = sess[x]
  BY DEF TypeOK
<1>6. ASSUME SignIn(b, TRUE)
      PROVE  /\ sess' \in [Browser -> Session] /\ sess'[b].code = sess[b].code
             /\ \A x \in Browser : x # b => sess'[x] = sess[x]
  BY <1>3, <1>4, <1>5, <1>6, SessionFields
<1>7. ASSUME SignIn(b, FALSE)
      PROVE  /\ sess' \in [Browser -> Session] /\ sess'[b].code = 0
             /\ \A x \in Browser : x # b => sess'[x] = sess[x]
  BY <1>1, <1>3, <1>4, <1>5, <1>7
<1> QED BY <1>6, <1>7

\* Every step of a recovery keeps the types.
LEMMA RecoverTypes == ASSUME TypeOK, NEW b \in Browser, Recover(b) PROVE TypeOK'
<1> USE DEF history, outcome
<1>0. /\ now \in 1..MaxTime /\ 0 \in Code /\ doc \in Document /\ issued \in Code
      /\ issued < MaxCode => issued + 1 \in Code
  BY Constants DEF TypeOK, Code
<1>1. CASE ProcessAccountRecovery(b)
  <2> DEFINE t == [NoAttempt EXCEPT !.avail = Available(doc)]
             s == [sess[b] EXCEPT !.try = t]
  <2>1. Available(doc) \subseteq Method
    BY DEF Available, TypeOK
  <2>2. t \in [avail : SUBSET Method, method : Method \cup {"none"}, smsSent : BOOLEAN]
    BY <2>1 DEF NoAttempt
  <2>3. sess' = [sess EXCEPT ![b] = s]
    BY <1>1 DEF ProcessAccountRecovery
  <2> HIDE DEF t
  <2>4. s \in Session
    BY <2>2, SessionFields DEF Session
  <2> HIDE DEF s
  <2>5. sess' \in [Browser -> Session]
    BY <2>3, <2>4, SessionFields
  <2> QED BY <1>1, <2>5 DEF ProcessAccountRecovery, TypeOK
<1>2. CASE \E m \in Method : ProcessRecoveryMethodSelect(b, m)
  <2>1. PICK m \in Method : ProcessRecoveryMethodSelect(b, m)
    BY <1>2
  <2> DEFINE s == [sess[b] EXCEPT !.try.method = m]
  <2>2. sess' = [sess EXCEPT ![b] = s]
    BY <2>1 DEF ProcessRecoveryMethodSelect
  <2>3. s \in Session
    BY SessionFields DEF Session
  <2> HIDE DEF s
  <2>4. sess' \in [Browser -> Session]
    BY <2>2, <2>3, SessionFields
  <2> QED BY <2>1, <2>4 DEF ProcessRecoveryMethodSelect, TypeOK
<1>3. CASE \E c \in 0..issued : ProcessRecoveryBackupCodes(b, c)
  <2>1. PICK c \in 0..issued : ProcessRecoveryBackupCodes(b, c)
    BY <1>3
  <2>2. c \in Code
    BY <1>0, Constants DEF Code
  <2>3. Started(b, "backup", "save", doc, c)
    BY <2>1, <2>2, Starts
  <2> QED BY <2>1, <2>3 DEF Started, ProcessRecoveryBackupCodes, TypeOK
<1>4. CASE \E c \in 0..issued : VerifyRecoverySms(b, c)
  <2>1. PICK c \in 0..issued : VerifyRecoverySms(b, c)
    BY <1>4
  <2>2. c \in Code
    BY <1>0, Constants DEF Code
  <2>3. Started(b, "smsCode", "lockout", doc, c)
    BY <2>1, <2>2, Starts
  <2> QED BY <2>1, <2>3 DEF Started, VerifyRecoverySms, TypeOK
<1>5. CASE \E c \in 0..issued : VerifyRecoveryEmailCode(b, c)
  <2>1. PICK c \in 0..issued : VerifyRecoveryEmailCode(b, c)
    BY <1>5
  <2>2. c \in Code
    BY <1>0, Constants DEF Code
  <2>3. Started(b, "emailCode", "reread", doc, c) \/ Started(b, "emailCode", "save", doc, c)
    BY <2>1, <2>2, Starts
  <2> QED BY <2>1, <2>3 DEF Started, VerifyRecoveryEmailCode, TypeOK
<1>6. CASE BackupRefused(b)
  <2>1. RecordFailure(req[b].snap) \in Document
    BY <1>0, RequestFields, FailuresType
  <2> QED BY <1>6, <2>1, <1>0, SaveEffect, OutcomeType DEF BackupRefused, TypeOK
<1>7. CASE BackupAccepted(b)
  <2> DEFINE d == [req[b].snap EXCEPT !.codes = @ \ {req[b].input}]
  <2>1. d \in Document
    BY RequestFields DEF Document
  <2> HIDE DEF d
  <2>2. SetLastRecovered(ClearLockout(d)) \in Document
    BY <1>0, <2>1, FailuresType
  <2>3. Save(b, SetLastRecovered(ClearLockout(d)))
    BY <1>7 DEF BackupAccepted, d
  <2> QED BY <1>7, <2>2, <2>3, SaveEffect, OutcomeType, SignInEffect, RequestFields DEF BackupAccepted, TypeOK
<1>8. CASE SendRecoverySms(b)
  <2>1. Started(b, "sms", "send", [doc EXCEPT !.sms = issued + 1, !.smsExp = now + CodeTicks], 0)
    BY <1>8, Starts
  <2> QED BY <1>8, <1>0, <2>1 DEF Started, SendRecoverySms, TypeOK
<1>9. CASE RecoverySmsSent(b)
  <2> DEFINE s == [sess[b] EXCEPT !.try.smsSent = TRUE]
  <2>1. sess' = [sess EXCEPT ![b] = s]
    BY <1>9 DEF RecoverySmsSent
  <2>2. s \in Session
    BY SessionFields DEF Session
  <2> HIDE DEF s
  <2>3. sess' \in [Browser -> Session]
    BY <2>1, <2>2, SessionFields
  <2> QED BY <1>9, <2>3, SaveEffect, RequestFields DEF RecoverySmsSent, TypeOK
<1>10. CASE CheckLockout(b)
  <2>1. CASE Drop(b)
    BY <1>10, <2>1, DropEffect DEF CheckLockout, TypeOK
  <2>2. CASE ~Drop(b)
    <3> DEFINE q == [req[b] EXCEPT !.at = "save", !.ok = SmsMatches(req[b].snap, req[b].input)]
    <3>1. SmsMatches(req[b].snap, req[b].input) \in BOOLEAN
      BY DEF SmsMatches
    <3>2. req' = [req EXCEPT ![b] = q]
      BY <1>10, <2>2 DEF CheckLockout
    <3>3. q \in Request /\ q.op = req[b].op /\ q.input = req[b].input
      BY <3>1, RequestFields DEF Request
    <3> HIDE DEF q
    <3>4. req' \in [Browser -> Request] /\ req'[b] = q /\ \A x \in Browser : x # b => req'[x] = req[x]
      BY <3>2, <3>3 DEF TypeOK
    <3> QED BY <1>10, <3>3, <3>4 DEF CheckLockout, TypeOK
  <2> QED BY <2>1, <2>2
<1>11. CASE SmsRefused(b)
  <2>1. RecordFailure(req[b].snap) \in Document
    BY <1>0, RequestFields, FailuresType
  <2> QED BY <1>11, <2>1, <1>0, SaveEffect, OutcomeType DEF SmsRefused, TypeOK
<1>12. CASE SmsAccepted(b)
  <2> DEFINE d == [req[b].snap EXCEPT !.sms = 0, !.smsExp = 0]
  <2>1. d \in Document
    BY <1>0, RequestFields, Moments DEF Document
  <2> HIDE DEF d
  <2>2. SetLastRecovered(ClearLockout(d)) \in Document
    BY <1>0, <2>1, FailuresType
  <2>3. Save(b, SetLastRecovered(ClearLockout(d)))
    BY <1>12 DEF SmsAccepted, d
  <2> QED BY <1>12, <2>2, <2>3, SaveEffect, OutcomeType, SignInEffect, RequestFields, ZenonT(40) DEF SmsAccepted, TypeOK
<1>13. CASE ProcessRecoverySecondaryEmail(b)
  <2> DEFINE s == [sess[b] EXCEPT !.code = issued + 1, !.codeExp = now + CodeTicks]
  <2>1. issued + 1 \in Code /\ now + CodeTicks \in Time
    BY <1>13, <1>0, Moments DEF ProcessRecoverySecondaryEmail
  <2>2. sess' = [sess EXCEPT ![b] = s]
    BY <1>13 DEF ProcessRecoverySecondaryEmail
  <2>3. s \in Session
    BY <2>1, SessionFields DEF Session
  <2> HIDE DEF s
  <2>4. sess' \in [Browser -> Session]
    BY <2>2, <2>3, SessionFields
  <2> QED BY <1>13, <2>1, <2>4 DEF ProcessRecoverySecondaryEmail, TypeOK
<1>14. CASE ForgetEmailCode(b)
  <2> DEFINE s == [sess[b] EXCEPT !.code = 0, !.codeExp = 0]
  <2>1. sess' = [sess EXCEPT ![b] = s]
    BY <1>14 DEF ForgetEmailCode
  <2>2. s \in Session
    BY <1>0, Moments, SessionFields DEF Session
  <2> HIDE DEF s
  <2>3. sess' \in [Browser -> Session]
    BY <2>1, <2>2, SessionFields
  <2> QED BY <1>14, <2>3 DEF ForgetEmailCode, TypeOK
<1>15. CASE RereadUser(b)
  <2>1. Started(b, "emailCode", "save", doc, req[b].input)
    BY <1>15, Starts
  <2> QED BY <1>15, <2>1 DEF Started, RereadUser, TypeOK
<1>16. CASE EmailCodeRefused(b)
  <2>1. RecordFailure(req[b].snap) \in Document
    BY <1>0, RequestFields, FailuresType
  <2> QED BY <1>16, <2>1, <1>0, SaveEffect, OutcomeType DEF EmailCodeRefused, TypeOK
<1>17. CASE EmailCodeAccepted(b)
  <2>1. SetLastRecovered(ClearLockout(req[b].snap)) \in Document
    BY <1>0, FailuresType, RequestFields
  <2> QED BY <1>17, <2>1, SaveEffect, OutcomeType, SignInEffect, RequestFields DEF EmailCodeAccepted, TypeOK
<1>18. CASE \E right \in BOOLEAN : ProcessRecoverySecurityQuestions(b, right)
  <2>1. Started(b, "questions", "save", doc, 0)
    BY <1>18, Starts
  <2> QED BY <1>18, <2>1 DEF Started, ProcessRecoverySecurityQuestions, TypeOK
<1>19. CASE AnswersRefused(b)
  <2>1. RecordSqFailure(req[b].snap) \in Document
    BY <1>0, RequestFields, FailuresType
  <2> QED BY <1>19, <2>1, <1>0, SaveEffect, OutcomeType DEF AnswersRefused, TypeOK
<1>20. CASE AnswersAccepted(b)
  <2>1. SetLastRecovered(ClearSqLockout(req[b].snap)) \in Document
    BY <1>0, FailuresType, RequestFields
  <2> QED BY <1>20, <1>0, <2>1, SaveEffect, OutcomeType, SignInEffect DEF AnswersAccepted, TypeOK
<1> QED BY <1>1, <1>2, <1>3, <1>4, <1>5, <1>6, <1>7, <1>8, <1>9, <1>10, <1>11, <1>12, <1>13, <1>14, <1>15, <1>16, <1>17, <1>18, <1>19, <1>20 DEF Recover

\* Every step of the settings keeps the types.
LEMMA SettingsTypes == ASSUME TypeOK, NEW b \in Browser, Settings(b) PROVE TypeOK'
<1> USE DEF history, outcome
<1>0. /\ now \in 1..MaxTime /\ 0 \in Code /\ 0 \in Time /\ 0 \in Nat /\ doc \in Document /\ issued \in Code
      /\ \A n \in Nat : issued + n <= MaxCode => issued + n \in Code
      /\ CodesPerBatch \in Nat
  BY Constants DEF TypeOK, Code, Time
<1>1. CASE OpenSettings(b, "regenerate", "backup_codes" \in on, CodesPerBatch)
  <2>1. Started(b, "regenerate", "save", doc, issued + CodesPerBatch)
    BY <1>1, Starts
  <2> QED BY <1>0, <1>1, <2>1 DEF Started, OpenSettings, TypeOK
<1>2. CASE RegenerateBackupCodes(b)
  <2> DEFINE last == req[b].input
             batch == (last - CodesPerBatch + 1)..last
             m == req[b].snap.methods \cup {"backup_codes"}
             d == [req[b].snap EXCEPT !.methods = m, !.codes = batch, !.codesExp = now + BackupTicks]
  <2>1. last \in Code /\ last >= CodesPerBatch
    BY <1>2, RequestFields DEF RegenerateBackupCodes, At, TypeOK
  <2>2. batch \subseteq Code /\ now + BackupTicks \in Time
    BY <1>0, <2>1, Constants, Moments DEF Code
  <2>3. m \subseteq Method
    BY RequestFields DEF Document, Method
  <2>4. Save(b, d)
    BY <1>2 DEF RegenerateBackupCodes
  <2> HIDE DEF last, batch, m
  <2>5. d \in Document
    BY <2>2, <2>3, RequestFields DEF Document
  <2> HIDE DEF d
  <2> QED BY <1>2, <2>4, <2>5, SaveEffect DEF RegenerateBackupCodes, TypeOK
<1>3. CASE OpenSettings(b, "address", "secondary_email" \in on, 1)
  <2>1. Started(b, "address", "save", doc, issued + 1)
    BY <1>3, Starts
  <2> QED BY <1>0, <1>3, <2>1 DEF Started, OpenSettings, TypeOK
<1>4. CASE EnableSecondaryEmail(b)
  <2> DEFINE m == req[b].snap.methods \cup {"secondary_email"}
             d == [req[b].snap EXCEPT !.methods = m, !.addr = req[b].input, !.verified = FALSE,
                                      !.addrExp = now + CodeTicks]
  <2>1. m \subseteq Method /\ now + CodeTicks \in Time
    BY <1>0, RequestFields, Moments DEF Document, Method
  <2>2. Save(b, d)
    BY <1>4 DEF EnableSecondaryEmail
  <2> HIDE DEF m
  <2>3. d \in Document
    BY <2>1, RequestFields DEF Document
  <2> HIDE DEF d
  <2> QED BY <1>4, <2>2, <2>3, SaveEffect DEF EnableSecondaryEmail, TypeOK
<1>5. CASE OpenSettings(b, "setQuestions", "security_questions" \in on, 0)
  <2>1. Started(b, "setQuestions", "save", doc, issued)
    BY <1>5, Starts
  <2> QED BY <1>0, <1>5, <2>1 DEF Started, OpenSettings, TypeOK
<1>6. CASE SaveSecurityQuestions(b)
  <2> DEFINE m == req[b].snap.methods \cup {"security_questions"}
             d == [req[b].snap EXCEPT !.methods = m, !.questions = TRUE, !.sqFailed = 0, !.sqLocked = 0]
  <2>1. m \subseteq Method
    BY RequestFields DEF Document, Method
  <2>2. Save(b, d)
    BY <1>6 DEF SaveSecurityQuestions
  <2> HIDE DEF m
  <2>3. d \in Document
    BY <1>0, <2>1, RequestFields DEF Document
  <2> HIDE DEF d
  <2> QED BY <1>0, <1>6, <2>2, <2>3, SaveEffect, OutcomeType DEF SaveSecurityQuestions, TypeOK
<1>7. CASE OpenSettings(b, "disable", TRUE, 0)
  <2>1. Started(b, "disable", "save", doc, issued)
    BY <1>7, Starts
  <2> QED BY <1>0, <1>7, <2>1 DEF Started, OpenSettings, TypeOK
<1>8. CASE \E m \in Method : DisableRecovery(b, m)
  <2>1. PICK m \in Method : DisableRecovery(b, m)
    BY <1>8
  <2> DEFINE e == Without(req[b].snap, m)
             all == e.methods = {}
             d == IF all THEN NoRecovery ELSE e
             w == [k \in DOMAIN wrong |-> IF all \/ (k = "answers" /\ m = "security_questions")
                                            THEN << >> ELSE wrong[k]]
  <2>2. d \in Document
    BY RequestFields, WithoutKeeps, NoRecoveryType
  <2>3. Save(b, d) /\ wiped' = (wiped \/ all) /\ wrong' = w
    BY <2>1 DEF DisableRecovery
  <2> HIDE DEF e
  <2>4. wiped' \in BOOLEAN
    BY <2>3 DEF TypeOK
  <2> HIDE DEF all, d
  <2>5. w \in [{"code", "answers"} -> Seq(1..MaxTime)]
    <3>1. << >> \in Seq(1..MaxTime)
      OBVIOUS
    <3> QED BY <3>1 DEF TypeOK
  <2> HIDE DEF w
  <2>6. UNCHANGED <<on, sess, issued, now, accepted, reused, recovered, early>>
    BY <2>1 DEF DisableRecovery
  <2> QED BY <2>2, <2>3, <2>4, <2>5, <2>6, SaveEffect DEF TypeOK
<1>9. CASE \E c \in Code : OpenVerificationLink(b, c)
  <2>1. PICK c \in Code : OpenVerificationLink(b, c)
    BY <1>9
  <2>2. Started(b, "link", "save", doc, c)
    BY <2>1, Starts
  <2> QED BY <2>1, <2>2 DEF Started, OpenVerificationLink, TypeOK
<1>10. CASE VerifyRecoveryEmail(b)
  <2> DEFINE d == [req[b].snap EXCEPT !.verified = TRUE, !.addrExp = 0]
  <2>1. Save(b, d)
    BY <1>10 DEF VerifyRecoveryEmail
  <2>2. d \in Document
    BY <1>0, RequestFields DEF Document
  <2> HIDE DEF d
  <2> QED BY <1>10, <2>1, <2>2, SaveEffect DEF VerifyRecoveryEmail, TypeOK
<1>11. CASE \E r \in Route : ChangeCredential(b, r)
  BY <1>11 DEF ChangeCredential, TypeOK
<1> QED BY <1>1, <1>2, <1>3, <1>4, <1>5, <1>6, <1>7, <1>8, <1>9, <1>10, <1>11 DEF Settings

LEMMA InitTypes == ASSUME Init PROVE TypeOK
<1> DEFINE batch == IF "backup_codes" \in on THEN CodesPerBatch ELSE 0
           mail == IF "secondary_email" \in on THEN 1 ELSE 0
           exp == IF batch = 0 THEN 0 ELSE 1 + BackupTicks
           ver == mail = 1
           sq == "security_questions" \in on
           d == [NoRecovery EXCEPT !.methods = on \ {"sms"}, !.codes = 1..batch, !.codesExp = exp,
                                   !.addr = mail * (batch + mail), !.verified = ver, !.questions = sq]
<1>1. on \subseteq Method
  BY Constants DEF Init
<1>2. /\ batch \in Nat /\ batch < MaxCode /\ mail \in {0, 1} /\ batch + mail \in Code
      /\ mail * (batch + mail) \in Code /\ 1..batch \subseteq Code
  BY Constants DEF Code
<1>3. exp \in Time
  BY Constants DEF Time
<1>4. doc = d /\ issued = batch + mail
  BY DEF Init
<1>5. ver \in BOOLEAN /\ sq \in BOOLEAN
  OBVIOUS
<1> HIDE DEF batch, mail, exp, ver, sq
<1>6. d \in Document
  BY <1>1, <1>2, <1>3, <1>5, NoRecoveryType DEF Document
<1> HIDE DEF d
<1>7. sess \in [Browser -> Session]
  <2>1. NoSession \in Session
    BY Constants DEF NoSession, NoAttempt, Session, Code, Time
  <2>2. ASSUME NEW b \in Browser PROVE [NoSession EXCEPT !.auth = b \in Owner] \in Session
    <3> DEFINE a == b \in Owner
    <3>1. a \in BOOLEAN
      OBVIOUS
    <3> HIDE DEF a
    <3>2. [NoSession EXCEPT !.auth = a] \in Session
      BY <2>1, <3>1 DEF Session
    <3> QED BY <3>2 DEF a
  <2> QED BY <2>2 DEF Init
<1>8. req \in [Browser -> Request] /\ \A b \in Browser : req[b].op # "regenerate"
  BY IdleType DEF Init
<1>9. now \in 1..MaxTime /\ recovered \in Time
  BY Constants DEF Init, Time
<1>10. wrong \in [{"code", "answers"} -> Seq(1..MaxTime)]
  BY DEF Init
<1>11. accepted = {} /\ reused = {} /\ {wiped, undated, stale} \subseteq BOOLEAN /\ early \subseteq Route
  BY DEF Init
<1> QED BY <1>1, <1>2, <1>4, <1>6, <1>7, <1>8, <1>9, <1>10, <1>11 DEF TypeOK

LEMMA NextTypes == ASSUME TypeOK, [Next]_vars PROVE TypeOK'
<1>1. CASE Tick
  <2>1. now' \in 1..MaxTime
    BY <1>1, Constants DEF Tick, TypeOK
  <2> QED BY <1>1, <2>1 DEF Tick, TypeOK, history, outcome
<1>2. ASSUME NEW b \in Browser, Abandon(b) PROVE TypeOK'
  BY <1>2, DropEffect DEF Abandon, TypeOK, history, outcome
<1>3. CASE UNCHANGED vars
  BY <1>3 DEF vars, history, outcome, TypeOK
<1> QED BY <1>1, <1>2, <1>3, RecoverTypes, SettingsTypes DEF Next

\* The row, the sessions and the requests keep their types whatever is submitted,
\* and every number that becomes a code has been given out within the bound.
THEOREM RecoveryTypesHold == Spec => []TypeOK
BY InitTypes, NextTypes, PTL DEF Spec

-----------------------------------------------------------------------------
(* The steps by what they do to the codes.                                 *)

\* Steps that write nothing and make up no code.
Looks(b) ==
    \/ ProcessAccountRecovery(b) \/ \E m \in Method : ProcessRecoveryMethodSelect(b, m)
    \/ \E c \in 0..issued : \/ ProcessRecoveryBackupCodes(b, c)
                            \/ VerifyRecoverySms(b, c)
                            \/ VerifyRecoveryEmailCode(b, c)
    \/ CheckLockout(b) \/ ForgetEmailCode(b) \/ RereadUser(b)
    \/ \E right \in BOOLEAN : ProcessRecoverySecurityQuestions(b, right)
    \/ OpenSettings(b, "address", "secondary_email" \in on, 1)
    \/ OpenSettings(b, "setQuestions", "security_questions" \in on, 0)
    \/ OpenSettings(b, "disable", TRUE, 0)
    \/ \E c \in Code : OpenVerificationLink(b, c)
    \/ (\E r \in Route : ChangeCredential(b, r)) \/ Abandon(b)

\* Steps that make up codes.
MakesUp(b) ==
    \/ SendRecoverySms(b) \/ ProcessRecoverySecondaryEmail(b)
    \/ OpenSettings(b, "regenerate", "backup_codes" \in on, CodesPerBatch)

\* Steps that write the document without a new code and without a recovery.
Writes(b) ==
    \/ BackupRefused(b) \/ SmsRefused(b) \/ EmailCodeRefused(b) \/ AnswersRefused(b)
    \/ EnableSecondaryEmail(b) \/ SaveSecurityQuestions(b) \/ VerifyRecoveryEmail(b)
    \/ \E m \in Method : DisableRecovery(b, m)

\* Steps that recover the account.
Recovers(b) == BackupAccepted(b) \/ SmsAccepted(b) \/ EmailCodeAccepted(b) \/ AnswersAccepted(b)

\* Steps that store new codes.
Stores(b) == RecoverySmsSent(b) \/ RegenerateBackupCodes(b)

LEMMA StepKinds ==
    ASSUME Next
    PROVE  \/ Tick
           \/ \E b \in Browser : Looks(b) \/ MakesUp(b) \/ Writes(b) \/ Recovers(b) \/ Stores(b)
BY DEF Next, Recover, Settings, Looks, MakesUp, Writes, Recovers, Stores

LEMMA UnsavedCases ==
    ASSUME NEW b \in Browser
    PROVE  /\ req[b].op = "sms" => Unsaved(b) = {req[b].snap.sms}
           /\ req[b].op = "regenerate" => Unsaved(b) = (req[b].input - CodesPerBatch + 1)..req[b].input
           /\ req[b].op \notin {"sms", "regenerate"} => Unsaved(b) = {}
           /\ req'[b].op = "sms" => Unsaved(b)' = {req'[b].snap.sms}
           /\ req'[b].op = "regenerate" => Unsaved(b)' = (req'[b].input - CodesPerBatch + 1)..req'[b].input
           /\ req'[b].op \notin {"sms", "regenerate"} => Unsaved(b)' = {}
           /\ req'[b] = req[b] => Unsaved(b)' = Unsaved(b)
BY DEF Unsaved

\* A write ends one request; the codes of the others are where they were.
LEMMA SaveUnsaved ==
    ASSUME TypeOK, NEW b \in Browser, NEW d \in Document, Save(b, d)
    PROVE  \A x \in Browser : Unsaved(x)' \subseteq Unsaved(x) /\ (x = b => Unsaved(x)' = {})
<1> TAKE x \in Browser
<1>1. CASE req'[x] = Idle
  BY <1>1, UnsavedCases, IdleType
<1>2. CASE req'[x] # Idle
  <2>1. /\ req'[x].op = req[x].op /\ req'[x].snap = req[x].snap /\ req'[x].input = req[x].input
        /\ x # b
    BY <1>2, SaveEffect
  <2> QED BY <2>1 DEF Unsaved
<1> QED BY <1>1, <1>2

\* Nothing new: codes may leave the document and the sessions, none comes.
LEMMA NoNewCodes ==
    ASSUME TypeOK, CodesApart, accepted' = accepted, issued' \in Nat, issued <= issued',
           doc'.codes \subseteq doc.codes, doc'.sms \in {0, doc.sms},
           \A x \in Browser : sess'[x].code \in {0, sess[x].code} /\ Unsaved(x)' \subseteq Unsaved(x)
    PROVE  CodesApart'
<1>1. Stored' \subseteq Stored /\ 0 \notin doc.codes /\ doc'.sms \notin doc'.codes
  BY DEF CodesApart, Stored, TypeOK, Code
<1>2. \A x \in Browser : Sent(x)' \subseteq Sent(x)
  BY DEF Sent
<1>3. 1..issued \subseteq 1..issued'
  BY DEF TypeOK, Code
<1> QED BY <1>1, <1>2, <1>3 DEF CodesApart

-----------------------------------------------------------------------------
(* What the steps of each kind do.                                         *)

\* A copy that is up to date is the document.
LEMMA FreshCopy ==
    ASSUME TypeOK, CopiesAgree, NEW b \in Browser, req[b].fresh, req[b].op # "none"
    PROVE  /\ req[b].op # "sms" => req[b].snap = doc
           /\ req[b].op = "sms" => req[b].snap.codes = doc.codes /\ req[b].snap.last = doc.last
<1>1. req[b].op # "sms" => req[b].snap = doc
  BY DEF CopiesAgree, Agrees
<1>2. req[b].op = "sms" =>
        req[b].snap = [doc EXCEPT !.sms = req[b].snap.sms, !.smsExp = req[b].snap.smsExp]
  BY DEF CopiesAgree, Agrees
<1>3. CASE req[b].op = "sms"
  <2> DEFINE x == req[b].snap.sms
             y == req[b].snap.smsExp
  <2>1. req[b].snap = [doc EXCEPT !.sms = x, !.smsExp = y]
    BY <1>2, <1>3
  <2> HIDE DEF x, y
  <2>2. [doc EXCEPT !.sms = x, !.smsExp = y].codes = doc.codes /\ [doc EXCEPT !.sms = x, !.smsExp = y].last = doc.last
    BY DEF TypeOK, Document
  <2> QED BY <1>3, <2>1, <2>2
<1> QED BY <1>1, <1>3

\* Looking changes neither the document nor the history, and no code comes up.
LEMMA LooksEffect ==
    ASSUME TypeOK, NEW b \in Browser, Looks(b)
    PROVE  /\ doc' = doc /\ issued' \in Nat /\ issued <= issued'
           /\ UNCHANGED <<accepted, reused, recovered, wiped, undated, stale>>
           /\ \A x \in Browser : sess'[x].code \in {0, sess[x].code} /\ Unsaved(x)' \subseteq Unsaved(x)
<1> USE DEF history, outcome
<1>0. issued \in Nat /\ \A c \in 0..issued : c \in Code
  BY Constants DEF TypeOK, Code
<1>1. doc' = doc /\ UNCHANGED <<accepted, reused, recovered, wiped, undated, stale>>
  BY DEF Looks, ProcessAccountRecovery, ProcessRecoveryMethodSelect, ProcessRecoveryBackupCodes,
     VerifyRecoverySms, VerifyRecoveryEmailCode, CheckLockout, ForgetEmailCode, RereadUser,
     ProcessRecoverySecurityQuestions, OpenSettings, OpenVerificationLink, ChangeCredential, Abandon
<1>2. issued' \in {issued, issued + 0, issued + 1}
  BY DEF Looks, ProcessAccountRecovery, ProcessRecoveryMethodSelect, ProcessRecoveryBackupCodes,
     VerifyRecoverySms, VerifyRecoveryEmailCode, CheckLockout, ForgetEmailCode, RereadUser,
     ProcessRecoverySecurityQuestions, OpenSettings, OpenVerificationLink, ChangeCredential, Abandon
<1>3. \A x \in Browser : sess'[x].code \in {0, sess[x].code}
  <2>1. CASE ProcessAccountRecovery(b)
    BY <2>1, SessionFields DEF ProcessAccountRecovery, TypeOK, Session
  <2>2. CASE \E m \in Method : ProcessRecoveryMethodSelect(b, m)
    BY <2>2, SessionFields DEF ProcessRecoveryMethodSelect, TypeOK, Session
  <2>3. CASE ForgetEmailCode(b)
    BY <2>3, SessionFields DEF ForgetEmailCode, TypeOK, Session
  <2>4. CASE sess' = sess
    BY <2>4
  <2>5. \/ ProcessAccountRecovery(b) \/ (\E m \in Method : ProcessRecoveryMethodSelect(b, m))
        \/ ForgetEmailCode(b) \/ sess' = sess
    BY DEF Looks, ProcessRecoveryBackupCodes, VerifyRecoverySms, VerifyRecoveryEmailCode, CheckLockout,
       RereadUser, ProcessRecoverySecurityQuestions, OpenSettings, OpenVerificationLink,
       ChangeCredential, Abandon
  <2> QED BY <2>1, <2>2, <2>3, <2>4, <2>5
<1>4. \A x \in Browser : Unsaved(x)' \subseteq Unsaved(x)
  <2>1. ASSUME NEW at, NEW c, NEW op, op \notin {"sms", "regenerate"}, Started(b, op, at, doc, c)
        PROVE  \A x \in Browser : Unsaved(x)' \subseteq Unsaved(x)
    BY <2>1, UnsavedCases DEF Started
  <2>2. CASE \E c \in 0..issued : ProcessRecoveryBackupCodes(b, c)
    <3>1. PICK c \in Code : ProcessRecoveryBackupCodes(b, c)
      BY <1>0, <2>2
    <3>2. Started(b, "backup", "save", doc, c)
      BY <3>1, Starts
    <3> QED BY <2>1, <3>2
  <2>3. CASE \E c \in 0..issued : VerifyRecoverySms(b, c)
    <3>1. PICK c \in Code : VerifyRecoverySms(b, c)
      BY <1>0, <2>3
    <3>2. Started(b, "smsCode", "lockout", doc, c)
      BY <3>1, Starts
    <3> QED BY <2>1, <3>2
  <2>4. CASE \E c \in 0..issued : VerifyRecoveryEmailCode(b, c)
    <3>1. PICK c \in Code : VerifyRecoveryEmailCode(b, c)
      BY <1>0, <2>4
    <3>2. Started(b, "emailCode", "reread", doc, c) \/ Started(b, "emailCode", "save", doc, c)
      BY <3>1, Starts
    <3> QED BY <2>1, <3>2
  <2>5. CASE RereadUser(b)
    <3>1. Started(b, "emailCode", "save", doc, req[b].input)
      BY <2>5, Starts
    <3> QED BY <2>1, <3>1
  <2>6. CASE \E right \in BOOLEAN : ProcessRecoverySecurityQuestions(b, right)
    <3>1. Started(b, "questions", "save", doc, 0)
      BY <2>6, Starts
    <3> QED BY <2>1, <3>1
  <2>7. CASE OpenSettings(b, "address", "secondary_email" \in on, 1)
    <3>1. Started(b, "address", "save", doc, issued + 1)
      BY <2>7, Starts
    <3> QED BY <2>1, <3>1
  <2>8. CASE OpenSettings(b, "setQuestions", "security_questions" \in on, 0)
    <3>1. Started(b, "setQuestions", "save", doc, issued)
      BY <2>8, Starts
    <3> QED BY <2>1, <3>1
  <2>9. CASE OpenSettings(b, "disable", TRUE, 0)
    <3>1. Started(b, "disable", "save", doc, issued)
      BY <2>9, Starts
    <3> QED BY <2>1, <3>1
  <2>10. CASE \E c \in Code : OpenVerificationLink(b, c)
    <3>1. PICK c \in Code : OpenVerificationLink(b, c)
      BY <2>10
    <3>2. Started(b, "link", "save", doc, c)
      BY <3>1, Starts
    <3> QED BY <2>1, <3>2
  <2>11. CASE Drop(b)
    BY <2>11, DropEffect, UnsavedCases, IdleType
  <2>12. CASE CheckLockout(b) /\ ~Drop(b)
    <3>1. req'[b].op = req[b].op /\ req'[b].snap = req[b].snap /\ req'[b].input = req[b].input
      BY <2>12, RequestFields DEF CheckLockout, TypeOK, Request
    <3>2. \A x \in Browser : x # b => req'[x] = req[x]
      BY <2>12 DEF CheckLockout, TypeOK
    <3> QED BY <3>1, <3>2 DEF Unsaved
  <2>13. CASE req' = req
    BY <2>13, UnsavedCases
  <2>14. req' = req \/ Drop(b) \/ ~(ProcessAccountRecovery(b) \/ (\E m \in Method : ProcessRecoveryMethodSelect(b, m))
                        \/ ForgetEmailCode(b) \/ (\E r \in Route : ChangeCredential(b, r)) \/ Abandon(b))
    BY DEF ProcessAccountRecovery, ProcessRecoveryMethodSelect, ForgetEmailCode, ChangeCredential, Abandon
  <2> QED BY <2>2, <2>3, <2>4, <2>5, <2>6, <2>7, <2>8, <2>9, <2>10, <2>11, <2>12, <2>13, <2>14 DEF Looks
<1>5. issued' \in Nat /\ issued <= issued'
  BY <1>0, <1>2
<1> QED BY <1>1, <1>3, <1>4, <1>5

\* What a write without a new code and without a recovery stores: its copy, perhaps
\* without some codes, or nothing at all.
LEMMA PlainDocument ==
    ASSUME TypeOK, NEW b \in Browser, Writes(b)
    PROVE  \E d \in Document :
             /\ Save(b, d) /\ req[b].op \notin {"none", "sms", "regenerate"}
             /\ d.codes \subseteq req[b].snap.codes /\ d.sms \in {0, req[b].snap.sms}
             /\ d.last = req[b].snap.last \/ (wiped' /\ d.last = 0)
<1> DEFINE e == req[b].snap
           Goal(d) == /\ Save(b, d) /\ req[b].op \notin {"none", "sms", "regenerate"}
                      /\ d.codes \subseteq e.codes /\ d.sms \in {0, e.sms}
                      /\ d.last = e.last \/ (wiped' /\ d.last = 0)
<1>0. e \in Document /\ now \in 1..MaxTime
  BY RequestFields DEF TypeOK
<1>1. CASE BackupRefused(b) \/ SmsRefused(b) \/ EmailCodeRefused(b)
  <2>1. RecordFailure(e) \in Document
    BY <1>0, FailuresType
  <2>2. Goal(RecordFailure(e))
    BY <1>0, <1>1, FailuresKeep DEF BackupRefused, SmsRefused, EmailCodeRefused, At
  <2> QED BY <2>1, <2>2
<1>2. CASE AnswersRefused(b)
  <2>1. RecordSqFailure(e) \in Document
    BY <1>0, FailuresType
  <2>2. Goal(RecordSqFailure(e))
    BY <1>0, <1>2, FailuresKeep DEF AnswersRefused, At
  <2> QED BY <2>1, <2>2
<1>3. CASE EnableSecondaryEmail(b)
  <2> DEFINE m == e.methods \cup {"secondary_email"}
             d == [e EXCEPT !.methods = m, !.addr = req[b].input, !.verified = FALSE,
                            !.addrExp = now + CodeTicks]
  <2>1. m \subseteq Method /\ now + CodeTicks \in Time
    BY <1>0, Moments DEF Document, Method
  <2>2. Save(b, d) /\ req[b].op = "address"
    BY <1>3 DEF EnableSecondaryEmail, At
  <2> HIDE DEF m, e
  <2>3. d \in Document /\ d.codes = e.codes /\ d.sms = e.sms /\ d.last = e.last
    BY <1>0, <2>1, RequestFields DEF Document
  <2> HIDE DEF d
  <2> QED BY <2>2, <2>3 DEF e
<1>4. CASE SaveSecurityQuestions(b)
  <2> DEFINE m == e.methods \cup {"security_questions"}
             d == [e EXCEPT !.methods = m, !.questions = TRUE, !.sqFailed = 0, !.sqLocked = 0]
  <2>1. m \subseteq Method /\ 0 \in Time
    BY <1>0, Moments DEF Document, Method
  <2>2. Save(b, d) /\ req[b].op = "setQuestions"
    BY <1>4 DEF SaveSecurityQuestions, At
  <2> HIDE DEF m, e
  <2>3. d \in Document /\ d.codes = e.codes /\ d.sms = e.sms /\ d.last = e.last
    BY <1>0, <2>1 DEF Document
  <2> HIDE DEF d
  <2> QED BY <2>2, <2>3 DEF e
<1>5. CASE VerifyRecoveryEmail(b)
  <2> DEFINE d == [e EXCEPT !.verified = TRUE, !.addrExp = 0]
  <2>1. Save(b, d) /\ req[b].op = "link"
    BY <1>5 DEF VerifyRecoveryEmail, At
  <2> HIDE DEF e
  <2>2. d \in Document /\ d.codes = e.codes /\ d.sms = e.sms /\ d.last = e.last
    BY <1>0, Moments DEF Document
  <2> HIDE DEF d
  <2> QED BY <2>1, <2>2 DEF e
<1>6. CASE \E m \in Method : DisableRecovery(b, m)
  <2>1. PICK m \in Method : DisableRecovery(b, m)
    BY <1>6
  <2> DEFINE f == Without(e, m)
             all == f.methods = {}
             d == IF all THEN NoRecovery ELSE f
  <2>2. Save(b, d) /\ req[b].op = "disable" /\ wiped' = (wiped \/ all)
    BY <2>1 DEF DisableRecovery, At
  <2>3. f \in Document /\ f.codes \subseteq e.codes /\ f.sms \in {0, e.sms} /\ f.last = e.last
    BY <1>0, WithoutKeeps
  <2>4. NoRecovery \in Document /\ NoRecovery.codes = {} /\ NoRecovery.sms = 0 /\ NoRecovery.last = 0
    BY NoRecoveryType DEF NoRecovery
  <2> HIDE DEF f
  <2>5. /\ d \in Document /\ d.codes \subseteq e.codes /\ d.sms \in {0, e.sms}
        /\ d.last = e.last \/ (wiped' /\ d.last = 0)
    BY <2>2, <2>3, <2>4
  <2> HIDE DEF d
  <2> QED BY <2>2, <2>5
<1> QED BY <1>1, <1>2, <1>3, <1>4, <1>5, <1>6 DEF Writes

\* What a recovery stores: its copy, dated, without the code that was used.
LEMMA RecoveryDocument ==
    ASSUME TypeOK, NEW b \in Browser, Recovers(b)
    PROVE  \E d \in Document :
             /\ Save(b, d) /\ req[b].op \notin {"none", "sms", "regenerate"}
             /\ d.last = now
             /\ d.codes = IF BackupAccepted(b) THEN req[b].snap.codes \ {req[b].input}
                          ELSE req[b].snap.codes
             /\ d.sms = IF SmsAccepted(b) THEN 0 ELSE req[b].snap.sms
<1> DEFINE e == req[b].snap
<1>0. e \in Document /\ now \in 1..MaxTime
  BY RequestFields DEF TypeOK
<1>1. /\ BackupAccepted(b) => req[b].op = "backup"
      /\ SmsAccepted(b) => req[b].op = "smsCode"
      /\ EmailCodeAccepted(b) => req[b].op = "emailCode"
      /\ AnswersAccepted(b) => req[b].op = "questions"
  BY DEF BackupAccepted, SmsAccepted, EmailCodeAccepted, AnswersAccepted, At
<1>2. \A d \in Document :
        LET r == SetLastRecovered(ClearLockout(d))
        IN  r \in Document /\ r.codes = d.codes /\ r.sms = d.sms /\ r.last = now
  BY <1>0, FailuresType, FailuresKeep
<1>3. LET r == SetLastRecovered(ClearSqLockout(e))
      IN  r \in Document /\ r.codes = e.codes /\ r.sms = e.sms /\ r.last = now
  BY <1>0, FailuresType, FailuresKeep
<1>4. CASE BackupAccepted(b)
  <2> DEFINE d == [e EXCEPT !.codes = @ \ {req[b].input}]
  <2>1. Save(b, SetLastRecovered(ClearLockout(d)))
    BY <1>4 DEF BackupAccepted
  <2>2. d \in Document /\ d.codes = e.codes \ {req[b].input} /\ d.sms = e.sms
    BY <1>0 DEF Document
  <2> HIDE DEF d
  <2>3. ~SmsAccepted(b)
    BY <1>1, <1>4
  <2> QED BY <1>1, <1>2, <1>4, <2>1, <2>2, <2>3
<1>5. CASE SmsAccepted(b)
  <2> DEFINE d == [e EXCEPT !.sms = 0, !.smsExp = 0]
  <2>1. Save(b, SetLastRecovered(ClearLockout(d)))
    BY <1>5 DEF SmsAccepted
  <2>2. 0 \in Code /\ 0 \in Time
    BY Constants DEF Code, Time
  <2>3. d \in Document /\ d.codes = e.codes /\ d.sms = 0
    BY <1>0, <2>2 DEF Document
  <2> HIDE DEF d
  <2>4. ~BackupAccepted(b)
    BY <1>1, <1>5
  <2> QED BY <1>1, <1>2, <1>5, <2>1, <2>3, <2>4
<1>6. CASE EmailCodeAccepted(b)
  <2>1. Save(b, SetLastRecovered(ClearLockout(e))) /\ ~BackupAccepted(b) /\ ~SmsAccepted(b)
    BY <1>1, <1>6 DEF EmailCodeAccepted
  <2> QED BY <1>0, <1>1, <1>2, <1>6, <2>1
<1>7. CASE AnswersAccepted(b)
  <2>1. Save(b, SetLastRecovered(ClearSqLockout(e))) /\ ~BackupAccepted(b) /\ ~SmsAccepted(b)
    BY <1>1, <1>7 DEF AnswersAccepted
  <2> QED BY <1>1, <1>3, <1>7, <2>1
<1> QED BY <1>4, <1>5, <1>6, <1>7 DEF Recovers

\* What the steps that store new codes write.
LEMMA StoredDocument ==
    ASSUME TypeOK, NEW b \in Browser
    PROVE  /\ RecoverySmsSent(b) => Save(b, req[b].snap) /\ req[b].op = "sms"
           /\ RegenerateBackupCodes(b) =>
                \E d \in Document :
                    /\ Save(b, d) /\ req[b].op = "regenerate"
                    /\ d.codes = (req[b].input - CodesPerBatch + 1)..req[b].input
                    /\ d.sms = req[b].snap.sms /\ d.last = req[b].snap.last
<1>1. RecoverySmsSent(b) => Save(b, req[b].snap) /\ req[b].op = "sms"
  BY DEF RecoverySmsSent, At
<1>2. ASSUME RegenerateBackupCodes(b)
      PROVE  \E d \in Document :
                /\ Save(b, d) /\ req[b].op = "regenerate"
                /\ d.codes = (req[b].input - CodesPerBatch + 1)..req[b].input
                /\ d.sms = req[b].snap.sms /\ d.last = req[b].snap.last
  <2> DEFINE last == req[b].input
             e == req[b].snap
             batch == (last - CodesPerBatch + 1)..last
             m == e.methods \cup {"backup_codes"}
             d == [e EXCEPT !.methods = m, !.codes = batch, !.codesExp = now + BackupTicks]
  <2>1. last \in Code /\ last >= CodesPerBatch /\ e \in Document /\ now \in 1..MaxTime
    BY <1>2, RequestFields DEF RegenerateBackupCodes, At, TypeOK
  <2>2. batch \subseteq Code /\ now + BackupTicks \in Time
    BY <2>1, Constants, Moments DEF Code
  <2>3. m \subseteq Method
    BY <2>1 DEF Document, Method
  <2>4. Save(b, d) /\ req[b].op = "regenerate"
    BY <1>2 DEF RegenerateBackupCodes, At
  <2> HIDE DEF last, batch, m, e
  <2>5. d \in Document /\ d.codes = batch /\ d.sms = e.sms /\ d.last = e.last
    BY <2>1, <2>2, <2>3 DEF Document
  <2> HIDE DEF d
  <2> QED BY <2>4, <2>5 DEF batch, last, e
<1> QED BY <1>1, <1>2

\* Every write stores one document and changes the session of one browser.
LEMMA OneWrite ==
    ASSUME TypeOK, NEW b \in Browser, Writes(b) \/ Recovers(b) \/ Stores(b)
    PROVE  /\ \E d \in Document : Save(b, d)
           /\ \A x \in Browser : x # b => sess'[x] = sess[x]
<1>1. \E d \in Document : Save(b, d)
  BY PlainDocument, RecoveryDocument, StoredDocument, RequestFields DEF Stores
<1>2. ASSUME Writes(b) PROVE sess' = sess
  BY <1>2 DEF Writes, BackupRefused, SmsRefused, EmailCodeRefused, AnswersRefused, EnableSecondaryEmail,
     SaveSecurityQuestions, VerifyRecoveryEmail, DisableRecovery
<1>3. ASSUME Recovers(b) PROVE SignIn(b, TRUE) \/ SignIn(b, FALSE)
  BY <1>3 DEF Recovers, BackupAccepted, SmsAccepted, EmailCodeAccepted, AnswersAccepted
<1>4. ASSUME Stores(b) PROVE \A x \in Browser : x # b => sess'[x] = sess[x]
  BY <1>4 DEF Stores, RecoverySmsSent, RegenerateBackupCodes, TypeOK
<1> QED BY <1>1, <1>2, <1>3, <1>4, SignInEffect

\* After a write the other copies are out of date.
LEMMA WriteRequests ==
    ASSUME TypeOK, CodesFound, NEW b \in Browser, Writes(b) \/ Recovers(b) \/ Stores(b)
    PROVE  CopiesAgree' /\ CodesFound'
<1>1. PICK d \in Document : Save(b, d)
  BY OneWrite
<1>2. \A x \in Browser : x # b => sess'[x] = sess[x]
  BY OneWrite
<1>3. CopiesAgree'
  BY <1>1, SaveEffect, IdleType DEF CopiesAgree, Agrees
<1>4. ASSUME NEW x \in Browser PROVE Found(x)'
  <2>1. CASE req'[x] = Idle
    BY <2>1, IdleType DEF Found, At
  <2>2. CASE req'[x] # Idle
    <3>1. /\ req'[x].op = req[x].op /\ req'[x].at = req[x].at /\ req'[x].snap = req[x].snap
          /\ req'[x].input = req[x].input /\ req'[x].ok = req[x].ok /\ x # b
      BY <1>1, <2>2, SaveEffect
    <3> QED BY <1>2, <3>1 DEF CodesFound, Found, At
  <2> QED BY <2>1, <2>2
<1> QED BY <1>3, <1>4 DEF CodesFound

\* A handler that starts has the document as it is, and one that goes on keeps it.
LEMMA LookRequests ==
    ASSUME TypeOK, CopiesAgree, CodesFound, NEW b \in Browser, Looks(b) \/ MakesUp(b)
    PROVE  CopiesAgree' /\ CodesFound'
<1> USE DEF history, outcome
<1>0. /\ issued \in Nat /\ \A c \in 0..issued : c \in Code
      /\ \A x \in Browser : Agrees(x) /\ Found(x)
  BY Constants DEF TypeOK, Code, CopiesAgree, CodesFound
<1>1. SUFFICES Agrees(b)' /\ Found(b)' /\ \A x \in Browser : x # b => Agrees(x)' /\ Found(x)'
  BY DEF CopiesAgree, CodesFound
<1>2. doc' = doc
  BY DEF Looks, MakesUp, ProcessAccountRecovery, ProcessRecoveryMethodSelect, ProcessRecoveryBackupCodes,
     VerifyRecoverySms, VerifyRecoveryEmailCode, CheckLockout, ForgetEmailCode, RereadUser,
     ProcessRecoverySecurityQuestions, OpenSettings, OpenVerificationLink, ChangeCredential, Abandon,
     SendRecoverySms, ProcessRecoverySecondaryEmail
<1>3. \A x \in Browser : x # b => sess'[x] = sess[x]
  BY DEF TypeOK, Looks, MakesUp, ProcessAccountRecovery, ProcessRecoveryMethodSelect, ProcessRecoveryBackupCodes,
     VerifyRecoverySms, VerifyRecoveryEmailCode, CheckLockout, ForgetEmailCode, RereadUser,
     ProcessRecoverySecurityQuestions, OpenSettings, OpenVerificationLink, ChangeCredential, Abandon,
     SendRecoverySms, ProcessRecoverySecondaryEmail
<1>4. ASSUME \A x \in Browser : x # b => req'[x] = req[x]
      PROVE  \A x \in Browser : x # b => Agrees(x)' /\ Found(x)'
  <2> SUFFICES ASSUME NEW x \in Browser, x # b PROVE Agrees(x)' /\ Found(x)'
    OBVIOUS
  <2>1. Agrees(x)'
    BY <1>0, <1>2, <1>4 DEF Agrees
  <2>2. Found(x)'
    BY <1>0, <1>3, <1>4 DEF Found, At
  <2> QED BY <2>1, <2>2
<1>5. ASSUME NEW op, NEW at, NEW c, op # "sms", op # "none", Started(b, op, at, doc, c)
      PROVE  Agrees(b)' /\ \A x \in Browser : x # b => Agrees(x)' /\ Found(x)'
  BY <1>2, <1>4, <1>5 DEF Started, Agrees
<1>6. CASE \E c \in 0..issued : ProcessRecoveryBackupCodes(b, c)
  <2>1. PICK c \in Code : ProcessRecoveryBackupCodes(b, c)
    BY <1>0, <1>6
  <2>2. Started(b, "backup", "save", doc, c) /\ req'[b].ok = BackupMatches(doc, c)
    BY <2>1, Starts
  <2>3. req'[b].op = "backup" /\ (req'[b].ok => req'[b].input \in req'[b].snap.codes)
    BY <2>2 DEF Started, BackupMatches
  <2>4. Found(b)'
    BY <2>3 DEF Found, At
  <2> QED BY <1>5, <2>2, <2>4
<1>7. CASE \E c \in 0..issued : VerifyRecoverySms(b, c)
  <2>1. PICK c \in Code : VerifyRecoverySms(b, c)
    BY <1>0, <1>7
  <2>2. Started(b, "smsCode", "lockout", doc, c)
    BY <2>1, Starts
  <2>3. Found(b)'
    BY <2>2 DEF Started, Found, At
  <2> QED BY <1>5, <2>2, <2>3
<1>8. CASE \E c \in 0..issued : VerifyRecoveryEmailCode(b, c)
  <2>1. PICK c \in Code : VerifyRecoveryEmailCode(b, c)
    BY <1>0, <1>8
  <2>2. /\ Started(b, "emailCode", "reread", doc, c) \/ Started(b, "emailCode", "save", doc, c)
        /\ req'[b].at = "reread" => c = sess[b].code
        /\ ~req'[b].ok
    BY <2>1, Starts
  <2>3. sess' = sess /\ sess[b].code # 0
    BY <2>1 DEF VerifyRecoveryEmailCode, EmailChallenge
  <2>4. /\ req'[b].op = "emailCode" /\ req'[b].input = c
        /\ req'[b].at = "reread" => c = sess[b].code
        /\ ~req'[b].ok
    BY <2>2 DEF Started
  <2>5. Found(b)'
    BY <2>3, <2>4 DEF Found, At
  <2> QED BY <1>5, <2>2, <2>5
<1>9. CASE RereadUser(b)
  <2>1. Started(b, "emailCode", "save", doc, req[b].input)
    BY <1>9, Starts
  <2>2. req[b].input = sess[b].code /\ req[b].input # 0 /\ sess' = sess
    BY <1>0, <1>9 DEF RereadUser, Found
  <2>3. req'[b].op = "emailCode" /\ req'[b].input = req[b].input
    BY <2>1 DEF Started
  <2>4. Found(b)'
    BY <2>2, <2>3 DEF Found, At
  <2> QED BY <1>5, <2>1, <2>4
<1>10. ASSUME NEW op, NEW at, NEW c, op \notin {"none", "sms", "backup", "smsCode", "emailCode"},
              Started(b, op, at, doc, c)
       PROVE  Agrees(b)' /\ Found(b)' /\ \A x \in Browser : x # b => Agrees(x)' /\ Found(x)'
  <2>1. Found(b)'
    BY <1>10 DEF Started, Found, At
  <2> QED BY <1>5, <1>10, <2>1
<1>11. CASE \E right \in BOOLEAN : ProcessRecoverySecurityQuestions(b, right)
  <2>1. Started(b, "questions", "save", doc, 0)
    BY <1>11, Starts
  <2> QED BY <1>10, <2>1
<1>12. CASE OpenSettings(b, "address", "secondary_email" \in on, 1)
  <2>1. Started(b, "address", "save", doc, issued + 1)
    BY <1>12, Starts
  <2> QED BY <1>10, <2>1
<1>13. CASE OpenSettings(b, "setQuestions", "security_questions" \in on, 0)
  <2>1. Started(b, "setQuestions", "save", doc, issued)
    BY <1>13, Starts
  <2> QED BY <1>10, <2>1
<1>14. CASE OpenSettings(b, "disable", TRUE, 0)
  <2>1. Started(b, "disable", "save", doc, issued)
    BY <1>14, Starts
  <2> QED BY <1>10, <2>1
<1>15. CASE OpenSettings(b, "regenerate", "backup_codes" \in on, CodesPerBatch)
  <2>1. Started(b, "regenerate", "save", doc, issued + CodesPerBatch)
    BY <1>15, Starts
  <2> QED BY <1>10, <2>1
<1>16. CASE \E c \in Code : OpenVerificationLink(b, c)
  <2>1. PICK c \in Code : OpenVerificationLink(b, c)
    BY <1>16
  <2>2. Started(b, "link", "save", doc, c)
    BY <2>1, Starts
  <2> QED BY <1>10, <2>2
<1>17. CASE SendRecoverySms(b)
  <2> DEFINE d == [doc EXCEPT !.sms = issued + 1, !.smsExp = now + CodeTicks]
  <2>1. Started(b, "sms", "send", d, 0)
    BY <1>17, Starts
  <2>2. d.sms = issued + 1 /\ d.smsExp = now + CodeTicks
    BY DEF TypeOK, Document
  <2>3. d = [doc EXCEPT !.sms = d.sms, !.smsExp = d.smsExp]
    BY <2>2
  <2> HIDE DEF d
  <2>4. Agrees(b)' /\ Found(b)'
    BY <1>2, <2>1, <2>3 DEF Started, Agrees, Found, At
  <2> QED BY <1>4, <2>1, <2>4 DEF Started
<1>18. CASE Drop(b)
  BY <1>4, <1>18, DropEffect, IdleType DEF Agrees, Found, At
<1>19. CASE CheckLockout(b) /\ ~Drop(b)
  <2>1. /\ req'[b].op = req[b].op /\ req'[b].snap = req[b].snap /\ req'[b].input = req[b].input
        /\ req'[b].fresh = req[b].fresh /\ req[b].op = "smsCode" /\ req[b].snap.sms # 0
        /\ req'[b].ok => SmsMatches(req[b].snap, req[b].input)
    BY <1>19, RequestFields DEF CheckLockout, TypeOK, Request, At
  <2>2. \A x \in Browser : x # b => req'[x] = req[x]
    BY <1>19, SMTT(30) DEF CheckLockout, TypeOK
  <2>3. Agrees(b)' /\ Found(b)'
    BY <1>0, <1>2, <2>1, ZenonT(40) DEF Agrees, Found, At, SmsMatches
  <2> QED BY <1>4, <2>2, <2>3
<1>20. CASE req' = req /\ (req[b].at = "idle" \/ sess' = sess)
  <2>1. Agrees(b)' /\ Found(b)'
    BY <1>0, <1>2, <1>20 DEF Agrees, Found, At
  <2> QED BY <1>4, <1>20, <2>1
<1>21. ASSUME \/ ProcessAccountRecovery(b) \/ (\E m \in Method : ProcessRecoveryMethodSelect(b, m))
              \/ ForgetEmailCode(b) \/ (\E r \in Route : ChangeCredential(b, r)) \/ Abandon(b) \/ ProcessRecoverySecondaryEmail(b)
       PROVE  Drop(b) \/ (req' = req /\ (req[b].at = "idle" \/ sess' = sess))
  BY <1>21 DEF ProcessAccountRecovery, ProcessRecoveryMethodSelect, ForgetEmailCode, ChangeCredential,
     Abandon, ProcessRecoverySecondaryEmail, CanStart
<1> QED BY <1>6, <1>7, <1>8, <1>9, <1>11, <1>12, <1>13, <1>14, <1>15, <1>16, <1>17, <1>18, <1>19, <1>20,
           <1>21 DEF Looks, MakesUp

-----------------------------------------------------------------------------
(* Every code is in one place.                                             *)

\* A code that has left the document and the sessions joins the used ones.
LEMMA SpendOne ==
    ASSUME TypeOK, CodesApart, NEW c \in 1..issued, accepted' = accepted \cup {c}, issued' = issued,
           Stored' \subseteq Stored \ {c}, doc'.sms \notin doc'.codes,
           \A x \in Browser : /\ Sent(x)' \subseteq Sent(x) \ {c}
                              /\ Unsaved(x)' \subseteq Unsaved(x) \ {c}
    PROVE  CodesApart'
BY DEF CodesApart

\* Where the code of a recovery was: in the document or in the session.
LEMMA RecoversEffect ==
    ASSUME TypeOK, CopiesAgree, CodesFound, CodesApart, NEW b \in Browser, Recovers(b), ~stale'
    PROVE  CodesApart' /\ reused' = reused
<1>0. /\ req[b].snap \in Document /\ req[b].input \in Code /\ issued \in Nat /\ now \in 1..MaxTime
      /\ Found(b) /\ 0 \notin doc.codes /\ accepted \subseteq 1..issued
  BY RequestFields DEF TypeOK, Code, CodesFound, CodesApart, Stored
<1>1. PICK d \in Document :
        /\ Save(b, d) /\ req[b].op \notin {"none", "sms", "regenerate"}
        /\ d.codes = IF BackupAccepted(b) THEN req[b].snap.codes \ {req[b].input}
                     ELSE req[b].snap.codes
        /\ d.sms = IF SmsAccepted(b) THEN 0 ELSE req[b].snap.sms
  BY RecoveryDocument
<1>2. req[b].snap = doc
  BY <1>1, SaveEffect, FreshCopy
<1>3. doc'.codes = d.codes /\ doc'.sms = d.sms
  BY <1>1, SaveEffect, PersistedKeeps
<1>4. \A x \in Browser : Unsaved(x)' \subseteq Unsaved(x)
  BY <1>1, SaveUnsaved
<1>5. issued' = issued
  BY DEF Recovers, BackupAccepted, SmsAccepted, EmailCodeAccepted, AnswersAccepted
<1>6. CASE BackupAccepted(b)
  <2> DEFINE c == req[b].input
  <2>1. c \in doc.codes /\ c # 0 /\ c \in 1..issued
    BY <1>0, <1>2, <1>6 DEF Found, BackupAccepted, CodesApart, Stored
  <2>2. accepted' = accepted \cup {c} /\ reused' = reused \cup ({c} \cap accepted) /\ c \notin accepted
    BY <1>6, <2>1 DEF BackupAccepted, Accept, CodesApart, Stored
  <2>3. \A x \in Browser : sess'[x].code = sess[x].code
    BY <1>6, SignInEffect DEF BackupAccepted
  <2>4. ~SmsAccepted(b)
    BY <1>6 DEF BackupAccepted, SmsAccepted, At
  <2>5. doc'.codes = doc.codes \ {c} /\ doc'.sms = doc.sms
    BY <1>1, <1>2, <1>3, <1>6, <2>4
  <2> HIDE DEF c
  <2>6. Stored' \subseteq Stored \ {c} /\ doc'.sms \notin doc'.codes
    BY <2>1, <2>5 DEF CodesApart, Stored
  <2>7. \A x \in Browser : Sent(x)' \subseteq Sent(x) \ {c} /\ Unsaved(x)' \subseteq Unsaved(x) \ {c}
    BY <1>4, <2>1, <2>3 DEF CodesApart, Stored, Sent
  <2> QED BY <1>5, <2>1, <2>2, <2>6, <2>7, SpendOne
<1>7. CASE SmsAccepted(b)
  <2> DEFINE c == req[b].input
  <2>1. c = doc.sms /\ c # 0 /\ c \in 1..issued
    BY <1>0, <1>2, <1>7 DEF Found, SmsAccepted, CodesApart, Stored
  <2>2. accepted' = accepted \cup {c} /\ reused' = reused \cup ({c} \cap accepted) /\ c \notin accepted
    BY <1>7, <2>1 DEF SmsAccepted, Accept, CodesApart, Stored
  <2>3. \A x \in Browser : sess'[x].code = sess[x].code
    BY <1>7, SignInEffect DEF SmsAccepted
  <2>4. ~BackupAccepted(b)
    BY <1>7 DEF BackupAccepted, SmsAccepted, At
  <2>5. doc'.codes = doc.codes /\ doc'.sms = 0
    BY <1>1, <1>2, <1>3, <1>7, <2>4
  <2> HIDE DEF c
  <2>6. Stored' \subseteq Stored \ {c} /\ doc'.sms \notin doc'.codes
    BY <1>0, <2>1, <2>5 DEF CodesApart, Stored
  <2>7. \A x \in Browser : Sent(x)' \subseteq Sent(x) \ {c} /\ Unsaved(x)' \subseteq Unsaved(x) \ {c}
    BY <1>4, <2>1, <2>3 DEF CodesApart, Stored, Sent
  <2> QED BY <1>5, <2>1, <2>2, <2>6, <2>7, SpendOne
<1>8. CASE EmailCodeAccepted(b)
  <2> DEFINE c == req[b].input
  <2>1. c = sess[b].code /\ c # 0 /\ c \in 1..issued
    BY <1>0, <1>8 DEF Found, EmailCodeAccepted, CodesApart, Sent
  <2>2. accepted' = accepted \cup {c} /\ reused' = reused \cup ({c} \cap accepted) /\ c \notin accepted
    BY <1>8, <2>1 DEF EmailCodeAccepted, Accept, CodesApart, Sent
  <2>3. sess'[b].code = 0 /\ \A x \in Browser : x # b => sess'[x].code = sess[x].code
    BY <1>8, SignInEffect DEF EmailCodeAccepted
  <2>4. ~BackupAccepted(b) /\ ~SmsAccepted(b)
    BY <1>8 DEF BackupAccepted, SmsAccepted, EmailCodeAccepted, At
  <2>5. doc'.codes = doc.codes /\ doc'.sms = doc.sms
    BY <1>1, <1>2, <1>3, <2>4
  <2> HIDE DEF c
  <2>6. Stored' \subseteq Stored \ {c} /\ doc'.sms \notin doc'.codes
    BY <2>1, <2>5 DEF CodesApart, Stored, Sent
  <2>7. \A x \in Browser : Sent(x)' \subseteq Sent(x) \ {c} /\ Unsaved(x)' \subseteq Unsaved(x) \ {c}
    BY <1>4, <2>1, <2>3 DEF CodesApart, Sent
  <2> QED BY <1>5, <2>1, <2>2, <2>6, <2>7, SpendOne
<1>9. CASE AnswersAccepted(b)
  <2>1. accepted' = accepted /\ reused' = reused
    BY <1>0, <1>9 DEF AnswersAccepted, Accept
  <2>2. \A x \in Browser : sess'[x].code = sess[x].code
    BY <1>9, SignInEffect DEF AnswersAccepted
  <2>3. ~BackupAccepted(b) /\ ~SmsAccepted(b)
    BY <1>9 DEF BackupAccepted, SmsAccepted, AnswersAccepted, At
  <2>4. doc'.codes = doc.codes /\ doc'.sms = doc.sms
    BY <1>1, <1>2, <1>3, <2>3
  <2> QED BY <1>0, <1>4, <1>5, <2>1, <2>2, <2>4, NoNewCodes
<1> QED BY <1>6, <1>7, <1>8, <1>9 DEF Recovers

\* A write that is no recovery keeps the codes it read.
LEMMA WritesEffect ==
    ASSUME TypeOK, CopiesAgree, CodesApart, NEW b \in Browser, Writes(b), ~stale'
    PROVE  CodesApart' /\ reused' = reused
<1>1. PICK d \in Document :
        /\ Save(b, d) /\ req[b].op \notin {"none", "sms", "regenerate"}
        /\ d.codes \subseteq req[b].snap.codes /\ d.sms \in {0, req[b].snap.sms}
  BY PlainDocument
<1>2. req[b].snap = doc
  BY <1>1, SaveEffect, FreshCopy
<1>3. doc'.codes \subseteq doc.codes /\ doc'.sms \in {0, doc.sms}
  <2>1. doc' = Persisted(d)
    BY <1>1 DEF Save
  <2>2. Persisted(d).codes = d.codes /\ Persisted(d).sms = d.sms
    BY PersistedKeeps
  <2> QED BY <1>1, <1>2, <2>1, <2>2
<1>4. \A x \in Browser : Unsaved(x)' \subseteq Unsaved(x)
  BY <1>1, SaveUnsaved
<1>5. UNCHANGED <<accepted, reused, issued, sess>>
  BY DEF Writes, BackupRefused, SmsRefused, EmailCodeRefused, AnswersRefused, EnableSecondaryEmail,
     SaveSecurityQuestions, VerifyRecoveryEmail, DisableRecovery, Reject, outcome
<1>6. issued \in Nat
  BY DEF TypeOK, Code
<1> QED BY <1>3, <1>4, <1>5, <1>6, NoNewCodes

\* New codes are none of the ones given out so far.
LEMMA MakesUpEffect ==
    ASSUME TypeOK, CodesApart, NEW b \in Browser, MakesUp(b)
    PROVE  CodesApart' /\ UNCHANGED <<doc, accepted, reused, recovered, wiped, stale>>
<1> USE DEF history, outcome
<1>0. /\ issued \in Nat /\ CodesPerBatch \in Nat /\ 0 \in Code
      /\ \A x \in Browser : Sent(x) \subseteq 1..issued /\ Unsaved(x) \subseteq 1..issued
  BY Constants DEF TypeOK, Code, CodesApart
<1>1. UNCHANGED <<doc, accepted, reused, recovered, wiped, stale>>
  BY DEF MakesUp, SendRecoverySms, ProcessRecoverySecondaryEmail, OpenSettings
<1>2. ASSUME issued' \in Nat, issued <= issued',
             \A x \in Browser : \/ Sent(x)' = Sent(x) /\ Unsaved(x)' = Unsaved(x)
                                \/ /\ x = b /\ Sent(x)' = Sent(x)
                                   /\ Unsaved(x)' \subseteq (issued + 1)..issued'
                                \/ /\ x = b /\ Unsaved(x)' = Unsaved(x)
                                   /\ Sent(x)' \subseteq (issued + 1)..issued'
      PROVE  CodesApart'
  <2>1. Stored' = Stored /\ accepted' = accepted /\ doc' = doc
    BY <1>1 DEF Stored
  <2>2. \A n \in 1..issued : n \in 1..issued' /\ n \notin (issued + 1)..issued'
    BY <1>0, <1>2
  <2>3. \A n \in (issued + 1)..issued' : n \in 1..issued' /\ n \notin 1..issued
    BY <1>0, <1>2
  <2> QED BY <1>2, <2>1, <2>2, <2>3 DEF CodesApart
<1>3. CASE SendRecoverySms(b)
  <2> DEFINE d == [doc EXCEPT !.sms = issued + 1, !.smsExp = now + CodeTicks]
  <2>1. Started(b, "sms", "send", d, 0) /\ sess' = sess /\ issued' = issued + 1
    BY <1>3, Starts DEF SendRecoverySms
  <2>2. d.sms = issued + 1
    BY DEF TypeOK, Document
  <2> HIDE DEF d
  <2>3. Unsaved(b)' = {issued + 1} /\ \A x \in Browser : x # b => Unsaved(x)' = Unsaved(x)
    BY <2>1, <2>2, UnsavedCases DEF Started
  <2>4. {issued + 1} \subseteq (issued + 1)..issued' /\ issued' \in Nat /\ issued <= issued'
    BY <1>0, <2>1
  <2>5. \A x \in Browser : Sent(x)' = Sent(x)
    BY <2>1 DEF Sent
  <2> QED BY <1>1, <1>2, <2>3, <2>4, <2>5
<1>4. CASE ProcessRecoverySecondaryEmail(b)
  <2>1. /\ sess'[b].code = issued + 1 /\ \A x \in Browser : x # b => sess'[x] = sess[x]
        /\ req' = req /\ issued' = issued + 1
    BY <1>4, SessionFields DEF ProcessRecoverySecondaryEmail, TypeOK, Session
  <2>2. Sent(b)' \subseteq {issued + 1} /\ \A x \in Browser : x # b => Sent(x)' = Sent(x)
    BY <2>1 DEF Sent
  <2>3. {issued + 1} \subseteq (issued + 1)..issued' /\ issued' \in Nat /\ issued <= issued'
    BY <1>0, <2>1
  <2>4. \A x \in Browser : Unsaved(x)' = Unsaved(x)
    BY <2>1, UnsavedCases
  <2> QED BY <1>1, <1>2, <2>2, <2>3, <2>4
<1>5. CASE OpenSettings(b, "regenerate", "backup_codes" \in on, CodesPerBatch)
  <2>1. Started(b, "regenerate", "save", doc, issued + CodesPerBatch)
    BY <1>5, Starts
  <2>2. sess' = sess /\ issued' = issued + CodesPerBatch
    BY <1>5 DEF OpenSettings
  <2> DEFINE n == issued + CodesPerBatch
             batch == (n - CodesPerBatch + 1)..n
  <2>3. Unsaved(b)' = batch /\ \A x \in Browser : x # b => Unsaved(x)' = Unsaved(x)
    BY <2>1, UnsavedCases DEF Started
  <2>4. batch = (issued + 1)..issued' /\ issued' \in Nat /\ issued <= issued'
    BY <1>0, <2>2
  <2>5. \A x \in Browser : Sent(x)' = Sent(x)
    BY <2>2 DEF Sent
  <2> HIDE DEF batch
  <2> QED BY <1>1, <1>2, <2>3, <2>4, <2>5
<1> QED BY <1>3, <1>4, <1>5, <1>1 DEF MakesUp

\* New codes replace the old ones in the document.
LEMMA StoresEffect ==
    ASSUME TypeOK, CopiesAgree, CodesApart, NEW b \in Browser, Stores(b), ~stale'
    PROVE  CodesApart' /\ reused' = reused
<1>0. issued \in Nat /\ req[b].snap \in Document
  BY RequestFields DEF TypeOK, Code
<1>1. UNCHANGED <<accepted, reused, issued>>
  BY DEF Stores, RecoverySmsSent, RegenerateBackupCodes, outcome
<1>2. \A x \in Browser : Sent(x)' = Sent(x)
  <2>1. CASE RegenerateBackupCodes(b)
    BY <2>1 DEF RegenerateBackupCodes, Sent
  <2>2. CASE RecoverySmsSent(b)
    <3> SUFFICES ASSUME NEW x \in Browser PROVE sess'[x].code = sess[x].code
      BY DEF Sent
    <3> DEFINE s == [sess[b] EXCEPT !.try.smsSent = TRUE]
    <3>1. sess' = [sess EXCEPT ![b] = s]
      BY <2>2 DEF RecoverySmsSent
    <3>2. s.code = sess[b].code
      BY SessionFields DEF Session
    <3> HIDE DEF s
    <3> QED BY <3>1, <3>2 DEF TypeOK
  <2> QED BY <2>1, <2>2 DEF Stores
<1>3. ASSUME Stored' \subseteq Stored \cup Unsaved(b), doc'.sms \notin doc'.codes,
             Unsaved(b)' = {}, \A x \in Browser : Unsaved(x)' \subseteq Unsaved(x)
      PROVE  CodesApart'
  BY <1>1, <1>2, <1>3 DEF CodesApart
<1>4. CASE RecoverySmsSent(b)
  <2>1. Save(b, req[b].snap) /\ req[b].op = "sms"
    BY <1>4, StoredDocument
  <2>2. doc'.codes = doc.codes /\ doc'.sms = req[b].snap.sms
    <3>1. req[b].fresh /\ doc' = Persisted(req[b].snap)
      BY <1>0, <2>1, SaveEffect
    <3>2. req[b].snap.codes = doc.codes
      BY <2>1, <3>1, FreshCopy
    <3> QED BY <1>0, <3>1, <3>2, PersistedKeeps
  <2>3. Unsaved(b) = {req[b].snap.sms}
    BY <2>1, UnsavedCases
  <2>4. Stored' \subseteq Stored \cup Unsaved(b) /\ doc'.sms \notin doc'.codes
    BY <2>2, <2>3 DEF Stored, CodesApart
  <2> QED BY <1>0, <1>1, <1>3, <2>1, <2>4, SaveUnsaved
<1>5. CASE RegenerateBackupCodes(b)
  <2>1. PICK d \in Document :
          /\ Save(b, d) /\ req[b].op = "regenerate"
          /\ d.codes = (req[b].input - CodesPerBatch + 1)..req[b].input /\ d.sms = req[b].snap.sms
    BY <1>5, StoredDocument
  <2>2. Unsaved(b) = d.codes
    BY <2>1, UnsavedCases
  <2>3. doc'.codes = Unsaved(b) /\ doc'.sms = doc.sms
    BY <2>1, <2>2, SaveEffect, FreshCopy, PersistedKeeps, ZenonT(40)
  <2>4. Unsaved(b) \subseteq 1..issued /\ (Sent(b) \cup Unsaved(b)) \cap (accepted \cup Stored) = {}
    BY DEF CodesApart
  <2>5. Stored' \subseteq Stored \cup Unsaved(b) /\ doc'.sms \notin doc'.codes
    BY <1>0, <2>3, <2>4 DEF Stored
  <2> QED BY <1>1, <1>3, <2>1, <2>5, SaveUnsaved
<1> QED BY <1>4, <1>5 DEF Stores

-----------------------------------------------------------------------------
(* Each code once.                                                         *)

OnceInv == CopiesAgree /\ CodesFound /\ UnlessStale /\ CodesUsedOnce

LEMMA OnceInit == ASSUME Init PROVE OnceInv
<1> DEFINE batch == IF "backup_codes" \in on THEN CodesPerBatch ELSE 0
           mail == IF "secondary_email" \in on THEN 1 ELSE 0
<1>1. CopiesAgree /\ CodesFound
  BY IdleType DEF Init, CopiesAgree, CodesFound, Agrees, Found, At
<1>2. reused = {} /\ accepted = {} /\ issued = batch + mail
  BY DEF Init
<1>3. doc.codes = 1..batch /\ doc.sms = 0
  BY DEF Init, NoRecovery
<1>4. batch \in Nat /\ mail \in Nat
  BY Constants
<1> HIDE DEF batch, mail
<1>5. \A b \in Browser : Sent(b) = {} /\ Unsaved(b) = {}
  BY IdleType, UnsavedCases DEF Init, Sent, NoSession
<1>6. Stored \subseteq 1..issued /\ doc.sms \notin doc.codes
  BY <1>2, <1>3, <1>4 DEF Stored
<1> QED BY <1>1, <1>2, <1>5, <1>6 DEF OnceInv, UnlessStale, CodesApart, CodesUsedOnce

LEMMA OnceStep == ASSUME TypeOK, OnceInv, [Next]_vars PROVE OnceInv'
<1> USE DEF history, outcome
<1>0. issued \in Nat
  BY DEF TypeOK, Code
<1>1. ASSUME UNCHANGED <<doc, sess, req, issued, accepted, reused, stale>> PROVE OnceInv'
  <2>1. CopiesAgree' /\ CodesFound'
    BY <1>1 DEF OnceInv, CopiesAgree, CodesFound, Agrees, Found, At
  <2>2. CodesApart => CodesApart'
    BY <1>0, <1>1, UnsavedCases, NoNewCodes
  <2> QED BY <1>1, <2>1, <2>2 DEF OnceInv, UnlessStale, CodesUsedOnce
<1>2. ASSUME NEW b \in Browser, Looks(b) PROVE OnceInv'
  <2>1. CopiesAgree' /\ CodesFound'
    BY <1>2, LookRequests DEF OnceInv
  <2>2. UNCHANGED <<reused, stale>> /\ (CodesApart => CodesApart')
    BY <1>2, LooksEffect, NoNewCodes
  <2> QED BY <2>1, <2>2 DEF OnceInv, UnlessStale, CodesUsedOnce
<1>3. ASSUME NEW b \in Browser, MakesUp(b) PROVE OnceInv'
  <2>1. CopiesAgree' /\ CodesFound'
    BY <1>3, LookRequests DEF OnceInv
  <2>2. UNCHANGED <<reused, stale>>
    BY <1>3 DEF MakesUp, SendRecoverySms, ProcessRecoverySecondaryEmail, OpenSettings
  <2>3. CodesApart => CodesApart'
    BY <1>3, MakesUpEffect
  <2> QED BY <2>1, <2>2, <2>3 DEF OnceInv, UnlessStale, CodesUsedOnce
<1>4. ASSUME NEW b \in Browser, Writes(b) \/ Recovers(b) \/ Stores(b) PROVE OnceInv'
  <2>1. CopiesAgree' /\ CodesFound'
    BY <1>4, WriteRequests DEF OnceInv
  <2>2. ASSUME ~stale' PROVE CodesApart' /\ reused' = {}
    <3>1. ~stale
      BY <1>4, <2>2, OneWrite, SaveEffect
    <3>2. CodesApart /\ reused = {} /\ CopiesAgree /\ CodesFound
      BY <3>1 DEF OnceInv, UnlessStale, CodesUsedOnce
    <3>3. CASE Writes(b)
      BY <2>2, <3>2, <3>3, WritesEffect
    <3>4. CASE Recovers(b)
      BY <2>2, <3>2, <3>4, RecoversEffect
    <3>5. CASE Stores(b)
      BY <2>2, <3>2, <3>5, StoresEffect
    <3> QED BY <1>4, <3>3, <3>4, <3>5
  <2> QED BY <2>1, <2>2 DEF OnceInv, UnlessStale, CodesUsedOnce
<1>5. CASE Tick
  BY <1>1, <1>5 DEF Tick
<1>6. CASE UNCHANGED vars
  BY <1>1, <1>6 DEF vars
<1> QED BY <1>2, <1>3, <1>4, <1>5, <1>6, StepKinds

\* A backup code, an SMS code or an e-mail code recovers the account at most once,
\* whatever browsers submit it and whatever the settings replace meanwhile, as long as
\* no handler writes its copy over a change it has not read: a code that is still good
\* is in one place only, and the write that accepts it takes it away.
THEOREM CodesSpentOnce == Spec => []CodesUsedOnce
<1>1. Init => TypeOK /\ OnceInv
  BY InitTypes, OnceInit
<1>2. TypeOK /\ OnceInv /\ [Next]_vars => TypeOK' /\ OnceInv'
  BY NextTypes, OnceStep
<1>3. OnceInv => CodesUsedOnce
  BY DEF OnceInv
<1> QED BY <1>1, <1>2, <1>3, PTL DEF Spec

-----------------------------------------------------------------------------
(* The cooldown.                                                           *)

CooldownInv == CopiesAgree /\ CodesFound /\ NoneDatedLater /\ RecoveryDated /\ CooldownKept

LEMMA CooldownInit == ASSUME Init PROVE CooldownInv
<1>1. CopiesAgree /\ CodesFound
  BY OnceInit DEF OnceInv
<1>2. doc.last = 0 /\ recovered = 0 /\ early = {} /\ now = 1
  BY DEF Init, NoRecovery
<1>3. \A b \in Browser : req[b].snap.last = 0
  BY DEF Init, Idle, NoRecovery
<1> QED BY <1>1, <1>2, <1>3 DEF CooldownInv, RecoveryDated, NoneDatedLater, CooldownKept

LEMMA Dates ==
    ASSUME TypeOK
    PROVE  /\ doc.last \in Nat /\ recovered \in Nat /\ now \in Nat /\ CooldownTicks \in Nat
           /\ \A b \in Browser : req[b].snap.last \in Nat
<1>1. Time \subseteq Nat /\ CooldownTicks \in Nat /\ now \in Nat
  BY Constants DEF Time, TypeOK
<1>2. doc.last \in Time /\ recovered \in Time
  BY DEF TypeOK, Document
<1>3. ASSUME NEW b \in Browser PROVE req[b].snap.last \in Time
  BY RequestFields DEF Document
<1> QED BY <1>1, <1>2, <1>3

\* A credential is not changed by a route that asks while the document remembers a
\* recovery.
LEMMA CooldownChecked ==
    ASSUME TypeOK, RecoveryDated, NEW b \in Browser, NEW r \in Route, ChangeCredential(b, r)
    PROVE  early' \cap Asking # {} => early \cap Asking # {} \/ undated
<1>1. CASE ~InsideCooldown \/ r \notin Asking
  BY <1>1 DEF ChangeCredential
<1>2. CASE undated
  BY <1>2
<1>3. CASE InsideCooldown /\ r \in Asking /\ ~undated
  <2>1. ~wiped /\ doc.last = recovered /\ recovered # 0 /\ now < recovered + CooldownTicks
    BY <1>3 DEF InsideCooldown, RecoveryDated
  <2>2. ~InCooldown(doc)
    BY <1>3 DEF ChangeCredential
  <2> QED BY <2>1, <2>2, Dates DEF InCooldown
<1> QED BY <1>1, <1>2, <1>3

\* A handler that reads copies the date of the document.
LEMMA LookDates ==
    ASSUME TypeOK, NEW b \in Browser, Looks(b) \/ MakesUp(b)
    PROVE  \A x \in Browser : req'[x].snap.last \in {0, doc.last, req[x].snap.last}
<1>1. CASE UNCHANGED req
  BY <1>1
<1>2. ASSUME NEW q, req' = [req EXCEPT ![b] = q], q.snap.last \in {0, doc.last, req[b].snap.last}
      PROVE  \A x \in Browser : req'[x].snap.last \in {0, doc.last, req[x].snap.last}
  BY <1>2 DEF TypeOK
<1>3. ASSUME NEW op, NEW at, NEW c, NEW ok, Read(b, op, at, c, ok)
      PROVE  \A x \in Browser : req'[x].snap.last \in {0, doc.last, req[x].snap.last}
  <2> DEFINE q == [op |-> op, at |-> at, snap |-> doc, input |-> c, ok |-> ok, fresh |-> TRUE]
  <2>1. q.snap = doc
    OBVIOUS
  <2>2. req' = [req EXCEPT ![b] = q]
    BY <1>3 DEF Read, Work
  <2> HIDE DEF q
  <2> QED BY <1>2, <2>1, <2>2
<1>4. CASE SendRecoverySms(b)
  <2> DEFINE d == [doc EXCEPT !.sms = issued + 1, !.smsExp = now + CodeTicks]
             q == [op |-> "sms", at |-> "send", snap |-> d, input |-> 0, ok |-> FALSE, fresh |-> TRUE]
  <2>1. d.last = doc.last
    BY DEF TypeOK, Document
  <2>2. q.snap = d
    OBVIOUS
  <2>3. req' = [req EXCEPT ![b] = q]
    BY <1>4 DEF SendRecoverySms, Work
  <2> HIDE DEF d, q
  <2> QED BY <1>2, <2>1, <2>2, <2>3
<1>5. CASE Abandon(b) \/ (CheckLockout(b) /\ Drop(b))
  <2>1. req' = [req EXCEPT ![b] = Idle]
    BY <1>5 DEF Abandon, Drop
  <2>2. Idle.snap.last = 0
    BY DEF Idle, NoRecovery
  <2> QED BY <1>2, <2>1, <2>2
<1>6. CASE CheckLockout(b) /\ ~Drop(b)
  <2> DEFINE ok == SmsMatches(req[b].snap, req[b].input)
             q == [req[b] EXCEPT !.at = "save", !.ok = ok]
  <2>1. req' = [req EXCEPT ![b].at = "save", ![b].ok = ok]
    BY <1>6 DEF CheckLockout
  <2> HIDE DEF ok
  <2>2. req' = [req EXCEPT ![b] = q]
    BY <2>1 DEF TypeOK, Request
  <2>3. q.snap = req[b].snap
    BY RequestFields DEF Request
  <2> HIDE DEF q
  <2> QED BY <1>2, <2>2, <2>3
<1>7. \/ UNCHANGED req
      \/ \E op, at, c, ok : Read(b, op, at, c, ok)
      \/ SendRecoverySms(b) \/ Abandon(b) \/ CheckLockout(b)
  BY DEF Looks, MakesUp, ProcessAccountRecovery, ProcessRecoveryMethodSelect, ProcessRecoveryBackupCodes,
     VerifyRecoverySms, VerifyRecoveryEmailCode, ForgetEmailCode, RereadUser,
     ProcessRecoverySecurityQuestions, OpenSettings, OpenVerificationLink, ChangeCredential,
     ProcessRecoverySecondaryEmail
<1> QED BY <1>1, <1>3, <1>4, <1>5, <1>6, <1>7

LEMMA SavedCopies ==
    ASSUME TypeOK, NEW b \in Browser, NEW d \in Document, Save(b, d)
    PROVE  \A x \in Browser : req'[x].snap.last \in {0, req[x].snap.last}
<1>1. Idle.snap.last = 0
  BY DEF Idle, NoRecovery
<1>2. \A x \in Browser : req'[x] = Idle \/ req'[x].snap = req[x].snap
  BY SaveEffect
<1> QED BY <1>1, <1>2

\* A write that is no recovery: the date of the copy is stored, or goes with the
\* last method.
LEMMA WriteDates ==
    ASSUME TypeOK, ~Relational, CopiesAgree, NoneDatedLater, RecoveryDated, NEW b \in Browser,
           NEW d \in Document, Save(b, d), req[b].op # "none",
           d.last = req[b].snap.last \/ (wiped' /\ d.last = 0),
           recovered' = recovered, wiped => wiped', now' = now
    PROVE  NoneDatedLater' /\ RecoveryDated'
<1>1. doc' = d /\ undated' = (undated \/ (~req[b].fresh /\ d.last < doc.last))
  BY DEF Save, Persisted
<1>2. \A x \in Browser : req'[x].snap.last \in {0, req[x].snap.last}
  BY SavedCopies
<1>3. req[b].fresh => req[b].snap.last = doc.last
  BY FreshCopy
<1>4. req[b].snap.last <= recovered /\ d.last \in Nat
  BY Dates DEF NoneDatedLater, Document, Time
<1>5. NoneDatedLater'
  BY <1>1, <1>2, <1>4, Dates DEF NoneDatedLater
<1>6. RecoveryDated'
  <2> SUFFICES ASSUME ~undated', ~wiped' PROVE d.last = recovered
    BY <1>1 DEF RecoveryDated
  <2>1. doc.last = recovered /\ d.last = req[b].snap.last
    BY <1>1 DEF RecoveryDated
  <2>2. req[b].fresh \/ ~(d.last < doc.last)
    BY <1>1
  <2> QED BY <1>3, <1>4, <2>1, <2>2, Dates
<1> QED BY <1>5, <1>6

LEMMA CooldownStep == ASSUME TypeOK, ~Relational, CooldownInv, [Next]_vars PROVE CooldownInv'
<1> USE DEF history, outcome
<1>1. ASSUME UNCHANGED <<doc, sess, req, recovered, wiped, early, undated, now>> PROVE CooldownInv'
  BY <1>1 DEF CooldownInv, CopiesAgree, CodesFound, Agrees, Found, At, RecoveryDated, NoneDatedLater,
     CooldownKept
<1>2. ASSUME NEW b \in Browser, Looks(b) \/ MakesUp(b) PROVE CooldownInv'
  <2>1. CopiesAgree' /\ CodesFound'
    BY <1>2, LookRequests DEF CooldownInv
  <2>2. UNCHANGED <<doc, recovered, wiped, undated>>
    <3>1. CASE Looks(b)
      BY <3>1, LooksEffect
    <3>2. CASE MakesUp(b)
      BY <3>2 DEF MakesUp, SendRecoverySms, ProcessRecoverySecondaryEmail, OpenSettings
    <3> QED BY <1>2, <3>1, <3>2
  <2>3. now' = now
    BY <1>2 DEF Looks, MakesUp, ProcessAccountRecovery, ProcessRecoveryMethodSelect,
       ProcessRecoveryBackupCodes, VerifyRecoverySms, VerifyRecoveryEmailCode, CheckLockout,
       ForgetEmailCode, RereadUser, ProcessRecoverySecurityQuestions, OpenSettings,
       OpenVerificationLink, ChangeCredential, Abandon, SendRecoverySms, ProcessRecoverySecondaryEmail
  <2>4. NoneDatedLater'
    <3>1. \A x \in Browser : req'[x].snap.last \in {0, doc.last, req[x].snap.last}
      BY <1>2, LookDates
    <3> QED BY <2>2, <2>3, <3>1, Dates DEF CooldownInv, NoneDatedLater
  <2>5. early' \cap Asking # {} => early \cap Asking # {} \/ undated
    <3>1. CASE \E r \in Route : ChangeCredential(b, r)
      BY <3>1, CooldownChecked DEF CooldownInv
    <3>2. CASE ~\E r \in Route : ChangeCredential(b, r)
      <4>1. early' = early
        BY <1>2, <3>2 DEF Looks, MakesUp, ProcessAccountRecovery, ProcessRecoveryMethodSelect,
           ProcessRecoveryBackupCodes, VerifyRecoverySms, VerifyRecoveryEmailCode, CheckLockout,
           ForgetEmailCode, RereadUser, ProcessRecoverySecurityQuestions, OpenSettings,
           OpenVerificationLink, Abandon, SendRecoverySms, ProcessRecoverySecondaryEmail
      <4> QED BY <4>1
    <3> QED BY <3>1, <3>2
  <2> QED BY <2>1, <2>2, <2>4, <2>5 DEF CooldownInv, RecoveryDated, CooldownKept
<1>3. ASSUME NEW b \in Browser, Writes(b) \/ Recovers(b) \/ Stores(b) PROVE CooldownInv'
  <2>1. CopiesAgree' /\ CodesFound'
    BY <1>3, WriteRequests DEF CooldownInv
  <2>2. early' = early /\ now' = now
    BY <1>3 DEF Writes, Recovers, Stores, BackupRefused, SmsRefused, EmailCodeRefused, AnswersRefused,
       EnableSecondaryEmail, SaveSecurityQuestions, VerifyRecoveryEmail, DisableRecovery,
       BackupAccepted, SmsAccepted, EmailCodeAccepted, AnswersAccepted, RecoverySmsSent,
       RegenerateBackupCodes
  <2>3. undated => undated'
    <3>1. PICK d \in Document : Save(b, d)
      BY <1>3, OneWrite
    <3> QED BY <3>1 DEF Save
  <2>4. CopiesAgree /\ NoneDatedLater /\ RecoveryDated
    BY DEF CooldownInv
  <2>5. NoneDatedLater' /\ RecoveryDated'
    <3>1. CASE Writes(b)
      <4>1. PICK d \in Document :
              /\ Save(b, d) /\ req[b].op \notin {"none", "sms", "regenerate"}
              /\ d.last = req[b].snap.last \/ (wiped' /\ d.last = 0)
        BY <3>1, PlainDocument
      <4>2. recovered' = recovered /\ (wiped => wiped')
        <5>1. CASE \E m \in Method : DisableRecovery(b, m)
          BY <5>1 DEF DisableRecovery
        <5>2. CASE ~\E m \in Method : DisableRecovery(b, m)
          BY <3>1, <5>2 DEF Writes, BackupRefused, SmsRefused, EmailCodeRefused, AnswersRefused,
             EnableSecondaryEmail, SaveSecurityQuestions, VerifyRecoveryEmail, Reject
        <5> QED BY <5>1, <5>2
      <4> QED BY <2>2, <2>4, <4>1, <4>2, WriteDates
    <3>2. CASE Recovers(b)
      <4>1. PICK d \in Document : Save(b, d) /\ d.last = now
        BY <3>2, RecoveryDocument
      <4>2. doc' = d
        BY <4>1 DEF Save, Persisted
      <4>3. recovered' = now
        BY <3>2 DEF Recovers, BackupAccepted, SmsAccepted, EmailCodeAccepted, AnswersAccepted, Accept
      <4>4. \A x \in Browser : req'[x].snap.last \in {0, req[x].snap.last}
        BY <4>1, SavedCopies
      <4>5. NoneDatedLater'
        BY <2>2, <2>4, <4>1, <4>2, <4>3, <4>4, Dates DEF NoneDatedLater
      <4> QED BY <4>1, <4>2, <4>3, <4>5 DEF RecoveryDated
    <3>3. CASE RecoverySmsSent(b)
      <4>1. Save(b, req[b].snap) /\ req[b].op = "sms" /\ req[b].snap \in Document
        BY <3>3, StoredDocument, RequestFields
      <4>2. UNCHANGED <<recovered, wiped>>
        BY <3>3 DEF RecoverySmsSent
      <4> QED BY <2>2, <2>4, <4>1, <4>2, WriteDates
    <3>4. CASE RegenerateBackupCodes(b)
      <4>1. PICK d \in Document : Save(b, d) /\ req[b].op = "regenerate" /\ d.last = req[b].snap.last
        BY <3>4, StoredDocument
      <4>2. UNCHANGED <<recovered, wiped>>
        BY <3>4 DEF RegenerateBackupCodes
      <4> QED BY <2>2, <2>4, <4>1, <4>2, WriteDates
    <3> QED BY <1>3, <3>1, <3>2, <3>3, <3>4 DEF Stores
  <2> QED BY <2>1, <2>2, <2>3, <2>5 DEF CooldownInv, CooldownKept
<1>4. CASE Tick
  <2>1. UNCHANGED <<doc, sess, req, recovered, wiped, early, undated>> /\ now' = now + 1
    BY <1>4 DEF Tick
  <2>2. NoneDatedLater'
    BY <2>1, Dates DEF CooldownInv, NoneDatedLater
  <2>3. CopiesAgree' /\ CodesFound' /\ RecoveryDated' /\ CooldownKept'
    BY <2>1 DEF CooldownInv, CopiesAgree, CodesFound, Agrees, Found, At, RecoveryDated, CooldownKept
  <2> QED BY <2>2, <2>3 DEF CooldownInv
<1>5. CASE UNCHANGED vars
  BY <1>1, <1>5 DEF vars
<1> QED BY <1>2, <1>3, <1>4, <1>5, StepKinds

\* With MongoDB, which stores last_recovered_at, a recovery by any method is followed
\* by the whole cooldown: no page that asks changes the password or MFA meanwhile,
\* unless the document was removed with its last method or a copy from before the
\* recovery was written over it.
THEOREM CooldownEnforced == ~Relational => (Spec => []CooldownKept)
<1> SUFFICES ASSUME ~Relational PROVE Spec => []CooldownKept
  OBVIOUS
<1>1. Init => TypeOK /\ CooldownInv
  BY InitTypes, CooldownInit
<1>2. TypeOK /\ CooldownInv /\ [Next]_vars => TypeOK' /\ CooldownInv'
  BY NextTypes, CooldownStep
<1>3. CooldownInv => CooldownKept
  BY DEF CooldownInv
<1> QED BY <1>1, <1>2, <1>3, PTL DEF Spec


-----------------------------------------------------------------------------
(* The wrong answers.                                                      *)

\* What Counted says of one kind, and what is to be shown of it.
Spaced(w, limit) == \A i \in 1..Len(w) : i > limit => w[i] >= w[i - limit] + LockTicks
Metered(w, n, lock, limit) == Counted(w, n, lock, limit) /\ Spaced(w, limit)

\* A new count.
LEMMA NoneCounted ==
    ASSUME NEW limit \in Nat, limit > 0
    PROVE  Metered(<< >>, 0, 0, limit)
BY DEF Metered, Counted, Spaced

\* The clock does not move backwards.
LEMMA LaterCounted ==
    ASSUME NEW w \in Seq(1..MaxTime), NEW n, NEW lock, NEW limit, Metered(w, n, lock, limit),
           now \in Nat, now' \in Nat, now <= now', MaxTime \in Nat
    PROVE  Metered(w, n, lock, limit)'
<1>1. \A i \in 1..Len(w) : w[i] \in Nat
  OBVIOUS
<1> QED BY <1>1 DEF Metered, Counted, Spaced

\* One more wrong answer: of the ones before, k stay counted, fewer than are allowed,
\* and the others are a lock away.
LEMMA OneMoreWrong ==
    ASSUME NEW w \in Seq(1..MaxTime), NEW k \in Nat, NEW limit \in Nat, NEW lock,
           now \in 1..MaxTime, MaxTime \in Nat, LockTicks \in Nat,
           k <= Len(w), k < limit, Spaced(w, limit),
           \A i, j \in 1..Len(w) : i <= j => w[i] <= w[j],
           \A i \in 1..Len(w) : w[i] <= now,
           \A i, j \in 1..Len(w) : i <= Len(w) - k /\ Len(w) - k < j => w[i] + LockTicks <= w[j],
           \A i \in 1..Len(w) : i <= Len(w) - k => w[i] + LockTicks <= now,
           lock = IF k + 1 >= limit THEN now + LockTicks ELSE 0
    PROVE  Metered(Append(w, now), k + 1, lock, limit)
<1> DEFINE l == Len(w)
           v == Append(w, now)
<1>1. /\ l \in Nat /\ Len(v) = l + 1 /\ v[l + 1] = now /\ now \in Nat /\ now > 0
      /\ \A i \in 1..l : v[i] = w[i] /\ w[i] \in Nat
      /\ \A i \in 1..(l + 1) : i \in 1..l \/ i = l + 1
  OBVIOUS
<1>2. /\ \A i, j \in 1..l : i <= j => w[i] <= w[j]
      /\ \A i \in 1..l : w[i] <= now
      /\ \A i, j \in 1..l : i <= l - k /\ l - k < j => w[i] + LockTicks <= w[j]
      /\ \A i \in 1..l : i <= l - k => w[i] + LockTicks <= now
      /\ \A i \in 1..l : i > limit => w[i] >= w[i - limit] + LockTicks
      /\ k <= l
  BY DEF Spaced
<1> HIDE DEF l, v
<1>3. \A i \in 1..(l + 1) : v[i] <= now /\ v[i] \in Nat
  <2> SUFFICES ASSUME NEW i \in 1..(l + 1) PROVE v[i] <= now /\ v[i] \in Nat
    OBVIOUS
  <2>1. CASE i \in 1..l
    <3>1. v[i] = w[i] /\ w[i] <= now /\ w[i] \in Nat
      BY <1>1, <1>2, <2>1
    <3> QED BY <3>1
  <2>2. CASE i = l + 1
    <3>1. v[i] = now
      BY <1>1, <2>2
    <3> QED BY <1>1, <3>1
  <2> QED BY <1>1, <2>1, <2>2
<1>4. ASSUME NEW i \in 1..(l + 1), NEW j \in 1..(l + 1)
      PROVE  /\ i <= j => v[i] <= v[j]
             /\ i <= l - k /\ l - k < j => v[i] + LockTicks <= v[j]
  <2>1. CASE j \in 1..l
    <3>1. CASE i \in 1..l
      <4>1. v[i] = w[i] /\ v[j] = w[j]
        BY <1>1, <2>1, <3>1
      <4> QED BY <1>2, <2>1, <3>1, <4>1
    <3>2. CASE i = l + 1
      BY <1>1, <2>1, <3>2
    <3> QED BY <1>1, <3>1, <3>2
  <2>2. CASE j = l + 1
    <3>1. v[j] = now
      BY <1>1, <2>2
    <3>2. i <= l - k => i \in 1..l /\ v[i] = w[i]
      BY <1>1
    <3> QED BY <1>2, <1>3, <3>1, <3>2
  <2> QED BY <1>1, <2>1, <2>2
<1>5. ASSUME NEW i \in 1..(l + 1), i > limit PROVE v[i] >= v[i - limit] + LockTicks
  <2>1. i - limit \in 1..l /\ v[i - limit] = w[i - limit]
    BY <1>1, <1>5
  <2>2. CASE i \in 1..l
    <3>1. v[i] = w[i] /\ w[i] >= w[i - limit] + LockTicks
      BY <1>1, <1>2, <1>5, <2>2
    <3> QED BY <2>1, <3>1
  <2>3. CASE i = l + 1
    <3>1. v[i] = now /\ i - limit <= l - k
      BY <1>1, <2>3
    <3>2. w[i - limit] + LockTicks <= now
      BY <1>2, <2>1, <3>1
    <3>3. w[i - limit] \in Nat
      BY <1>1, <2>1
    <3> QED BY <1>1, <2>1, <3>1, <3>2, <3>3
  <2> QED BY <1>1, <2>2, <2>3
<1>6. Spaced(v, limit)
  BY <1>1, <1>5 DEF Spaced
<1>7. Counted(v, k + 1, lock, limit)
  <2>1. \A i, j \in 1..Len(v) : i <= j => v[i] <= v[j]
    BY <1>1, <1>4
  <2>2. \A i, j \in 1..Len(v) : i <= Len(v) - (k + 1) /\ Len(v) - (k + 1) < j => v[i] + LockTicks <= v[j]
    <3>1. Len(v) - (k + 1) = l - k
      BY <1>1
    <3> QED BY <1>1, <1>4, <3>1
  <2>3. \A i \in 1..Len(v) : v[i] <= now
    BY <1>1, <1>3
  <2>4. /\ k + 1 <= Len(v) /\ k + 1 <= limit /\ (k + 1 = 0 => v = << >>)
        /\ (k + 1 < limit <=> lock = 0) /\ (lock # 0 => lock = v[Len(v)] + LockTicks)
    BY <1>1, <1>2
  <2> QED BY <2>1, <2>2, <2>3, <2>4 DEF Counted
<1> QED BY <1>6, <1>7 DEF Metered, v

\* Counting goes on, and the last of as many as are allowed sets the lock.
LEMMA GoesOnCounting ==
    ASSUME NEW w \in Seq(1..MaxTime), NEW n \in Nat, NEW limit \in Nat, limit > 0,
           Metered(w, n, 0, limit), now \in 1..MaxTime, MaxTime \in Nat, LockTicks \in Nat,
           NEW lock, lock = IF n + 1 >= limit THEN now + LockTicks ELSE 0
    PROVE  Metered(Append(w, now), n + 1, lock, limit)
<1>1. /\ n <= Len(w) /\ n < limit /\ (n = 0 => Len(w) = 0) /\ Spaced(w, limit)
      /\ \A i, j \in 1..Len(w) : i <= j => w[i] <= w[j]
      /\ \A i, j \in 1..Len(w) : i <= Len(w) - n /\ Len(w) - n < j => w[i] + LockTicks <= w[j]
      /\ \A i \in 1..Len(w) : w[i] <= now
  BY DEF Metered, Counted
<1>2. ASSUME NEW i \in 1..Len(w), i <= Len(w) - n PROVE w[i] + LockTicks <= now
  <2>1. Len(w) \in 1..Len(w) /\ Len(w) - n < Len(w)
    BY <1>1
  <2>2. w[i] + LockTicks <= w[Len(w)] /\ w[Len(w)] <= now
    BY <1>1, <1>2, <2>1
  <2>3. w[i] \in Nat /\ w[Len(w)] \in Nat /\ now \in Nat
    BY <2>1
  <2> QED BY <2>2, <2>3
<1> QED BY <1>1, <1>2, OneMoreWrong

\* A lock that is over starts a new count.
LEMMA StartsCounting ==
    ASSUME NEW w \in Seq(1..MaxTime), NEW n \in Nat, NEW old \in Nat, NEW limit \in Nat, limit > 0,
           Metered(w, n, old, limit), old # 0, old <= now,
           now \in 1..MaxTime, MaxTime \in Nat, LockTicks \in Nat,
           NEW lock, lock = IF 1 >= limit THEN now + LockTicks ELSE 0
    PROVE  Metered(Append(w, now), 1, lock, limit)
<1>1. /\ n <= Len(w) /\ n = limit /\ old = w[Len(w)] + LockTicks /\ Spaced(w, limit)
      /\ \A i, j \in 1..Len(w) : i <= j => w[i] <= w[j]
      /\ \A i \in 1..Len(w) : w[i] <= now
  BY DEF Metered, Counted
<1>2. ASSUME NEW i \in 1..Len(w) PROVE w[i] + LockTicks <= now
  <2>1. Len(w) \in 1..Len(w) /\ i <= Len(w)
    BY <1>1
  <2>2. w[i] <= w[Len(w)]
    BY <1>1, <2>1
  <2>3. w[i] \in Nat /\ w[Len(w)] \in Nat /\ now \in Nat
    BY <2>1
  <2> QED BY <1>1, <2>2, <2>3
<1>3. \A i, j \in 1..Len(w) : i <= Len(w) - 0 /\ Len(w) - 0 < j => w[i] + LockTicks <= w[j]
  OBVIOUS
<1>4. 0 + 1 = 1 /\ 0 <= Len(w) /\ 0 < limit
  OBVIOUS
<1> QED BY <1>1, <1>2, <1>3, <1>4, OneMoreWrong

\* The invariant: both counts are right, and what is to be examined was let through.
Meters ==
    \/ stale
    \/ /\ Metered(wrong["code"], doc.failed, doc.locked, MaxAttempts)
       /\ Metered(wrong["answers"], doc.sqFailed, doc.sqLocked, SqMaxAttempts)

AttemptsInv == CopiesAgree /\ CodesFound /\ LockChecked /\ Meters

LEMMA MetersAre ==
    ASSUME TypeOK
    PROVE  Meters <=> FailuresCounted /\ AttemptsLimited
<1>1. DOMAIN wrong = {"code", "answers"} /\ stale \in BOOLEAN
  BY DEF TypeOK
<1> QED BY <1>1 DEF Meters, Metered, Spaced, FailuresCounted, AttemptsLimited, Limit

LEMMA LimitTypes ==
    ASSUME TypeOK
    PROVE  /\ wrong["code"] \in Seq(1..MaxTime) /\ wrong["answers"] \in Seq(1..MaxTime)
           /\ doc \in Document /\ now \in 1..MaxTime /\ MaxTime \in Nat /\ LockTicks \in Nat
           /\ MaxAttempts \in Nat /\ MaxAttempts > 0 /\ SqMaxAttempts \in Nat /\ SqMaxAttempts > 0
BY RecoveryAssumption DEF TypeOK

\* The counters of a document.
SameMeters(d, e) ==
    /\ d.failed = e.failed /\ d.locked = e.locked
    /\ d.sqFailed = e.sqFailed /\ d.sqLocked = e.sqLocked

\* recordFailedRecoveryAttempt keeps its count right, where it was let through.
LEMMA CodeCounted ==
    ASSUME TypeOK, ~Locked(doc), Metered(wrong["code"], doc.failed, doc.locked, MaxAttempts)
    PROVE  Metered(Append(wrong["code"], now), RecordFailure(doc).failed, RecordFailure(doc).locked,
                   MaxAttempts)
<1> DEFINE w == wrong["code"]
           n == doc.failed
           old == doc.locked
           over == old # 0 /\ old <= now
           m == (IF over THEN 0 ELSE n) + 1
           lock == IF m >= MaxAttempts THEN now + LockTicks ELSE IF over THEN 0 ELSE old
<1>1. w \in Seq(1..MaxTime) /\ n \in Nat /\ old \in Nat /\ old <= now
  BY LimitTypes, Constants DEF Document, Locked, Time
<1>2. RecordFailure(doc).failed = m /\ RecordFailure(doc).locked = lock
  BY LimitTypes DEF RecordFailure, Document
<1>3. Metered(w, n, old, MaxAttempts)
  OBVIOUS
<1> HIDE DEF w, n, old
<1>4. Metered(Append(w, now), m, lock, MaxAttempts)
  <2>1. CASE old = 0
    <3>1. m = n + 1 /\ lock = IF n + 1 >= MaxAttempts THEN now + LockTicks ELSE 0
      BY <2>1
    <3> HIDE DEF m, lock
    <3> QED BY <1>1, <1>3, <2>1, <3>1, LimitTypes, GoesOnCounting
  <2>2. CASE old # 0
    <3>1. m = 1 /\ lock = IF 1 >= MaxAttempts THEN now + LockTicks ELSE 0
      BY <1>1, <2>2
    <3> HIDE DEF m, lock
    <3> QED BY <1>1, <1>3, <2>2, <3>1, LimitTypes, StartsCounting
  <2> QED BY <2>1, <2>2
<1> QED BY <1>2, <1>4 DEF w

\* And so does recordFailedSecurityQuestionAttempt.
LEMMA AnswersCounted ==
    ASSUME TypeOK, doc.questions, ~SqLocked(doc),
           Metered(wrong["answers"], doc.sqFailed, doc.sqLocked, SqMaxAttempts)
    PROVE  Metered(Append(wrong["answers"], now), RecordSqFailure(doc).sqFailed,
                   RecordSqFailure(doc).sqLocked, SqMaxAttempts)
<1> DEFINE w == wrong["answers"]
           n == doc.sqFailed
           old == doc.sqLocked
           over == old # 0 /\ old <= now
           m == (IF over THEN 0 ELSE n) + 1
           lock == IF m >= SqMaxAttempts THEN now + LockTicks ELSE IF over THEN 0 ELSE old
<1>1. w \in Seq(1..MaxTime) /\ n \in Nat /\ old \in Nat /\ old <= now
  BY LimitTypes, Constants DEF Document, SqLocked, Time
<1>2. RecordSqFailure(doc).sqFailed = m /\ RecordSqFailure(doc).sqLocked = lock
  BY LimitTypes DEF RecordSqFailure, Document
<1>3. Metered(w, n, old, SqMaxAttempts)
  OBVIOUS
<1> HIDE DEF w, n, old
<1>4. Metered(Append(w, now), m, lock, SqMaxAttempts)
  <2>1. CASE old = 0
    <3>1. m = n + 1 /\ lock = IF n + 1 >= SqMaxAttempts THEN now + LockTicks ELSE 0
      BY <2>1
    <3> HIDE DEF m, lock
    <3> QED BY <1>1, <1>3, <2>1, <3>1, LimitTypes, GoesOnCounting
  <2>2. CASE old # 0
    <3>1. m = 1 /\ lock = IF 1 >= SqMaxAttempts THEN now + LockTicks ELSE 0
      BY <1>1, <2>2
    <3> HIDE DEF m, lock
    <3> QED BY <1>1, <1>3, <2>2, <3>1, LimitTypes, StartsCounting
  <2> QED BY <2>1, <2>2
<1> QED BY <1>2, <1>4 DEF w

\* What the writes do to the counters of wrong codes and of wrong answers.
CodeMeter ==
    \/ wrong'["code"] = wrong["code"] /\ doc'.failed = doc.failed /\ doc'.locked = doc.locked
    \/ wrong'["code"] = << >> /\ doc'.failed = 0 /\ doc'.locked = 0
    \/ /\ ~Locked(doc) /\ wrong'["code"] = Append(wrong["code"], now)
       /\ doc'.failed = RecordFailure(doc).failed /\ doc'.locked = RecordFailure(doc).locked
AnswerMeter ==
    \/ /\ wrong'["answers"] = wrong["answers"]
       /\ doc'.sqFailed = doc.sqFailed /\ doc'.sqLocked = doc.sqLocked
    \/ wrong'["answers"] = << >> /\ doc'.sqFailed = 0 /\ doc'.sqLocked = 0
    \/ /\ doc.questions /\ ~SqLocked(doc)
       /\ wrong'["answers"] = Append(wrong["answers"], now)
       /\ doc'.sqFailed = RecordSqFailure(doc).sqFailed
       /\ doc'.sqLocked = RecordSqFailure(doc).sqLocked

\* The history of a submission.
LEMMA WrongKept ==
    ASSUME TypeOK
    PROVE  /\ CountWrong("code") => /\ wrong'["code"] = Append(wrong["code"], now)
                                    /\ wrong'["answers"] = wrong["answers"]
           /\ CountWrong("answers") => /\ wrong'["answers"] = Append(wrong["answers"], now)
                                       /\ wrong'["code"] = wrong["code"]
           /\ NoneWrong("code") => wrong'["code"] = << >> /\ wrong'["answers"] = wrong["answers"]
           /\ NoneWrong("answers") => wrong'["answers"] = << >> /\ wrong'["code"] = wrong["code"]
BY DEF TypeOK, CountWrong, NoneWrong

\* A step that leaves the clock alone and keeps both counts right.
LEMMA MetersMove ==
    ASSUME TypeOK, Meters, now' = now, stale => stale', ~stale' => CodeMeter /\ AnswerMeter
    PROVE  Meters'
<1> SUFFICES ASSUME ~stale' PROVE Meters'
  BY DEF Meters
<1>0. /\ Metered(wrong["code"], doc.failed, doc.locked, MaxAttempts)
      /\ Metered(wrong["answers"], doc.sqFailed, doc.sqLocked, SqMaxAttempts)
  BY DEF Meters
<1> USE DEF CodeMeter, AnswerMeter
<1>1. Metered(wrong'["code"], doc'.failed, doc'.locked, MaxAttempts)
  <2>1. CASE wrong'["code"] = wrong["code"] /\ doc'.failed = doc.failed /\ doc'.locked = doc.locked
    BY <1>0, <2>1
  <2>2. CASE wrong'["code"] = << >> /\ doc'.failed = 0 /\ doc'.locked = 0
    BY <2>2, NoneCounted, LimitTypes
  <2>3. CASE /\ ~Locked(doc) /\ wrong'["code"] = Append(wrong["code"], now)
             /\ doc'.failed = RecordFailure(doc).failed /\ doc'.locked = RecordFailure(doc).locked
    BY <1>0, <2>3, CodeCounted
  <2> QED BY <2>1, <2>2, <2>3
<1>2. Metered(wrong'["answers"], doc'.sqFailed, doc'.sqLocked, SqMaxAttempts)
  <2>1. CASE /\ wrong'["answers"] = wrong["answers"]
             /\ doc'.sqFailed = doc.sqFailed /\ doc'.sqLocked = doc.sqLocked
    BY <1>0, <2>1
  <2>2. CASE wrong'["answers"] = << >> /\ doc'.sqFailed = 0 /\ doc'.sqLocked = 0
    BY <2>2, NoneCounted, LimitTypes
  <2>3. CASE /\ doc.questions /\ ~SqLocked(doc)
             /\ wrong'["answers"] = Append(wrong["answers"], now)
             /\ doc'.sqFailed = RecordSqFailure(doc).sqFailed
             /\ doc'.sqLocked = RecordSqFailure(doc).sqLocked
    BY <1>0, <2>3, AnswersCounted
  <2> QED BY <2>1, <2>2, <2>3
<1> QED BY <1>1, <1>2 DEF Meters, Metered, Counted, Spaced

\* A request as it is examined is the document, and was let through.
LEMMA ExaminedCopy ==
    ASSUME TypeOK, CopiesAgree, LockChecked, NEW b \in Browser, req[b].fresh, req[b].op \notin {"none", "sms"}
    PROVE  /\ req[b].snap = doc
           /\ req[b].at = "save" /\ ~req[b].ok =>
                /\ req[b].op \in {"backup", "smsCode", "emailCode"} => ~Locked(doc)
                /\ req[b].op = "questions" => doc.questions /\ ~SqLocked(doc)
<1>1. req[b].snap = doc
  BY FreshCopy
<1>2. req[b].at = "save" /\ ~req[b].ok =>
        /\ req[b].op \in {"backup", "smsCode", "emailCode"} => ~Locked(req[b].snap)
        /\ req[b].op = "questions" => req[b].snap.questions /\ ~SqLocked(req[b].snap)
  BY DEF LockChecked
<1> QED BY <1>1, <1>2

\* What the functions of RecoveryUtils do to the counters.
LEMMA MeterFields ==
    ASSUME NEW d \in Document, NEW m \in Method
    PROVE  /\ RecordFailure(d).sqFailed = d.sqFailed /\ RecordFailure(d).sqLocked = d.sqLocked
           /\ RecordSqFailure(d).failed = d.failed /\ RecordSqFailure(d).locked = d.locked
           /\ Without(d, m).failed = d.failed /\ Without(d, m).locked = d.locked
           /\ IF m = "security_questions" THEN Without(d, m).sqFailed = 0 /\ Without(d, m).sqLocked = 0
              ELSE Without(d, m).sqFailed = d.sqFailed /\ Without(d, m).sqLocked = d.sqLocked
<1>1. RecordFailure(d).sqFailed = d.sqFailed /\ RecordFailure(d).sqLocked = d.sqLocked
  BY DEF RecordFailure, Document
<1>2. RecordSqFailure(d).failed = d.failed /\ RecordSqFailure(d).locked = d.locked
  BY DEF RecordSqFailure, Document
<1> DEFINE e == [d EXCEPT !.methods = @ \ {m}]
<1>3. e \in Document /\ SameMeters(e, d)
  BY DEF Document, SameMeters
<1>4. Without(d, m) =
        CASE m = "backup_codes" -> [e EXCEPT !.codes = {}, !.codesExp = 0]
          [] m = "secondary_email" -> [e EXCEPT !.addr = 0, !.verified = FALSE, !.addrExp = 0]
          [] m = "security_questions" -> [e EXCEPT !.questions = FALSE, !.sqFailed = 0, !.sqLocked = 0]
          [] m = "sms" -> [e EXCEPT !.sms = 0, !.smsExp = 0]
  BY DEF Without
<1> HIDE DEF e
<1>5. CASE m = "backup_codes"
  <2>1. Without(d, m) = [e EXCEPT !.codes = {}, !.codesExp = 0]
    BY <1>4, <1>5
  <2> QED BY <1>1, <1>2, <1>3, <1>5, <2>1 DEF SameMeters, Document
<1>6. CASE m = "secondary_email"
  <2>1. Without(d, m) = [e EXCEPT !.addr = 0, !.verified = FALSE, !.addrExp = 0]
    BY <1>4, <1>6
  <2> QED BY <1>1, <1>2, <1>3, <1>6, <2>1 DEF SameMeters, Document
<1>7. CASE m = "security_questions"
  <2>1. Without(d, m) = [e EXCEPT !.questions = FALSE, !.sqFailed = 0, !.sqLocked = 0]
    BY <1>4, <1>7
  <2> QED BY <1>1, <1>2, <1>3, <1>7, <2>1 DEF SameMeters, Document
<1>8. CASE m = "sms"
  <2>1. Without(d, m) = [e EXCEPT !.sms = 0, !.smsExp = 0]
    BY <1>4, <1>8
  <2> QED BY <1>1, <1>2, <1>3, <1>8, <2>1 DEF SameMeters, Document
<1> QED BY <1>5, <1>6, <1>7, <1>8 DEF Method

\* What a write leaves in the document, where it is not over an unread change.
LEMMA SavedWhole ==
    ASSUME TypeOK, ~Relational, NEW b \in Browser, NEW d, d \in Document, Save(b, d), ~stale'
    PROVE  doc' = d /\ req[b].fresh /\ ~stale
BY SaveEffect DEF Persisted

LEMMA WritesMeters ==
    ASSUME TypeOK, ~Relational, CopiesAgree, LockChecked, NEW b \in Browser, Writes(b), ~stale'
    PROVE  CodeMeter /\ AnswerMeter
<1> DEFINE e == req[b].snap
<1>0. e \in Document /\ doc \in Document /\ now \in 1..MaxTime
  BY RequestFields DEF TypeOK
<1>1. CASE BackupRefused(b) \/ SmsRefused(b) \/ EmailCodeRefused(b)
  <2>1. /\ Save(b, RecordFailure(e)) /\ CountWrong("code") /\ req[b].at = "save" /\ ~req[b].ok
        /\ req[b].op \in {"backup", "smsCode", "emailCode"}
    BY <1>1 DEF BackupRefused, SmsRefused, EmailCodeRefused, At, Reject
  <2>2. doc' = RecordFailure(e) /\ req[b].fresh
    BY <1>0, <2>1, FailuresType, SavedWhole
  <2>3. e = doc /\ ~Locked(doc)
    BY <2>1, <2>2, ExaminedCopy
  <2>4. RecordFailure(doc).sqFailed = doc.sqFailed /\ RecordFailure(doc).sqLocked = doc.sqLocked
    BY <1>0, MeterFields DEF Method
  <2> QED BY <2>1, <2>2, <2>3, <2>4, WrongKept DEF CodeMeter, AnswerMeter
<1>2. CASE AnswersRefused(b)
  <2>1. /\ Save(b, RecordSqFailure(e)) /\ CountWrong("answers") /\ req[b].at = "save" /\ ~req[b].ok
        /\ req[b].op = "questions"
    BY <1>2 DEF AnswersRefused, At, Reject
  <2>2. doc' = RecordSqFailure(e) /\ req[b].fresh
    BY <1>0, <2>1, FailuresType, SavedWhole
  <2>3. e = doc /\ doc.questions /\ ~SqLocked(doc)
    BY <2>1, <2>2, ExaminedCopy
  <2>4. RecordSqFailure(doc).failed = doc.failed /\ RecordSqFailure(doc).locked = doc.locked
    BY <1>0, MeterFields DEF Method
  <2> QED BY <2>1, <2>2, <2>3, <2>4, WrongKept DEF CodeMeter, AnswerMeter
<1>3. CASE EnableSecondaryEmail(b)
  <2> DEFINE m == e.methods \cup {"secondary_email"}
             d == [e EXCEPT !.methods = m, !.addr = req[b].input, !.verified = FALSE,
                            !.addrExp = now + CodeTicks]
  <2>1. m \subseteq Method /\ now + CodeTicks \in Time
    BY <1>0, Moments DEF Document, Method
  <2>2. Save(b, d) /\ req[b].op = "address" /\ wrong' = wrong
    BY <1>3 DEF EnableSecondaryEmail, At
  <2>3. req[b].fresh => e = doc
    BY <2>2, ExaminedCopy
  <2> HIDE DEF m, e
  <2>4. d \in Document /\ SameMeters(d, e)
    BY <1>0, <2>1, RequestFields DEF Document, SameMeters
  <2> HIDE DEF d
  <2>5. doc' = d /\ req[b].fresh
    BY <2>2, <2>4, SavedWhole
  <2> QED BY <2>2, <2>3, <2>4, <2>5 DEF CodeMeter, AnswerMeter, SameMeters
<1>4. CASE SaveSecurityQuestions(b)
  <2> DEFINE m == e.methods \cup {"security_questions"}
             d == [e EXCEPT !.methods = m, !.questions = TRUE, !.sqFailed = 0, !.sqLocked = 0]
  <2>1. m \subseteq Method /\ 0 \in Time
    BY <1>0, Moments DEF Document, Method
  <2>2. Save(b, d) /\ req[b].op = "setQuestions" /\ NoneWrong("answers")
    BY <1>4 DEF SaveSecurityQuestions, At
  <2>3. req[b].fresh => e = doc
    BY <2>2, ExaminedCopy
  <2> HIDE DEF m, e
  <2>4. /\ d \in Document /\ d.failed = e.failed /\ d.locked = e.locked
        /\ d.sqFailed = 0 /\ d.sqLocked = 0
    BY <1>0, <2>1 DEF Document
  <2> HIDE DEF d
  <2>5. doc' = d /\ req[b].fresh
    BY <2>2, <2>4, SavedWhole
  <2> QED BY <2>2, <2>3, <2>4, <2>5, WrongKept DEF CodeMeter, AnswerMeter
<1>5. CASE VerifyRecoveryEmail(b)
  <2> DEFINE d == [e EXCEPT !.verified = TRUE, !.addrExp = 0]
  <2>1. Save(b, d) /\ req[b].op = "link" /\ wrong' = wrong
    BY <1>5 DEF VerifyRecoveryEmail, At
  <2>2. req[b].fresh => e = doc
    BY <2>1, ExaminedCopy
  <2> HIDE DEF e
  <2>3. d \in Document /\ SameMeters(d, e)
    BY <1>0, Moments DEF Document, SameMeters
  <2> HIDE DEF d
  <2>4. doc' = d /\ req[b].fresh
    BY <2>1, <2>3, SavedWhole
  <2> QED BY <2>1, <2>2, <2>3, <2>4 DEF CodeMeter, AnswerMeter, SameMeters
<1>6. CASE \E m \in Method : DisableRecovery(b, m)
  <2>1. PICK m \in Method : DisableRecovery(b, m)
    BY <1>6
  <2> DEFINE f == Without(e, m)
             all == f.methods = {}
             d == IF all THEN NoRecovery ELSE f
  <2>2. f \in Document /\ NoRecovery \in Document
    BY <1>0, WithoutKeeps, NoRecoveryType
  <2>3. Save(b, d) /\ req[b].op = "disable"
    BY <2>1 DEF DisableRecovery, At
  <2>4. /\ wrong'["code"] = IF all THEN << >> ELSE wrong["code"]
        /\ wrong'["answers"] = IF all \/ m = "security_questions" THEN << >> ELSE wrong["answers"]
    <3> HIDE DEF all
    <3>1. wrong' = [k \in DOMAIN wrong |->
                      IF all \/ (k = "answers" /\ m = "security_questions") THEN << >> ELSE wrong[k]]
      BY <2>1 DEF DisableRecovery, all
    <3>2. DOMAIN wrong = {"code", "answers"}
      BY DEF TypeOK
    <3> QED BY <3>1, <3>2
  <2>5. doc' = d /\ req[b].fresh
    BY <2>2, <2>3, SavedWhole
  <2>6. e = doc
    BY <2>3, <2>5, ExaminedCopy
  <2>7. CASE all
    BY <2>4, <2>5, <2>7 DEF CodeMeter, AnswerMeter, NoRecovery
  <2>8. CASE ~all
    <3>1. doc' = f
      BY <2>5, <2>8
    <3>2. /\ f.failed = doc.failed /\ f.locked = doc.locked
          /\ IF m = "security_questions" THEN f.sqFailed = 0 /\ f.sqLocked = 0
             ELSE f.sqFailed = doc.sqFailed /\ f.sqLocked = doc.sqLocked
      BY <1>0, <2>6, MeterFields
    <3> HIDE DEF f
    <3> QED BY <2>4, <2>8, <3>1, <3>2 DEF CodeMeter, AnswerMeter
  <2> QED BY <2>7, <2>8
<1> QED BY <1>1, <1>2, <1>3, <1>4, <1>5, <1>6 DEF Writes

LEMMA RecoversMeters ==
    ASSUME TypeOK, ~Relational, CopiesAgree, LockChecked, NEW b \in Browser, Recovers(b), ~stale'
    PROVE  CodeMeter /\ AnswerMeter
<1> DEFINE e == req[b].snap
<1>0. e \in Document /\ doc \in Document /\ now \in 1..MaxTime /\ req[b].input \in Code
  BY RequestFields DEF TypeOK
<1>1. ASSUME NEW f \in Document, SameMeters(f, e), Save(b, SetLastRecovered(ClearLockout(f))),
             NoneWrong("code"), req[b].op \notin {"none", "sms"}
      PROVE  CodeMeter /\ AnswerMeter
  <2> DEFINE d == SetLastRecovered(ClearLockout(f))
  <2>1. d \in Document
    BY <1>0, FailuresType
  <2>2. d.failed = 0 /\ d.locked = 0 /\ d.sqFailed = f.sqFailed /\ d.sqLocked = f.sqLocked
    BY DEF SetLastRecovered, ClearLockout, Document
  <2> HIDE DEF d
  <2>3. doc' = d /\ req[b].fresh
    BY <1>1, <2>1, SavedWhole DEF d
  <2>4. e = doc
    BY <1>1, <2>3, ExaminedCopy
  <2> QED BY <1>1, <2>2, <2>3, <2>4, WrongKept DEF CodeMeter, AnswerMeter, SameMeters
<1>2. CASE BackupAccepted(b)
  <2> DEFINE f == [e EXCEPT !.codes = @ \ {req[b].input}]
  <2>1. f \in Document /\ SameMeters(f, e)
    BY <1>0 DEF Document, SameMeters
  <2>2. Save(b, SetLastRecovered(ClearLockout(f))) /\ NoneWrong("code") /\ req[b].op = "backup"
    BY <1>2 DEF BackupAccepted, Accept, At
  <2> HIDE DEF f
  <2> QED BY <1>1, <2>1, <2>2
<1>3. CASE SmsAccepted(b)
  <2> DEFINE f == [e EXCEPT !.sms = 0, !.smsExp = 0]
  <2>1. f \in Document /\ SameMeters(f, e)
    <3>1. 0 \in Code /\ 0 \in Time
      BY Constants DEF Code, Time
    <3> QED BY <1>0, <3>1 DEF Document, SameMeters
  <2>2. Save(b, SetLastRecovered(ClearLockout(f))) /\ NoneWrong("code") /\ req[b].op = "smsCode"
    BY <1>3 DEF SmsAccepted, Accept, At
  <2> HIDE DEF f
  <2> QED BY <1>1, <2>1, <2>2
<1>4. CASE EmailCodeAccepted(b)
  <2>1. Save(b, SetLastRecovered(ClearLockout(e))) /\ NoneWrong("code") /\ req[b].op = "emailCode"
    BY <1>4 DEF EmailCodeAccepted, Accept, At
  <2>2. SameMeters(e, e)
    BY DEF SameMeters
  <2> QED BY <1>0, <1>1, <2>1, <2>2
<1>5. CASE AnswersAccepted(b)
  <2> DEFINE d == SetLastRecovered(ClearSqLockout(e))
  <2>1. Save(b, d) /\ NoneWrong("answers") /\ req[b].op = "questions"
    BY <1>5 DEF AnswersAccepted, Accept, At
  <2>2. d \in Document
    BY <1>0, FailuresType
  <2>3. d.sqFailed = 0 /\ d.sqLocked = 0 /\ d.failed = e.failed /\ d.locked = e.locked
    BY <1>0 DEF SetLastRecovered, ClearSqLockout, Document
  <2> HIDE DEF d
  <2>4. doc' = d /\ req[b].fresh
    BY <2>1, <2>2, SavedWhole
  <2>5. e = doc
    BY <2>1, <2>4, ExaminedCopy
  <2> QED BY <2>1, <2>3, <2>4, <2>5, WrongKept DEF CodeMeter, AnswerMeter
<1> QED BY <1>2, <1>3, <1>4, <1>5 DEF Recovers

LEMMA StoresMeters ==
    ASSUME TypeOK, ~Relational, CopiesAgree, LockChecked, NEW b \in Browser, Stores(b), ~stale'
    PROVE  CodeMeter /\ AnswerMeter
<1> DEFINE e == req[b].snap
<1>0. e \in Document /\ doc \in Document /\ now \in 1..MaxTime /\ req[b].input \in Code
  BY RequestFields DEF TypeOK
<1>1. CASE RecoverySmsSent(b)
  <2>1. Save(b, e) /\ req[b].op = "sms" /\ wrong' = wrong
    BY <1>1 DEF RecoverySmsSent, At
  <2>2. doc' = e /\ req[b].fresh
    BY <1>0, <2>1, SavedWhole
  <2>3. e = [doc EXCEPT !.sms = e.sms, !.smsExp = e.smsExp]
    BY <2>1, <2>2 DEF CopiesAgree, Agrees
  <2>4. SameMeters(e, doc)
    <3> DEFINE n == e.sms
               t == e.smsExp
               f == [doc EXCEPT !.sms = n, !.smsExp = t]
    <3>1. e = f
      BY <2>3
    <3> HIDE DEF n, t
    <3>2. SameMeters(f, doc)
      BY <1>0 DEF Document, SameMeters
    <3> QED BY <3>1, <3>2
  <2> QED BY <2>1, <2>2, <2>4 DEF CodeMeter, AnswerMeter, SameMeters
<1>2. CASE RegenerateBackupCodes(b)
  <2> DEFINE m == e.methods \cup {"backup_codes"}
             s == (req[b].input - CodesPerBatch + 1)..req[b].input
             d == [e EXCEPT !.methods = m, !.codes = s, !.codesExp = now + BackupTicks]
  <2>1. Save(b, d) /\ req[b].op = "regenerate" /\ wrong' = wrong
    BY <1>2 DEF RegenerateBackupCodes, At
  <2>2. req[b].fresh => e = doc
    BY <2>1, ExaminedCopy
  <2>3. m \subseteq Method /\ s \subseteq Code /\ now + BackupTicks \in Time
    <3>1. req[b].input >= CodesPerBatch
      BY <2>1 DEF TypeOK
    <3> QED BY <1>0, <3>1, Moments, Constants DEF Document, Method, Code
  <2> HIDE DEF m, s, e
  <2>4. d \in Document /\ SameMeters(d, e)
    BY <1>0, <2>3 DEF Document, SameMeters
  <2> HIDE DEF d
  <2>5. doc' = d /\ req[b].fresh
    BY <2>1, <2>4, SavedWhole
  <2> QED BY <2>1, <2>2, <2>4, <2>5 DEF CodeMeter, AnswerMeter, SameMeters
<1> QED BY <1>1, <1>2 DEF Stores

\* Requests are let through before their answer is examined.
LEMMA LooksChecked ==
    ASSUME TypeOK, CopiesAgree, LockChecked, NEW b \in Browser, Looks(b) \/ MakesUp(b)
    PROVE  LockChecked'
<1> USE DEF history, outcome
<1> DEFINE Through(x) ==
             req[x].fresh /\ req[x].at = "save" /\ ~req[x].ok =>
               /\ req[x].op \in {"backup", "smsCode", "emailCode"} => ~Locked(req[x].snap)
               /\ req[x].op = "questions" => req[x].snap.questions /\ ~SqLocked(req[x].snap)
<1>0. issued \in Nat /\ (\A c \in 0..issued : c \in Code) /\ \A x \in Browser : Through(x)
  BY Constants DEF TypeOK, Code, LockChecked
<1>1. now' = now
  BY DEF Looks, MakesUp, ProcessAccountRecovery, ProcessRecoveryMethodSelect, ProcessRecoveryBackupCodes,
     VerifyRecoverySms, VerifyRecoveryEmailCode, CheckLockout, ForgetEmailCode, RereadUser,
     ProcessRecoverySecurityQuestions, OpenSettings, OpenVerificationLink, ChangeCredential, Abandon,
     SendRecoverySms, ProcessRecoverySecondaryEmail
<1>2. SUFFICES ASSUME NEW x \in Browser PROVE Through(x)'
  BY DEF LockChecked
<1>3. ASSUME req'[x] = req[x] PROVE Through(x)'
  BY <1>0, <1>1, <1>3 DEF Locked, SqLocked
<1>4. ASSUME NEW op, NEW at, NEW d, NEW c, Started(b, op, at, d, c),
             req'[b].at = "save" /\ ~req'[b].ok =>
               /\ op \in {"backup", "smsCode", "emailCode"} => ~Locked(d)
               /\ op = "questions" => d.questions /\ ~SqLocked(d)
      PROVE  Through(x)'
  <2>1. CASE x = b
    <3>1. req'[b].op = op /\ req'[b].snap = d
      BY <1>4 DEF Started
    <3> QED BY <1>1, <1>4, <2>1, <3>1 DEF Locked, SqLocked
  <2>2. CASE x # b
    <3>1. req'[x] = req[x]
      BY <1>4, <2>2 DEF Started
    <3> QED BY <1>3, <3>1
  <2> QED BY <2>1, <2>2
<1> HIDE DEF Through
<1>5. CASE \E c \in 0..issued : ProcessRecoveryBackupCodes(b, c)
  <2>1. PICK c \in Code : ProcessRecoveryBackupCodes(b, c)
    BY <1>0, <1>5
  <2>2. Started(b, "backup", "save", doc, c)
    BY <2>1, Starts
  <2>3. ~Locked(doc)
    BY <2>1 DEF ProcessRecoveryBackupCodes
  <2> QED BY <1>4, <2>2, <2>3
<1>6. CASE \E c \in 0..issued : VerifyRecoverySms(b, c)
  <2>1. PICK c \in Code : VerifyRecoverySms(b, c)
    BY <1>0, <1>6
  <2>2. Started(b, "smsCode", "lockout", doc, c)
    BY <2>1, Starts
  <2>3. req'[b].at = "lockout"
    BY <2>2 DEF Started
  <2> QED BY <1>4, <2>2, <2>3
<1>7. CASE \E c \in 0..issued : VerifyRecoveryEmailCode(b, c)
  <2>1. PICK c \in Code : VerifyRecoveryEmailCode(b, c)
    BY <1>0, <1>7
  <2>2. Started(b, "emailCode", "reread", doc, c) \/ Started(b, "emailCode", "save", doc, c)
    BY <2>1, Starts
  <2>3. ~Locked(doc)
    BY <2>1 DEF VerifyRecoveryEmailCode
  <2> QED BY <1>4, <2>2, <2>3
<1>8. CASE RereadUser(b)
  <2>1. Started(b, "emailCode", "save", doc, req[b].input) /\ req'[b].ok
    BY <1>8, Starts
  <2> QED BY <1>4, <2>1
<1>9. CASE \E right \in BOOLEAN : ProcessRecoverySecurityQuestions(b, right)
  <2>1. PICK right \in BOOLEAN : ProcessRecoverySecurityQuestions(b, right)
    BY <1>9
  <2>2. Started(b, "questions", "save", doc, 0)
    BY <2>1, Starts
  <2>3. doc.questions /\ ~SqLocked(doc)
    BY <2>1 DEF ProcessRecoverySecurityQuestions
  <2> QED BY <1>4, <2>2, <2>3
<1>10. CASE CheckLockout(b)
  <2>1. CASE Locked(doc) \/ req[b].snap.sms = 0
    <3>1. Drop(b)
      BY <1>10, <2>1 DEF CheckLockout
    <3>2. IF x = b THEN req'[x].at = "idle" ELSE req'[x] = req[x]
      BY <3>1, DropEffect, IdleType
    <3> QED BY <1>3, <3>2 DEF Through
  <2>2. CASE ~(Locked(doc) \/ req[b].snap.sms = 0)
    <3> DEFINE ok == SmsMatches(req[b].snap, req[b].input)
    <3>1. req' = [req EXCEPT ![b].at = "save", ![b].ok = ok] /\ req[b].op = "smsCode"
      BY <1>10, <2>2 DEF CheckLockout, At
    <3> HIDE DEF ok
    <3>2. /\ req'[b].op = "smsCode" /\ req'[b].snap = req[b].snap /\ req'[b].fresh = req[b].fresh
          /\ x # b => req'[x] = req[x]
      BY <3>1 DEF TypeOK, Request
    <3>3. req[b].fresh => req[b].snap = doc
      BY <3>1, FreshCopy
    <3>4. CASE x = b
      BY <1>1, <2>2, <3>2, <3>3, <3>4 DEF Through, Locked
    <3>5. CASE x # b
      BY <1>3, <3>2, <3>5
    <3> QED BY <3>4, <3>5
  <2> QED BY <2>1, <2>2
<1>11. CASE Abandon(b)
  <2>1. IF x = b THEN req'[x].at = "idle" ELSE req'[x] = req[x]
    BY <1>11, DropEffect, IdleType DEF Abandon
  <2> QED BY <1>3, <2>1 DEF Through
<1>12. CASE SendRecoverySms(b)
  <2>1. Started(b, "sms", "send", [doc EXCEPT !.sms = issued + 1, !.smsExp = now + CodeTicks], 0)
    BY <1>12, Starts
  <2> QED BY <1>4, <2>1
<1>13. CASE OpenSettings(b, "regenerate", "backup_codes" \in on, CodesPerBatch)
  <2>1. Started(b, "regenerate", "save", doc, issued + CodesPerBatch)
    BY <1>13, Starts
  <2> QED BY <1>4, <2>1
<1>14. CASE OpenSettings(b, "address", "secondary_email" \in on, 1)
  <2>1. Started(b, "address", "save", doc, issued + 1)
    BY <1>14, Starts
  <2> QED BY <1>4, <2>1
<1>15. CASE OpenSettings(b, "setQuestions", "security_questions" \in on, 0)
  <2>1. Started(b, "setQuestions", "save", doc, issued)
    BY <1>15, Starts
  <2> QED BY <1>4, <2>1
<1>16. CASE OpenSettings(b, "disable", TRUE, 0)
  <2>1. Started(b, "disable", "save", doc, issued)
    BY <1>16, Starts
  <2> QED BY <1>4, <2>1
<1>17. CASE \E c \in Code : OpenVerificationLink(b, c)
  <2>1. PICK c \in Code : OpenVerificationLink(b, c)
    BY <1>17
  <2>2. Started(b, "link", "save", doc, c)
    BY <2>1, Starts
  <2> QED BY <1>4, <2>2
<1>18. CASE \/ ProcessAccountRecovery(b) \/ \E m \in Method : ProcessRecoveryMethodSelect(b, m)
            \/ ForgetEmailCode(b) \/ (\E r \in Route : ChangeCredential(b, r)) \/ ProcessRecoverySecondaryEmail(b)
  <2>1. req' = req
    BY <1>18 DEF ProcessAccountRecovery, ProcessRecoveryMethodSelect, ForgetEmailCode, ChangeCredential,
       ProcessRecoverySecondaryEmail
  <2> QED BY <1>3, <2>1
<1> QED BY <1>5, <1>6, <1>7, <1>8, <1>9, <1>10, <1>11, <1>12, <1>13, <1>14, <1>15, <1>16, <1>17, <1>18
     DEF Looks, MakesUp

\* After a write the other copies are out of date, and nothing is promised of them.
LEMMA WritesChecked ==
    ASSUME TypeOK, NEW b \in Browser, Writes(b) \/ Recovers(b) \/ Stores(b)
    PROVE  LockChecked'
<1>1. PICK d \in Document : Save(b, d)
  BY OneWrite
<1>2. \A x \in Browser : req'[x].at = "idle" \/ ~req'[x].fresh
  <2> SUFFICES ASSUME NEW x \in Browser PROVE req'[x].at = "idle" \/ ~req'[x].fresh
    OBVIOUS
  <2>1. req'[x] = Idle \/ req'[x].fresh = FALSE
    BY <1>1, SaveEffect
  <2> QED BY <2>1, IdleType
<1> QED BY <1>2 DEF LockChecked

LEMMA AttemptsInit == ASSUME Init PROVE AttemptsInv
<1>1. CopiesAgree /\ CodesFound
  BY OnceInit DEF OnceInv
<1>2. LockChecked
  <2>1. \A b \in Browser : req[b].at = "idle"
    BY IdleType DEF Init
  <2> QED BY <2>1 DEF LockChecked
<1>3. Meters
  <2>1. /\ doc.failed = 0 /\ doc.locked = 0 /\ doc.sqFailed = 0 /\ doc.sqLocked = 0
        /\ wrong["code"] = << >> /\ wrong["answers"] = << >>
    BY DEF Init, NoRecovery
  <2> QED BY <2>1, NoneCounted, RecoveryAssumption DEF Meters
<1> QED BY <1>1, <1>2, <1>3 DEF AttemptsInv

LEMMA AttemptsStep == ASSUME TypeOK, ~Relational, AttemptsInv, [Next]_vars PROVE AttemptsInv'
<1> USE DEF history, outcome
<1>0. CopiesAgree /\ CodesFound /\ LockChecked /\ Meters
  BY DEF AttemptsInv
<1>1. ASSUME UNCHANGED <<doc, sess, req, wrong, stale>>, now' \in Nat, now <= now' PROVE AttemptsInv'
  <2>1. CopiesAgree' /\ CodesFound'
    BY <1>0, <1>1 DEF CopiesAgree, CodesFound, Agrees, Found, At
  <2>2. LockChecked'
    <3>1. \A b \in Browser : req[b].snap \in Document
      BY RequestFields
    <3>2. \A t \in Time : ~(t > now) => ~(t > now')
      BY <1>1, LimitTypes, Constants DEF Time
    <3>3. \A d \in Document : (~Locked(d) => ~Locked(d)') /\ (~SqLocked(d) => ~SqLocked(d)')
      BY <3>2 DEF Locked, SqLocked, Document
    <3> QED BY <1>0, <1>1, <3>1, <3>3 DEF LockChecked
  <2>3. Meters'
    <3> DEFINE c == wrong["code"]
               a == wrong["answers"]
    <3>1. ASSUME NEW w \in Seq(1..MaxTime), NEW n, NEW lock, NEW limit, Metered(w, n, lock, limit)
          PROVE  Metered(w, n, lock, limit)'
      BY <1>1, <3>1, LimitTypes, LaterCounted
    <3>2. CASE stale
      BY <1>1, <3>2 DEF Meters
    <3>3. CASE ~stale
      <4>1. /\ Metered(c, doc.failed, doc.locked, MaxAttempts)
            /\ Metered(a, doc.sqFailed, doc.sqLocked, SqMaxAttempts)
        BY <1>0, <3>3 DEF Meters
      <4> QED BY <1>1, <4>1, <3>1, LimitTypes DEF Meters
    <3> QED BY <3>2, <3>3
  <2> QED BY <2>1, <2>2, <2>3 DEF AttemptsInv
<1>2. ASSUME NEW b \in Browser, Looks(b) \/ MakesUp(b) PROVE AttemptsInv'
  <2>1. CopiesAgree' /\ CodesFound' /\ LockChecked'
    BY <1>0, <1>2, LookRequests, LooksChecked
  <2>2. UNCHANGED <<doc, wrong, now, stale>>
    BY <1>2 DEF Looks, MakesUp, ProcessAccountRecovery, ProcessRecoveryMethodSelect,
       ProcessRecoveryBackupCodes, VerifyRecoverySms, VerifyRecoveryEmailCode, CheckLockout,
       ForgetEmailCode, RereadUser, ProcessRecoverySecurityQuestions, OpenSettings,
       OpenVerificationLink, ChangeCredential, Abandon, SendRecoverySms, ProcessRecoverySecondaryEmail
  <2>3. Meters'
    BY <1>0, <2>2, MetersMove DEF CodeMeter, AnswerMeter
  <2> QED BY <2>1, <2>3 DEF AttemptsInv
<1>3. ASSUME NEW b \in Browser, Writes(b) \/ Recovers(b) \/ Stores(b) PROVE AttemptsInv'
  <2>1. CopiesAgree' /\ CodesFound' /\ LockChecked'
    BY <1>0, <1>3, WriteRequests, WritesChecked
  <2>2. now' = now
    BY <1>3 DEF Writes, Recovers, Stores, BackupRefused, SmsRefused, EmailCodeRefused, AnswersRefused,
       EnableSecondaryEmail, SaveSecurityQuestions, VerifyRecoveryEmail, DisableRecovery,
       BackupAccepted, SmsAccepted, EmailCodeAccepted, AnswersAccepted, RecoverySmsSent,
       RegenerateBackupCodes
  <2>3. stale => stale'
    <3>1. PICK d \in Document : Save(b, d)
      BY <1>3, OneWrite
    <3> QED BY <3>1 DEF Save
  <2>4. ~stale' => CodeMeter /\ AnswerMeter
    BY <1>0, <1>3, WritesMeters, RecoversMeters, StoresMeters
  <2>5. Meters'
    BY <1>0, <2>2, <2>3, <2>4, MetersMove
  <2> QED BY <2>1, <2>5 DEF AttemptsInv
<1>4. CASE Tick
  <2>1. now' \in Nat /\ now <= now'
    BY <1>4, LimitTypes DEF Tick
  <2> QED BY <1>1, <1>4, <2>1 DEF Tick
<1>5. CASE UNCHANGED vars
  <2>1. now' \in Nat /\ now <= now'
    BY <1>5, LimitTypes DEF vars
  <2> QED BY <1>1, <1>5, <2>1 DEF vars
<1> QED BY <1>2, <1>3, <1>4, <1>5, StepKinds

\* With MongoDB, which stores the lockout, no lockout period sees more than the allowed
\* wrong codes or sets of wrong answers examined, for any limits and any number of
\* browsers, stale writes and settings that start a new count apart.
THEOREM WrongAnswersLimited == ~Relational => (Spec => []AttemptsLimited)
<1> SUFFICES ASSUME ~Relational PROVE Spec => []AttemptsLimited
  OBVIOUS
<1>1. Init => TypeOK /\ AttemptsInv
  BY InitTypes, AttemptsInit
<1>2. TypeOK /\ AttemptsInv /\ [Next]_vars => TypeOK' /\ AttemptsInv'
  BY NextTypes, AttemptsStep
<1>3. TypeOK /\ AttemptsInv => AttemptsLimited
  BY MetersAre DEF AttemptsInv
<1> QED BY <1>1, <1>2, <1>3, PTL DEF Spec
=============================================================================
