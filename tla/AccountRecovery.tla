-------------------------- MODULE AccountRecovery --------------------------
(***************************************************************************)
(* Account recovery: the recovery document of one user, the browsers that  *)
(* try to recover the account with a backup code, an SMS code, a code sent *)
(* to the secondary e-mail or the security questions, and the settings     *)
(* pages that change the document meanwhile.                               *)
(*                                                                         *)
(* Every handler reads the user, works on its copy of user.recovery across *)
(* its awaits (hashing, sending, a second read) and writes the WHOLE copy  *)
(* back with updateById.  A browser has one request in flight; requests of *)
(* different browsers interleave between the read and the write.  Codes,   *)
(* tokens and addresses are numbers given out once; 0 is none, and as a    *)
(* submitted code it is a wrong one.                                       *)
(***************************************************************************)
EXTENDS Naturals, Sequences

CONSTANTS
    Browser,
    Owner,          \* browsers that are signed in from the start
    Deployments,    \* sets of methods a deployment may have switched on
    MaxAttempts,    \* RecoveryUtils.MAX_RECOVERY_ATTEMPTS
    SqMaxAttempts,  \* SECURITY_QUESTIONS_MAX_ATTEMPTS
    LockTicks,      \* both lockout durations, in ticks
    CodeTicks,      \* life of an SMS, e-mail or verification code
    CooldownTicks,  \* RECOVERY_COOLDOWN_HOURS
    CodesPerBatch,  \* backup codes generated at once
    BackupTicks,    \* their life, BACKUP_CODE_EXPIRY_DAYS
    Relational,     \* the Prisma repository; FALSE: MongoDB
    MaxCode,        \* bound: codes, tokens and addresses given out
    MaxTime         \* bound: last tick of the clock

ASSUME RecoveryAssumption ==
    /\ Owner \subseteq Browser
    /\ Deployments \subseteq SUBSET {"backup_codes", "secondary_email", "security_questions", "sms"}
    /\ {MaxAttempts, SqMaxAttempts, LockTicks, CodeTicks, CooldownTicks, CodesPerBatch,
        BackupTicks} \subseteq Nat \ {0}
    /\ Relational \in BOOLEAN
    \* The bounds leave room for what is there at the start.
    /\ MaxCode \in Nat /\ MaxCode > CodesPerBatch /\ MaxTime \in Nat \ {0}

VARIABLES
    on,       \* the methods switched on in the configuration, for good
    doc,      \* user.recovery as stored
    sess,     \* sess[b]: what the session of browser b holds
    req,      \* req[b]: the request of b that is between a read and its write
    issued,   \* codes, tokens and addresses given out so far
    now,
    \* History, read by the properties only.
    accepted, \* codes that have recovered the account
    reused,   \* ... and the ones that did so twice
    wrong,    \* wrong[k]: the ticks at which wrong answers of kind k were examined
    recovered,\* when the account was last recovered
    wiped,    \* since then disableRecovery removed the last method
    early,    \* routes by which a credential was changed during a cooldown, wiped ones apart
    undated,  \* a copy was written over a document that a later recovery had dated
    stale     \* a copy was written over a document that had changed since

outcome == <<accepted, reused, recovered, wiped>>
history == <<outcome, wrong, early, undated, stale>>
vars == <<on, doc, sess, req, issued, now, history>>

Method == {"backup_codes", "secondary_email", "security_questions", "sms"}
Time == 0..(MaxTime + LockTicks + CodeTicks + BackupTicks)
Code == 0..MaxCode

\* What is left when the last method is disabled.
NoRecovery ==
    [methods |-> {}, codes |-> {}, codesExp |-> 0, sms |-> 0, smsExp |-> 0,
     addr |-> 0, verified |-> FALSE, addrExp |-> 0,
     questions |-> FALSE, sqFailed |-> 0, sqLocked |-> 0,
     failed |-> 0, locked |-> 0, last |-> 0]

NoAttempt == [avail |-> {}, method |-> "none", smsSent |-> FALSE]
NoSession == [try |-> NoAttempt, code |-> 0, codeExp |-> 0, auth |-> FALSE]
Idle == [op |-> "none", at |-> "idle", snap |-> NoRecovery, input |-> 0, ok |-> FALSE, fresh |-> TRUE]

\* The user has set up every method that is switched on; issued numbers were
\* given to the backup codes and to the address.
Init ==
    /\ on \in Deployments
    /\ LET batch == IF "backup_codes" \in on THEN CodesPerBatch ELSE 0
           mail == IF "secondary_email" \in on THEN 1 ELSE 0
       IN  /\ issued = batch + mail
           /\ doc = [NoRecovery EXCEPT
                       !.methods = on \ {"sms"},
                       !.codes = 1..batch, !.codesExp = IF batch = 0 THEN 0 ELSE 1 + BackupTicks,
                       !.addr = mail * (batch + mail), !.verified = mail = 1,
                       !.questions = "security_questions" \in on]
    /\ sess = [b \in Browser |-> [NoSession EXCEPT !.auth = b \in Owner]]
    /\ req = [b \in Browser |-> Idle]
    /\ now = 1
    /\ accepted = {} /\ reused = {} /\ recovered = 0
    /\ wrong = [k \in {"code", "answers"} |-> << >>]
    /\ wiped = FALSE /\ early = {} /\ undated = FALSE /\ stale = FALSE

-----------------------------------------------------------------------------
(* RecoveryUtils: pure functions of a copy d of the document.              *)

\* checkRecoveryLockout and checkSecurityQuestionsLockout.
Locked(d) == d.locked > now
SqLocked(d) == d.questions /\ d.sqLocked > now

\* Mutant: the counter starts again when the lock is set.
RecordFailureThatForgets(d) ==
    IF d.failed + 1 >= MaxAttempts
      THEN [d EXCEPT !.failed = 0, !.locked = 0]
      ELSE [d EXCEPT !.failed = @ + 1]

\* recordFailedRecoveryAttempt: a lock that is over starts a new count.
RecordFailure(d) ==
    LET over == d.locked # 0 /\ d.locked <= now
        n == (IF over THEN 0 ELSE d.failed) + 1
    IN  [d EXCEPT !.failed = n,
                  !.locked = IF n >= MaxAttempts THEN now + LockTicks
                             ELSE IF over THEN 0 ELSE @]

\* recordFailedSecurityQuestionAttempt.
RecordSqFailure(d) ==
    LET over == d.sqLocked # 0 /\ d.sqLocked <= now
        n == (IF over THEN 0 ELSE d.sqFailed) + 1
    IN  [d EXCEPT !.sqFailed = n,
                  !.sqLocked = IF n >= SqMaxAttempts THEN now + LockTicks
                               ELSE IF over THEN 0 ELSE @]

ClearLockout(d) == [d EXCEPT !.failed = 0, !.locked = 0]
ClearSqLockout(d) == [d EXCEPT !.sqFailed = 0, !.sqLocked = 0]
\* Mutant: the time of the recovery is not kept.
ForgetRecovery(d) == d

SetLastRecovered(d) == [d EXCEPT !.last = now]

\* checkRecoveryCooldown.
InCooldown(d) == d.last # 0 /\ d.last + CooldownTicks > now

\* verifyUserBackupCode: expired sets and used codes match nothing.
BackupMatches(d, c) == c \in d.codes /\ d.codesExp >= now

\* verifySmsCode.
SmsMatches(d, c) == c = d.sms /\ d.smsExp >= now

\* RecoveryService.getAvailableMethods; the user has a phone number.
Available(d) ==
    {m \in on :
        \/ m = "backup_codes" /\ d.codes # {} /\ d.codesExp >= now
        \/ m = "secondary_email" /\ d.addr # 0 /\ d.verified
        \/ m = "security_questions" /\ d.questions
        \/ m = "sms"}

\* What PrismaUserRepository.update stores of a document: the tables have no
\* columns for lockout and last_recovered_at, and the counters of the security
\* questions are read back only while there are questions.
Persisted(d) ==
    IF Relational
      THEN [d EXCEPT !.failed = 0, !.locked = 0, !.last = 0,
                     !.sqFailed = IF d.questions THEN @ ELSE 0,
                     !.sqLocked = IF d.questions THEN @ ELSE 0]
      ELSE d

-----------------------------------------------------------------------------
(* The steps every handler is made of.                                     *)

CanStart(b) == req[b].at = "idle"

\* A handler reads the user, makes its copy d of the document and goes on to
\* wait at step at.
Work(b, op, at, d, c, ok) ==
    req' = [req EXCEPT ![b] = [op |-> op, at |-> at, snap |-> d, input |-> c, ok |-> ok,
                               fresh |-> TRUE]]
Read(b, op, at, c, ok) == Work(b, op, at, doc, c, ok)

At(b, op, at) == req[b].op = op /\ req[b].at = at

\* updateById with the whole document d ends the request; the copies of the
\* other requests are out of date from then on.
Save(b, d) ==
    /\ doc' = Persisted(d)
    /\ req' = [x \in Browser |->
                 IF x = b \/ req[x].at = "idle" THEN Idle ELSE [req[x] EXCEPT !.fresh = FALSE]]
    /\ stale' = (stale \/ ~req[b].fresh)
    /\ undated' = (undated \/ (~req[b].fresh /\ d.last < doc.last))

\* The request ends without a write.
Drop(b) == req' = [req EXCEPT ![b] = Idle]

CountWrong(k) == wrong' = [wrong EXCEPT ![k] = Append(@, now)]
NoneWrong(k) == wrong' = [wrong EXCEPT ![k] = << >>]

\* The history of a submission of code c (0: answers) that was right.
Accept(k, c) ==
    /\ accepted' = accepted \cup ({c} \ {0})
    /\ reused' = reused \cup ({c} \cap accepted)
    /\ recovered' = now /\ wiped' = FALSE
    /\ NoneWrong(k)

Reject(k) == CountWrong(k) /\ UNCHANGED outcome

\* remove(recoveryAttempt) and setAuthenticated; the other keys stay.
SignIn(b, keepCode) ==
    sess' = [sess EXCEPT ![b].try = NoAttempt, ![b].auth = TRUE,
                         ![b].code = IF keepCode THEN @ ELSE 0,
                         ![b].codeExp = IF keepCode THEN @ ELSE 0]

-----------------------------------------------------------------------------
(* AuthController: choosing a method.                                      *)

\* processAccountRecovery: the methods of the moment go into the session; a
\* secondary e-mail code of an earlier attempt stays there.
ProcessAccountRecovery(b) ==
    /\ CanStart(b)
    /\ Available(doc) # {}
    /\ sess' = [sess EXCEPT ![b].try = [NoAttempt EXCEPT !.avail = Available(doc)]]
    /\ UNCHANGED <<on, doc, req, issued, now, history>>

\* processRecoveryMethodSelect: the list may be out of date, smsSent is kept.
ProcessRecoveryMethodSelect(b, m) ==
    /\ CanStart(b)
    /\ m \in sess[b].try.avail
    /\ sess' = [sess EXCEPT ![b].try.method = m]
    /\ UNCHANGED <<on, doc, req, issued, now, history>>

-----------------------------------------------------------------------------
(* AuthController.processRecoveryBackupCodes.                              *)

ProcessRecoveryBackupCodes(b, c) ==
    /\ CanStart(b)
    /\ sess[b].try.method = "backup_codes"
    /\ doc.codesExp # 0 /\ ~Locked(doc)
    /\ Read(b, "backup", "save", c, BackupMatches(doc, c))
    /\ UNCHANGED <<on, doc, sess, issued, now, history>>

BackupRefused(b) ==
    /\ At(b, "backup", "save") /\ ~req[b].ok
    /\ Save(b, RecordFailure(req[b].snap))
    /\ Reject("code")
    /\ UNCHANGED <<on, sess, issued, now, early>>

\* Mutant: the accepted code stays in the document.
BackupKept(b) ==
    /\ At(b, "backup", "save") /\ req[b].ok
    /\ Save(b, SetLastRecovered(ClearLockout(req[b].snap)))
    /\ Accept("code", req[b].input)
    /\ SignIn(b, TRUE)
    /\ UNCHANGED <<on, issued, now, early>>

\* The matched code leaves the copy, the lockout is cleared, and the whole copy
\* is written back.
BackupAccepted(b) ==
    /\ At(b, "backup", "save") /\ req[b].ok
    /\ Save(b, SetLastRecovered(ClearLockout(
                 [req[b].snap EXCEPT !.codes = @ \ {req[b].input}])))
    /\ Accept("code", req[b].input)
    /\ SignIn(b, TRUE)
    /\ UNCHANGED <<on, issued, now, early>>

-----------------------------------------------------------------------------
(* AuthController.processRecoverySms and the SMS branch of                 *)
(* processRecoveryVerifyCode with verifyAndConsumeSmsRecoveryCode.         *)

\* The code exists from here on; the provider is still to deliver it.
SendRecoverySms(b) ==
    /\ CanStart(b)
    /\ sess[b].try.method = "sms"
    /\ issued < MaxCode /\ issued' = issued + 1
    /\ Work(b, "sms", "send", [doc EXCEPT !.sms = issued + 1, !.smsExp = now + CodeTicks], 0, FALSE)
    /\ UNCHANGED <<on, doc, sess, now, history>>

RecoverySmsSent(b) ==
    /\ At(b, "sms", "send")
    /\ Save(b, req[b].snap)
    /\ sess' = [sess EXCEPT ![b].try.smsSent = TRUE]
    /\ UNCHANGED <<on, issued, now, outcome, wrong, early>>

SmsChallenge(b) == sess[b].try.method = "sms" /\ sess[b].try.smsSent

VerifyRecoverySms(b, c) ==
    /\ CanStart(b) /\ SmsChallenge(b)
    /\ Read(b, "smsCode", "lockout", c, FALSE)
    /\ UNCHANGED <<on, doc, sess, issued, now, history>>

\* checkLockout reads the user again; the code is compared with the first copy.
CheckLockout(b) ==
    /\ At(b, "smsCode", "lockout")
    /\ IF Locked(doc) \/ req[b].snap.sms = 0
         THEN Drop(b)
         ELSE req' = [req EXCEPT ![b].at = "save",
                                 ![b].ok = SmsMatches(req[b].snap, req[b].input)]
    /\ UNCHANGED <<on, doc, sess, issued, now, history>>

SmsRefused(b) ==
    /\ At(b, "smsCode", "save") /\ ~req[b].ok
    /\ Save(b, RecordFailure(req[b].snap))
    /\ Reject("code")
    /\ UNCHANGED <<on, sess, issued, now, early>>

SmsAccepted(b) ==
    /\ At(b, "smsCode", "save") /\ req[b].ok
    /\ Save(b, SetLastRecovered(ClearLockout([req[b].snap EXCEPT !.sms = 0, !.smsExp = 0])))
    /\ Accept("code", req[b].input)
    /\ SignIn(b, TRUE)
    /\ UNCHANGED <<on, issued, now, early>>

-----------------------------------------------------------------------------
(* AuthController.processRecoverySecondaryEmail and the e-mail branch of   *)
(* processRecoveryVerifyCode: the code is in the session, not in the row.  *)

ProcessRecoverySecondaryEmail(b) ==
    /\ CanStart(b)
    /\ sess[b].try.method = "secondary_email"
    /\ doc.addr # 0 /\ doc.verified
    /\ issued < MaxCode /\ issued' = issued + 1
    /\ sess' = [sess EXCEPT ![b].code = issued + 1, ![b].codeExp = now + CodeTicks]
    /\ UNCHANGED <<on, doc, req, now, history>>

EmailChallenge(b) == sess[b].code # 0 /\ ~SmsChallenge(b)

\* An expired code, or one whose mail could not be sent, leaves the session.
ForgetEmailCode(b) ==
    /\ CanStart(b) /\ EmailChallenge(b)
    /\ sess' = [sess EXCEPT ![b].code = 0, ![b].codeExp = 0]
    /\ UNCHANGED <<on, doc, req, issued, now, history>>

\* The read for the lockout; a right code reads the user once more.
VerifyRecoveryEmailCode(b, c) ==
    /\ CanStart(b) /\ EmailChallenge(b)
    /\ sess[b].codeExp > now /\ ~Locked(doc)
    /\ Read(b, "emailCode", IF c = sess[b].code THEN "reread" ELSE "save", c, FALSE)
    /\ UNCHANGED <<on, doc, sess, issued, now, history>>

RereadUser(b) ==
    /\ At(b, "emailCode", "reread")
    /\ Read(b, "emailCode", "save", req[b].input, TRUE)
    /\ UNCHANGED <<on, doc, sess, issued, now, history>>

EmailCodeRefused(b) ==
    /\ At(b, "emailCode", "save") /\ ~req[b].ok
    /\ Save(b, RecordFailure(req[b].snap))
    /\ Reject("code")
    /\ UNCHANGED <<on, sess, issued, now, early>>

EmailCodeAccepted(b) ==
    /\ At(b, "emailCode", "save") /\ req[b].ok
    /\ Save(b, SetLastRecovered(ClearLockout(req[b].snap)))
    /\ Accept("code", req[b].input)
    /\ SignIn(b, FALSE)
    /\ UNCHANGED <<on, issued, now, early>>

-----------------------------------------------------------------------------
(* AuthController.processRecoverySecurityQuestions with                    *)
(* RecoveryService.verifySecurityQuestions.                                *)

ProcessRecoverySecurityQuestions(b, right) ==
    /\ CanStart(b)
    /\ sess[b].try.method = "security_questions"
    /\ doc.questions /\ ~SqLocked(doc)
    /\ Read(b, "questions", "save", 0, right)
    /\ UNCHANGED <<on, doc, sess, issued, now, history>>

AnswersRefused(b) ==
    /\ At(b, "questions", "save") /\ ~req[b].ok
    /\ Save(b, RecordSqFailure(req[b].snap))
    /\ Reject("answers")
    /\ UNCHANGED <<on, sess, issued, now, early>>

AnswersAccepted(b) ==
    /\ At(b, "questions", "save") /\ req[b].ok
    /\ Save(b, SetLastRecovered(ClearSqLockout(req[b].snap)))
    /\ Accept("answers", 0)
    /\ SignIn(b, TRUE)
    /\ UNCHANGED <<on, issued, now, early>>

-----------------------------------------------------------------------------
(* AccountController: the recovery settings of a signed-in user.           *)

\* Every settings handler reads the user first; input is the identifier (or the
\* last of the batch of identifiers) the request makes up.
OpenSettings(b, op, enabled, n) ==
    /\ CanStart(b) /\ sess[b].auth /\ enabled
    /\ issued + n <= MaxCode /\ issued' = issued + n
    /\ Read(b, op, "save", issued + n, FALSE)
    /\ UNCHANGED <<on, doc, sess, now, history>>

\* regenerateBackupCodes, and enableRecovery with method backup_codes.
RegenerateBackupCodes(b) ==
    /\ At(b, "regenerate", "save")
    /\ LET last == req[b].input
       IN  Save(b, [req[b].snap EXCEPT !.methods = @ \cup {"backup_codes"},
                                       !.codes = (last - CodesPerBatch + 1)..last,
                                       !.codesExp = now + BackupTicks])
    /\ UNCHANGED <<on, sess, issued, now, outcome, wrong, early>>

\* enableRecovery with method secondary_email; the mail goes out afterwards.
EnableSecondaryEmail(b) ==
    /\ At(b, "address", "save")
    /\ Save(b, [req[b].snap EXCEPT !.methods = @ \cup {"secondary_email"},
                                   !.addr = req[b].input, !.verified = FALSE,
                                   !.addrExp = now + CodeTicks])
    /\ UNCHANGED <<on, sess, issued, now, outcome, wrong, early>>

\* saveSecurityQuestions: new questions come without the old counters.
SaveSecurityQuestions(b) ==
    /\ At(b, "setQuestions", "save")
    /\ Save(b, [req[b].snap EXCEPT !.methods = @ \cup {"security_questions"},
                                   !.questions = TRUE, !.sqFailed = 0, !.sqLocked = 0])
    /\ NoneWrong("answers")
    /\ UNCHANGED <<on, sess, issued, now, outcome, early>>

\* The part of the document that belongs to a method.
Without(d, m) ==
    LET e == [d EXCEPT !.methods = @ \ {m}]
    IN  CASE m = "backup_codes" -> [e EXCEPT !.codes = {}, !.codesExp = 0]
          [] m = "secondary_email" -> [e EXCEPT !.addr = 0, !.verified = FALSE, !.addrExp = 0]
          [] m = "security_questions" -> [e EXCEPT !.questions = FALSE, !.sqFailed = 0, !.sqLocked = 0]
          [] m = "sms" -> [e EXCEPT !.sms = 0, !.smsExp = 0]

\* disableRecovery: with the last method everything goes, the lockout and the
\* time of the last recovery included.
DisableRecovery(b, m) ==
    /\ At(b, "disable", "save")
    /\ LET d == Without(req[b].snap, m)
           all == d.methods = {}
       IN  /\ Save(b, IF all THEN NoRecovery ELSE d)
           /\ wiped' = (wiped \/ all)
           /\ wrong' = [k \in DOMAIN wrong |->
                          IF all \/ (k = "answers" /\ m = "security_questions")
                            THEN << >> ELSE wrong[k]]
    /\ UNCHANGED <<on, sess, issued, now, accepted, reused, recovered, early>>

\* verifyRecoveryEmail: the link needs no session, the row is found by its token.
OpenVerificationLink(b, c) ==
    /\ CanStart(b)
    /\ c # 0 /\ c = doc.addr /\ ~doc.verified /\ doc.addrExp >= now
    /\ Read(b, "link", "save", c, TRUE)
    /\ UNCHANGED <<on, doc, sess, issued, now, history>>

VerifyRecoveryEmail(b) ==
    /\ At(b, "link", "save")
    /\ Save(b, [req[b].snap EXCEPT !.verified = TRUE, !.addrExp = 0])
    /\ UNCHANGED <<on, sess, issued, now, outcome, wrong, early>>

InsideCooldown == recovered # 0 /\ now < recovered + CooldownTicks /\ ~wiped

\* How a password or a second factor changes.  Only the pages for the password and
\* for switching MFA off ask for the cooldown.  The link of a password reset needs
\* no session; setting MFA up does; an administrator is somebody else.
Asking == {"changePassword", "disableMfa"}
Route == Asking \cup {"setupMfa", "resetLink", "admin"}

\* A change is dated by its first look at the user; what it writes later leaves the
\* recovery document alone.
ChangeCredential(b, r) ==
    /\ CanStart(b)
    /\ r \in Asking \cup {"setupMfa"} => sess[b].auth
    /\ r \in Asking => ~InCooldown(doc)
    /\ early' = IF InsideCooldown THEN early \cup {r} ELSE early
    /\ UNCHANGED <<on, doc, sess, req, issued, now, outcome, wrong, undated, stale>>

-----------------------------------------------------------------------------

\* A hash, a delivery or a query failed, or the process stopped: the handler
\* ends before its write.
Abandon(b) ==
    /\ req[b].at # "idle"
    /\ Drop(b)
    /\ UNCHANGED <<on, doc, sess, issued, now, history>>

Tick == now < MaxTime /\ now' = now + 1 /\ UNCHANGED <<on, doc, sess, req, issued, history>>

Settings(b) ==
    \/ OpenSettings(b, "regenerate", "backup_codes" \in on, CodesPerBatch) \/ RegenerateBackupCodes(b)
    \/ OpenSettings(b, "address", "secondary_email" \in on, 1) \/ EnableSecondaryEmail(b)
    \/ OpenSettings(b, "setQuestions", "security_questions" \in on, 0) \/ SaveSecurityQuestions(b)
    \/ OpenSettings(b, "disable", TRUE, 0) \/ \E m \in Method : DisableRecovery(b, m)
    \/ \E c \in Code : OpenVerificationLink(b, c)
    \/ VerifyRecoveryEmail(b)
    \/ \E r \in Route : ChangeCredential(b, r)

Recover(b) ==
    \/ ProcessAccountRecovery(b) \/ \E m \in Method : ProcessRecoveryMethodSelect(b, m)
    \/ \E c \in 0..issued : \/ ProcessRecoveryBackupCodes(b, c)
                            \/ VerifyRecoverySms(b, c)
                            \/ VerifyRecoveryEmailCode(b, c)
    \/ BackupRefused(b) \/ BackupAccepted(b)
    \/ SendRecoverySms(b) \/ RecoverySmsSent(b) \/ CheckLockout(b)
    \/ SmsRefused(b) \/ SmsAccepted(b)
    \/ ProcessRecoverySecondaryEmail(b) \/ ForgetEmailCode(b) \/ RereadUser(b)
    \/ EmailCodeRefused(b) \/ EmailCodeAccepted(b)
    \/ \E right \in BOOLEAN : ProcessRecoverySecurityQuestions(b, right)
    \/ AnswersRefused(b) \/ AnswersAccepted(b)

Next ==
    \/ Tick
    \/ \E b \in Browser : Recover(b) \/ Settings(b) \/ Abandon(b)

Spec == Init /\ [][Next]_vars

-----------------------------------------------------------------------------

Document ==
    [methods : SUBSET Method, codes : SUBSET Code, codesExp : Time, sms : Code, smsExp : Time,
     addr : Code, verified : BOOLEAN, addrExp : Time,
     questions : BOOLEAN, sqFailed : Nat, sqLocked : Time,
     failed : Nat, locked : Time, last : Time]

Session ==
    [try : [avail : SUBSET Method, method : Method \cup {"none"}, smsSent : BOOLEAN],
     code : Code, codeExp : Time, auth : BOOLEAN]

Request ==
    [op : {"none", "backup", "sms", "smsCode", "emailCode", "questions", "regenerate", "address",
           "setQuestions", "disable", "link"},
     at : {"idle", "send", "lockout", "reread", "save"},
     snap : Document, input : Code, ok : BOOLEAN, fresh : BOOLEAN]

\* Type invariant of the row, the sessions, the requests and the history.  The
\* numbers of a new set of backup codes are the last ones given out.
TypeOK ==
    /\ on \subseteq Method
    /\ doc \in Document
    /\ sess \in [Browser -> Session]
    /\ req \in [Browser -> Request]
    /\ \A b \in Browser : req[b].op = "regenerate" => req[b].input >= CodesPerBatch
    /\ issued \in Code /\ now \in 1..MaxTime
    /\ accepted \subseteq Code /\ reused \subseteq accepted
    /\ wrong \in [{"code", "answers"} -> Seq(1..MaxTime)]
    /\ recovered \in Time /\ {wiped, undated, stale} \subseteq BOOLEAN /\ early \subseteq Route

\* No code recovers the account twice - not a backup code whose batch was replaced
\* meanwhile, not an SMS code that another attempt replaced, not an e-mail code left
\* in a session - unless a handler wrote its copy over a change it had not read.
\* (docs/authentication.md: "Each code can be used once.")
CodesUsedOnce == reused # {} => stale

\* The same promise without the exception.
EachCodeOnce == reused = {}

\* How many wrong answers of kind k are allowed in a row.
Limit(k) == IF k = "code" THEN MaxAttempts ELSE SqMaxAttempts

\* However the wrong codes are spread over backup codes, SMS and e-mail and over
\* browsers, no lockout period sees more than MaxAttempts of them examined, and no
\* more than SqMaxAttempts sets of wrong answers: one more is a period after the one
\* as many before.  Settings that start a new count and stale writes apart
\* (recordFailedRecoveryAttempt, checkRecoveryLockout).
AttemptsLimited ==
    stale \/ \A k \in DOMAIN wrong : \A i \in 1..Len(wrong[k]) :
        i > Limit(k) => wrong[k][i] >= wrong[k][i - Limit(k)] + LockTicks

\* After a recovery, by whichever method, the pages that ask for the cooldown change
\* neither the password nor MFA until it is over, unless the recovery document went
\* away with its last method, or a copy made before that recovery was written over
\* it: no other of the handlers that rewrite the document, stale or not, ends a
\* cooldown (checkRecoveryCooldown, setLastRecoveredAt).
CooldownKept == early \cap Asking # {} => undated

\* "During cooldown, password/MFA changes are restricted" (utils/recovery.ts:869).
RestrictedDuringCooldown == early = {}

-----------------------------------------------------------------------------
(* What the properties rest on, each an invariant of its own.              *)

\* A copy that is up to date is the document; the one that brings a new SMS code
\* differs in nothing else.
Agrees(b) ==
    req[b].op # "none" /\ req[b].fresh =>
        req[b].snap = IF req[b].op = "sms"
                        THEN [doc EXCEPT !.sms = req[b].snap.sms, !.smsExp = req[b].snap.smsExp]
                        ELSE doc

\* A submission is found right only where its code was found.
Found(b) ==
    /\ At(b, "backup", "save") /\ req[b].ok => req[b].input \in req[b].snap.codes
    /\ At(b, "smsCode", "save") /\ req[b].ok => req[b].input = req[b].snap.sms /\ req[b].input # 0
    /\ At(b, "emailCode", "reread") \/ (At(b, "emailCode", "save") /\ req[b].ok)
         => req[b].input = sess[b].code /\ req[b].input # 0

CopiesAgree == \A b \in Browser : Agrees(b)
CodesFound == \A b \in Browser : Found(b)

\* The codes a request has made up and not stored yet.
Unsaved(b) ==
    CASE req[b].op = "sms" -> {req[b].snap.sms}
      [] req[b].op = "regenerate" -> (req[b].input - CodesPerBatch + 1)..req[b].input
      [] OTHER -> {}

Sent(b) == {sess[b].code} \ {0}
Stored == doc.codes \cup ({doc.sms} \ {0})

\* Every code that can still recover the account has been given out, has not done
\* so yet and is in one place only.
CodesApart ==
    /\ accepted \cup Stored \subseteq 1..issued
    /\ doc.sms \notin doc.codes /\ accepted \cap Stored = {}
    /\ \A b \in Browser :
         /\ Sent(b) \cup Unsaved(b) \subseteq 1..issued
         /\ Sent(b) \cap Unsaved(b) = {}
         /\ (Sent(b) \cup Unsaved(b)) \cap (accepted \cup Stored) = {}
    /\ \A b, c \in Browser : b # c =>
         (Sent(b) \cup Unsaved(b)) \cap (Sent(c) \cup Unsaved(c)) = {}

UnlessStale == stale \/ CodesApart

\* A wrong answer is examined only where nobody was locked out.
LockChecked ==
    \A b \in Browser : req[b].fresh /\ req[b].at = "save" /\ ~req[b].ok =>
        /\ req[b].op \in {"backup", "smsCode", "emailCode"} => ~Locked(req[b].snap)
        /\ req[b].op = "questions" => req[b].snap.questions /\ ~SqLocked(req[b].snap)

\* Of the ticks w at which wrong answers were examined, the last n are counted; the
\* last of as many as are allowed set the lock, and the others are a lock away.
Counted(w, n, lock, limit) ==
    /\ n <= Len(w) /\ n <= limit /\ (n = 0 => w = << >>)
    /\ (n < limit <=> lock = 0) /\ (lock # 0 => lock = w[Len(w)] + LockTicks)
    /\ \A i, j \in 1..Len(w) : i <= j => w[i] <= w[j]
    /\ \A i, j \in 1..Len(w) : i <= Len(w) - n /\ Len(w) - n < j => w[i] + LockTicks <= w[j]
    /\ \A i \in 1..Len(w) : w[i] <= now

FailuresCounted ==
    stale \/ /\ Counted(wrong["code"], doc.failed, doc.locked, MaxAttempts)
             /\ Counted(wrong["answers"], doc.sqFailed, doc.sqLocked, SqMaxAttempts)

\* The document remembers the last recovery, and no copy a later one.
RecoveryDated == undated \/ wiped \/ doc.last = recovered
NoneDatedLater ==
    /\ doc.last <= recovered /\ recovered <= now
    /\ \A b \in Browser : req[b].snap.last <= recovered
=============================================================================
