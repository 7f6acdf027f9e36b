----------------------------- MODULE Credentials -----------------------------
(***************************************************************************)
(* What proves who a user is: the password and its reset token, the phone  *)
(* number and its verification challenge, and the enrolled second factors. *)
(* AuthService, UserService, the account controller's MFA pages and the    *)
(* columns of the user record they write.                                  *)
(*                                                                         *)
(* Every operation reads the record, waits (for a hash, an SMS, a query)   *)
(* and writes some columns, so two requests of a user interleave.  The     *)
(* three groups of columns do not depend on each other: area is the group  *)
(* the requests of a behaviour are about.  Passwords, tokens, secrets and  *)
(* codes are numbered in the order they are made; 0 stands for null.       *)
(***************************************************************************)
EXTENDS Naturals, FiniteSets

CONSTANTS
    Req,         \* requests, each one at a time
    Number,      \* phone numbers
    Areas,       \* the groups of columns to look at
    Relational,  \* the relational store, which writes the MFA tables one by one
    TokenLife,   \* lifetime of a token
    MaxOps,      \* bound: requests
    MaxTime      \* bound: the clock

ASSUME CredentialAssumption ==
    /\ Number # {}
    /\ Areas \subseteq {"password", "phone", "mfa"}
    /\ Relational \in BOOLEAN
    /\ TokenLife \in Nat \ {0} /\ MaxOps \in Nat /\ MaxTime \in Nat

VARIABLES
    area,      \* the group of columns, for good
    secretOf,  \* password and reset token: pw, legacy, force, token, expires
    phone,     \* number, verified, and the challenge: token, expires
    mfa,       \* the flag, the methods, and the e-mail code
    req,       \* req[r]: the request r
    shown,     \* the phone token the browser last received
    made,      \* passwords, tokens, secrets and codes made so far
    now,
    ops,       \* requests so far
    \* History, read by the properties only.
    lastSet,   \* the password last set by a reset, a change or an administrator
    settled,   \* a password was set while no upgrade of a hash was under way
    resets,    \* the passwords that were set with a reset token
    rivals,    \* the pairs of passwords whose requests held a token at the same time
    proved,    \* TOTP secrets of which a code was entered
    numbers,   \* phone numbers of which the code was entered
    mixed      \* what overlapped, or could not be undone: "phone", "disable", "enrol"

user == <<secretOf, phone, mfa>>
history == <<lastSet, settled, resets, rivals, proved, numbers, mixed>>
vars == <<area, user, req, shown, made, now, ops, history>>

Idle == [op |-> "none", pc |-> "idle", val |-> 0, new |-> 0, prev |-> [token |-> 0, expires |-> 0],
         flag |-> FALSE, drop |-> {}]
Method == {"totp", "email"}

Init ==
    /\ area \in Areas
    /\ secretOf = [pw |-> 0, legacy |-> TRUE, force |-> FALSE, token |-> 0, expires |-> 0]
    /\ \E n \in Number : phone = [number |-> n, verified |-> FALSE, token |-> 0, expires |-> 0]
    /\ mfa = [flag |-> FALSE, on |-> {}, secret |-> 0, otp |-> 0]
    /\ req = [r \in Req |-> Idle]
    /\ shown = 0 /\ made = 0 /\ now = 0 /\ ops = 0
    /\ lastSet = 0 /\ settled = FALSE /\ resets = {} /\ rivals = {}
    /\ proved = {} /\ numbers = {} /\ mixed = {}

-----------------------------------------------------------------------------
InArea(r, a) == area = a /\ req[r].pc = "idle" /\ ops < MaxOps
Count == ops' = ops + 1
Go(r, pc) == req' = [req EXCEPT ![r].pc = pc]
End(r) == req' = [req EXCEPT ![r] = Idle]
Busy(r, kinds) == \E q \in Req \ {r} : req[q].op \in kinds
Begin(r, op, pc, val, new) ==
    req' = [req EXCEPT ![r] = [Idle EXCEPT !.op = op, !.pc = pc, !.val = val, !.new = new]]

-----------------------------------------------------------------------------
(* The password.                                                           *)

Upgrading == {r \in Req : req[r].op = "login" \/ (req[r].op = "change" /\ req[r].pc = "upgrade")}

\* Mutant: the new hash is taken for one that needs an upgrade.
SetLegacy(p, more) ==
    /\ secretOf' = [secretOf EXCEPT !.pw = p, !.force = more.force, !.token = more.token]
    /\ lastSet' = p
    /\ settled' = (settled \/ Upgrading = {})

\* The columns a reset, a change and an administrator write: the new hash is
\* argon2id.
SetPassword(p, more) ==
    /\ secretOf' = [secretOf EXCEPT !.pw = p, !.legacy = FALSE, !.force = more.force,
                                    !.token = more.token]
    /\ lastSet' = p
    /\ settled' = (settled \/ Upgrading = {})

\* performLogin with the right password; validatePassword finds an old hash and
\* computes a new one.  A login without an upgrade changes none of this.
Login(r) ==
    /\ InArea(r, "password") /\ secretOf.legacy
    /\ Begin(r, "login", "upgrade", secretOf.pw, 0)
    /\ Count /\ UNCHANGED <<area, user, shown, made, now, history>>

\* The upgraded hash of the password that was entered.
UpgradeHash(r) ==
    /\ req[r].pc = "upgrade"
    /\ secretOf' = [secretOf EXCEPT !.pw = req[r].val, !.legacy = FALSE]
    /\ IF req[r].op = "login" THEN End(r) ELSE Go(r, "write")
    /\ UNCHANGED <<area, phone, mfa, shown, made, now, ops, history>>

\* The update failed: the login, or the change, goes on.
UpgradeFails(r) ==
    /\ req[r].pc = "upgrade"
    /\ IF req[r].op = "login" THEN End(r) ELSE Go(r, "write")
    /\ UNCHANGED <<area, user, shown, made, now, ops, history>>

GeneratePasswordResetToken(r) ==
    /\ InArea(r, "password")
    /\ secretOf' = [secretOf EXCEPT !.token = made + 1, !.expires = now + TokenLife]
    /\ made' = made + 1
    /\ Count /\ UNCHANGED <<area, phone, mfa, req, shown, now, history>>

\* Resets that found the token and have not written yet.
Holding(token) == {q \in Req : req[q].op = "reset" /\ req[q].val = token}

\* resetPassword: the token is there and has not expired; the new password is
\* hashed before it is written.
FindResetToken(r) ==
    /\ InArea(r, "password")
    /\ secretOf.token # 0 /\ now < secretOf.expires
    /\ Begin(r, "reset", "write", secretOf.token, made + 1)
    /\ made' = made + 1
    /\ rivals' = rivals \cup {{req[q].new, made + 1} : q \in Holding(secretOf.token)}
    /\ Count
    /\ UNCHANGED <<area, user, shown, now, lastSet, settled, resets, proved, numbers, mixed>>

\* Mutant: the token is left in the record.
KeepToken(r) ==
    /\ req[r].op = "reset" /\ req[r].pc = "write"
    /\ SetPassword(req[r].new, [force |-> FALSE, token |-> secretOf.token])
    /\ resets' = resets \cup {[token |-> req[r].val, pw |-> req[r].new]}
    /\ End(r)
    /\ UNCHANGED <<area, phone, mfa, shown, made, now, ops, rivals, proved, numbers, mixed>>

ResetPassword(r) ==
    /\ req[r].op = "reset" /\ req[r].pc = "write"
    /\ SetPassword(req[r].new, [force |-> FALSE, token |-> 0])
    /\ resets' = resets \cup {[token |-> req[r].val, pw |-> req[r].new]}
    /\ End(r)
    /\ UNCHANGED <<area, phone, mfa, shown, made, now, ops, rivals, proved, numbers, mixed>>

\* changePassword: the current password is right, and upgraded first if need be.
VerifyCurrentPassword(r) ==
    /\ InArea(r, "password")
    /\ Begin(r, "change", IF secretOf.legacy THEN "upgrade" ELSE "write", secretOf.pw, made + 1)
    /\ made' = made + 1
    /\ Count /\ UNCHANGED <<area, user, shown, now, history>>

\* A reset link that was sent before stays valid.
ChangePassword(r) ==
    /\ req[r].op = "change" /\ req[r].pc = "write"
    /\ SetPassword(req[r].new, [force |-> FALSE, token |-> secretOf.token])
    /\ End(r)
    /\ UNCHANGED <<area, phone, mfa, shown, made, now, ops, resets, rivals, proved, numbers, mixed>>

\* changeUserPasswordForAuthorizedActor: one write, after the checks.
AdminChangeUserPassword(r, requireReset) ==
    /\ InArea(r, "password")
    /\ SetPassword(made + 1, [force |-> secretOf.force \/ requireReset, token |-> secretOf.token])
    /\ made' = made + 1
    /\ Count
    /\ UNCHANGED <<area, phone, mfa, req, shown, now, resets, rivals, proved, numbers, mixed>>

-----------------------------------------------------------------------------
(* The phone number.                                                       *)

PhoneOps == {"challenge", "renew", "confirm", "phone"}

\* Requests of the phone area that overlap another one.
NotePhone(r) == mixed' = IF Busy(r, PhoneOps) THEN mixed \cup {"phone"} ELSE mixed

Challenge == [token |-> phone.token, expires |-> phone.expires]

\* generatePhoneVerificationChallenge, for the login that asks for it.
StartChallenge(r) ==
    /\ InArea(r, "phone") /\ ~phone.verified
    /\ phone' = [phone EXCEPT !.token = made + 1, !.expires = now + TokenLife]
    /\ made' = made + 1 /\ shown' = made + 1
    /\ NotePhone(r) /\ Count
    /\ UNCHANGED <<area, secretOf, mfa, req, now, lastSet, settled, resets, rivals, proved, numbers>>

\* renewPhoneVerificationChallenge: the token the browser sends is found.
FindChallenge(r) ==
    /\ InArea(r, "phone")
    /\ shown # 0 /\ phone.token = shown /\ ~phone.verified
    /\ req' = [req EXCEPT ![r] = [Idle EXCEPT !.op = "renew", !.pc = "generate",
                                              !.prev = Challenge]]
    /\ NotePhone(r) /\ Count
    /\ UNCHANGED <<area, user, shown, made, now, lastSet, settled, resets, rivals, proved, numbers>>

RenewChallenge(r) ==
    /\ req[r].pc = "generate"
    /\ IF phone.verified
       THEN End(r) /\ UNCHANGED <<phone, made>>
       ELSE /\ phone' = [phone EXCEPT !.token = made + 1, !.expires = now + TokenLife]
            /\ made' = made + 1
            /\ req' = [req EXCEPT ![r] = [@ EXCEPT !.pc = "deliver", !.new = made + 1]]
    /\ UNCHANGED <<area, secretOf, mfa, shown, now, ops, history>>

\* The SMS went out and the page shows the new token.
ChallengeDelivered(r) ==
    /\ req[r].pc = "deliver"
    /\ shown' = req[r].new
    /\ End(r)
    /\ UNCHANGED <<area, user, made, now, ops, history>>

\* Mutant: the failed delivery is reported and nothing is put back.
LeaveChallenge(r) ==
    /\ req[r].pc = "deliver"
    /\ End(r)
    /\ UNCHANGED <<area, user, shown, made, now, ops, history>>

\* It did not: the previous challenge is written back.
RestoreChallenge(r) ==
    /\ req[r].pc = "deliver"
    /\ phone' = [phone EXCEPT !.token = req[r].prev.token, !.expires = req[r].prev.expires]
    /\ End(r)
    /\ UNCHANGED <<area, secretOf, mfa, shown, made, now, ops, history>>

\* ... or cannot be written back.
RollbackFails(r) ==
    /\ req[r].pc = "deliver"
    /\ mixed' = mixed \cup {"phone"}
    /\ End(r)
    /\ UNCHANGED <<area, user, shown, made, now, ops, lastSet, settled, resets, rivals, proved, numbers>>

\* verifyPhone: the token is found, the code is the one sent with it, in time.
FindPhoneCode(r) ==
    /\ InArea(r, "phone")
    /\ shown # 0 /\ phone.token = shown /\ now < phone.expires
    /\ Begin(r, "confirm", "verify", 0, 0)
    /\ numbers' = numbers \cup {phone.number}
    /\ NotePhone(r) /\ Count
    /\ UNCHANGED <<area, user, shown, made, now, lastSet, settled, resets, rivals, proved>>

VerifyPhone(r) ==
    /\ req[r].pc = "verify"
    /\ phone' = [phone EXCEPT !.verified = TRUE, !.token = 0, !.expires = 0]
    /\ End(r)
    /\ UNCHANGED <<area, secretOf, mfa, shown, made, now, ops, history>>

\* updateProfile writes the number and nothing else.
UpdatePhoneNumber(r, n) ==
    /\ InArea(r, "phone") /\ n # phone.number
    /\ phone' = [phone EXCEPT !.number = n]
    /\ NotePhone(r) /\ Count
    /\ UNCHANGED <<area, secretOf, mfa, req, shown, made, now, lastSet, settled, resets, rivals,
                   proved, numbers>>

-----------------------------------------------------------------------------
(* The second factors.                                                     *)

\* getEnabledMethods
EnabledMethods == IF mfa.flag THEN mfa.on ELSE {}

MfaWriters == {"enable", "disable"}

\* A disabling request that overlaps another one, whichever began first.
NoteDisable(r, op) ==
    IF (op = "disable" /\ Busy(r, MfaWriters)) \/ (op = "enable" /\ Busy(r, {"disable"}))
    THEN {"disable"} ELSE {}

\* initiateMfaTotpSetup: a new secret, not enabled, whatever was there before.
InitiateMfaTotpSetup(r) ==
    /\ InArea(r, "mfa")
    /\ mfa' = [mfa EXCEPT !.on = @ \ {"totp"}, !.secret = made + 1]
    /\ made' = made + 1
    /\ mixed' = mixed \cup (IF Busy(r, MfaWriters) \/ "totp" \in mfa.on THEN {"enrol"} ELSE {})
    /\ Count
    /\ UNCHANGED <<area, secretOf, phone, req, shown, now, lastSet, settled, resets, rivals, proved,
                   numbers>>

\* Mutant: the page enables whatever is pending, without a code.
EnablePending(r) ==
    /\ InArea(r, "mfa")
    /\ mfa.secret # 0 /\ "totp" \notin mfa.on
    /\ Begin(r, "enable", "reread", mfa.secret, 0)
    /\ mixed' = mixed \cup NoteDisable(r, "enable") /\ Count
    /\ UNCHANGED <<area, user, shown, made, now, lastSet, settled, resets, rivals, proved, numbers>>

\* verifyTotpSetupCode: a code of the pending secret.
VerifyTotpSetupCode(r) ==
    /\ InArea(r, "mfa")
    /\ mfa.secret # 0 /\ "totp" \notin mfa.on
    /\ proved' = proved \cup {mfa.secret}
    /\ Begin(r, "enable", "reread", mfa.secret, 0)
    /\ mixed' = mixed \cup NoteDisable(r, "enable") /\ Count
    /\ UNCHANGED <<area, user, shown, made, now, lastSet, settled, resets, rivals, numbers>>

\* The controller reads the user again and enables the secret it finds now.
RereadSecret(r) ==
    /\ req[r].pc = "reread"
    /\ IF mfa.secret = 0
       THEN End(r)
       ELSE req' = [req EXCEPT ![r] = [@ EXCEPT !.pc = "flag", !.val = mfa.secret, !.flag = TRUE]]
    /\ UNCHANGED <<area, user, shown, made, now, ops, history>>

\* initiateEmailMfaSetup, and the login that sends a code.
SetEmailOtp(r) ==
    /\ InArea(r, "mfa")
    /\ mfa' = [mfa EXCEPT !.otp = made + 1]
    /\ made' = made + 1
    /\ Count
    /\ UNCHANGED <<area, secretOf, phone, req, shown, now, history>>

\* verifyEmailMfaSetupCode and verifyEmailOtp: the code is right, then cleared.
MatchEmailOtp(r) ==
    /\ InArea(r, "mfa") /\ mfa.otp # 0
    /\ Begin(r, IF "email" \in mfa.on THEN "code" ELSE "enable", "clear", 0, 0)
    /\ mixed' = IF "email" \in mfa.on THEN mixed ELSE mixed \cup NoteDisable(r, "enable")
    /\ Count
    /\ UNCHANGED <<area, user, shown, made, now, lastSet, settled, resets, rivals, proved, numbers>>

ClearEmailOtp(r) ==
    /\ req[r].pc = "clear"
    /\ mfa' = [mfa EXCEPT !.otp = 0]
    /\ IF req[r].op = "code"
       THEN End(r)
       ELSE req' = [req EXCEPT ![r] = [@ EXCEPT !.pc = "flag", !.flag = TRUE]]
    /\ UNCHANGED <<area, secretOf, phone, shown, made, now, ops, history>>

\* disableMfa of one method, or of all: the flag stays when another is enabled.
ReadOtherMethods(r, drop) ==
    /\ InArea(r, "mfa")
    /\ req' = [req EXCEPT ![r] = [Idle EXCEPT !.op = "disable", !.pc = "flag", !.drop = drop,
                                              !.flag = (EnabledMethods \ drop) # {}]]
    /\ mixed' = mixed \cup NoteDisable(r, "disable") /\ Count
    /\ UNCHANGED <<area, user, shown, made, now, lastSet, settled, resets, rivals, proved, numbers>>

\* The method the request enables: a secret for TOTP, none for e-mail.
Enabled(r) == IF req[r].val # 0 THEN {"totp"} ELSE {"email"}

\* Mutant: TOTP is disabled whichever method was asked for.
WithTotpDropped(m, r) ==
    [m EXCEPT !.on = IF req[r].op = "enable" THEN @ \cup Enabled(r) ELSE @ \ {"totp"}]

\* updateMfa: the rows of the methods; the document store replaces the whole of
\* methods.totp.
WithMethods(m, r) ==
    [m EXCEPT !.on = IF req[r].op = "enable" THEN @ \cup Enabled(r) ELSE @ \ req[r].drop,
              !.secret = IF req[r].op = "enable"
                         THEN (IF req[r].val # 0 THEN req[r].val ELSE @)
                         ELSE (IF ~Relational /\ "totp" \in req[r].drop THEN 0 ELSE @)]

\* updateMfa: first the flag, then the methods, unless one update does both.
WriteFlag(r) ==
    /\ req[r].pc = "flag"
    /\ IF Relational
       THEN mfa' = [mfa EXCEPT !.flag = req[r].flag] /\ Go(r, "methods")
       ELSE mfa' = WithMethods([mfa EXCEPT !.flag = req[r].flag], r) /\ End(r)
    /\ UNCHANGED <<area, secretOf, phone, shown, made, now, ops, history>>

WriteMethods(r) ==
    /\ req[r].pc = "methods"
    /\ mfa' = WithMethods(mfa, r)
    /\ End(r)
    /\ UNCHANGED <<area, secretOf, phone, shown, made, now, ops, history>>

-----------------------------------------------------------------------------
Tick ==
    /\ now < MaxTime
    /\ now' = now + 1
    /\ UNCHANGED <<area, user, req, shown, made, ops, history>>

PasswordStep(r) ==
    \/ Login(r) \/ UpgradeHash(r) \/ UpgradeFails(r)
    \/ GeneratePasswordResetToken(r) \/ FindResetToken(r) \/ ResetPassword(r)
    \/ VerifyCurrentPassword(r) \/ ChangePassword(r)
    \/ \E f \in BOOLEAN : AdminChangeUserPassword(r, f)

PhoneStep(r) ==
    \/ StartChallenge(r) \/ FindChallenge(r) \/ RenewChallenge(r)
    \/ ChallengeDelivered(r) \/ RestoreChallenge(r) \/ RollbackFails(r)
    \/ FindPhoneCode(r) \/ VerifyPhone(r)
    \/ \E n \in Number : UpdatePhoneNumber(r, n)

MfaStep(r) ==
    \/ InitiateMfaTotpSetup(r) \/ VerifyTotpSetupCode(r) \/ RereadSecret(r)
    \/ SetEmailOtp(r) \/ MatchEmailOtp(r) \/ ClearEmailOtp(r)
    \/ \E drop \in {{"totp"}, {"email"}, Method} : ReadOtherMethods(r, drop)
    \/ WriteFlag(r) \/ WriteMethods(r)

Next == Tick \/ \E r \in Req : PasswordStep(r) \/ PhoneStep(r) \/ MfaStep(r)

Spec == Init /\ [][Next]_vars

-----------------------------------------------------------------------------
(* Properties.                                                             *)

\* The steps of each kind of request.
Steps ==
    {<<"none", "idle">>, <<"login", "upgrade">>, <<"change", "upgrade">>, <<"change", "write">>,
     <<"reset", "write">>, <<"renew", "generate">>, <<"renew", "deliver">>, <<"confirm", "verify">>,
     <<"enable", "reread">>, <<"enable", "clear">>, <<"enable", "flag">>, <<"enable", "methods">>,
     <<"code", "clear">>, <<"disable", "flag">>, <<"disable", "methods">>}

\* Requests, with identifiers up to n.
Request(n) ==
    [op: {"none", "login", "change", "reset", "renew", "confirm", "enable", "code", "disable"},
     pc: {"idle", "upgrade", "write", "generate", "deliver", "verify", "reread", "clear", "flag",
          "methods"},
     val: 0..n, new: 0..n, prev: [token: 0..n, expires: Nat], flag: BOOLEAN, drop: SUBSET Method]

\* The variables have their types, and every request is at a step of its kind.
TypeOK ==
    /\ area \in Areas
    /\ secretOf \in [pw: 0..made, legacy: BOOLEAN, force: BOOLEAN, token: 0..made, expires: Nat]
    /\ phone \in [number: Number, verified: BOOLEAN, token: 0..made, expires: Nat]
    /\ mfa \in [flag: BOOLEAN, on: SUBSET Method, secret: 0..made, otp: 0..made]
    /\ req \in [Req -> Request(made)]
    /\ \A r \in Req : <<req[r].op, req[r].pc>> \in Steps
    /\ made \in Nat /\ now \in Nat /\ ops \in Nat /\ shown \in 0..made /\ lastSet \in 0..made
    /\ settled \in BOOLEAN
    /\ resets \subseteq [token: 0..made, pw: 0..made] /\ rivals \subseteq SUBSET (0..made)
    /\ proved \subseteq 0..made /\ numbers \subseteq Number
    /\ mixed \subseteq {"phone", "disable", "enrol"}

\* Once a password was set while no hash was being upgraded, no earlier password
\* works again: the upgrade of validatePassword and changePassword, which writes a
\* hash of the password it read before a long computation, cannot undo a reset.
NoOldPassword == settled => secretOf.pw = lastSet

\* Why: a set password needs no upgrade, so none is under way or begins.
UpgradesOver == settled => ~secretOf.legacy /\ Upgrading = {}

\* A reset link sets a second password only for a request that had found it before
\* the first one was written: resetPassword looks the token up, hashes, and takes it
\* out with the write, so any two passwords one link set belong to resets that held
\* it at the same time, whatever links are requested and passwords set around them.
ResetTokenOnce ==
    \A s, t \in resets : (s.token = t.token /\ s # t) => {s.pw, t.pw} \in rivals

\* Why: a token that set a password is no longer in the record, and who still holds
\* it, or holds it with another, is a rival of those who wrote, and of the other.
TokenUnspent == secretOf.token # 0 => \A s \in resets : s.token # secretOf.token

HoldersRival ==
    \A r \in Req : req[r].op = "reset" =>
        /\ \A s \in resets : s.token = req[r].val => {s.pw, req[r].new} \in rivals
        /\ \A q \in Holding(req[r].val) : q # r => {req[q].new, req[r].new} \in rivals

\* "Compensate a failed external delivery so the opaque token already displayed in
\* the browser remains usable for its original code" (auth.service.ts): between
\* requests, the token the browser shows is the stored one until the phone is
\* verified, unless two requests overlapped or the compensation failed.
BrowserTokenUsable ==
    ("phone" \notin mixed /\ ~phone.verified /\ \A r \in Req : req[r].pc = "idle") =>
        phone.token = shown

\* Why: a renewal that is alone remembers the token the browser shows, and while its
\* message is on the way the record holds the token it made.
PhoneAlone ==
    "phone" \notin mixed =>
        \A q, r \in Req : (req[q].op \in {"renew", "confirm"} /\ req[r].op \in {"renew", "confirm"}) => q = r

ChallengeKept ==
    ("phone" \notin mixed /\ ~phone.verified) =>
        /\ (\A r \in Req : req[r].pc # "deliver") => phone.token = shown
        /\ \A r \in Req : req[r].op = "renew" =>
               req[r].prev.token = shown /\ (req[r].pc = "deliver" => req[r].new = phone.token)

\* The flag that makes a login ask for a second factor is set just when a method
\* is enabled, unless a request that disables one overlapped another request, or
\* TOTP was set up anew.
FlagAgrees ==
    (mixed = {} /\ \A r \in Req : req[r].op \notin MfaWriters) => (mfa.flag <=> mfa.on # {})

\* Why: a disabling request is alone and knows the methods that stay; enabling
\* requests set the flag first and then a method.
DisableAlone ==
    mixed = {} =>
        \A q, r \in Req : (req[q].op = "disable" /\ req[r].op \in MfaWriters) => q = r

FlagFollows ==
    mixed = {} =>
        /\ (\A r \in Req : req[r].op # "disable") =>
               /\ mfa.on # {} => mfa.flag
               /\ mfa.flag => \/ mfa.on # {}
                              \/ \E r \in Req : req[r].op = "enable" /\ req[r].pc = "methods"
        /\ \A r \in Req : req[r].op = "enable" =>
               (req[r].pc = "flag" => req[r].flag) /\ (req[r].pc = "methods" => mfa.flag)
        /\ \A r \in Req : req[r].op = "disable" =>
               /\ req[r].flag <=> mfa.on \ req[r].drop # {}
               /\ mfa.flag <=> IF req[r].pc = "flag" THEN mfa.on # {} ELSE req[r].flag

\* TOTP is enabled with a secret of which the user has entered a code, unless it
\* was set up anew while the code was checked.
SecretProved == ("totp" \in mfa.on /\ "enrol" \notin mixed) => mfa.secret \in proved

\* Why: what a request enables was proved when it began, or is the secret it found again.
SecretsEntered ==
    "enrol" \notin mixed =>
        \A r \in Req : /\ req[r].pc = "reread" => mfa.secret \in proved \cup {0}
                       /\ (req[r].op = "enable" /\ req[r].val # 0) => req[r].val \in proved

\* "A code is sent to the user's verified phone number" (docs/authentication.md):
\* the number marked as verified is one whose code was entered.
PhoneProved == phone.verified => phone.number \in numbers
==============================================================================
