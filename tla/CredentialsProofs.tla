------------------------- MODULE CredentialsProofs -------------------------
(***************************************************************************)
(* Proofs about Credentials for every number of requests, every set of     *)
(* phone numbers, both kinds of store and every bound.                     *)
(***************************************************************************)
EXTENDS Credentials, TLAPS

\* The types of the three groups of columns, with identifiers up to n.
SecretRec(n) == [pw: 0..n, legacy: BOOLEAN, force: BOOLEAN, token: 0..n, expires: Nat]
PhoneRec(n) == [number: Number, verified: BOOLEAN, token: 0..n, expires: Nat]
ResetRec(n) == [token: 0..n, pw: 0..n]
MfaRec(n) == [flag: BOOLEAN, on: SUBSET Method, secret: 0..n, otp: 0..n]

\* TypeOK with these names.
LEMMA TypeParts ==
    TypeOK <=>
    /\ area \in Areas
    /\ secretOf \in SecretRec(made) /\ phone \in PhoneRec(made) /\ mfa \in MfaRec(made)
    /\ req \in [Req -> Request(made)]
    /\ \A r \in Req : <<req[r].op, req[r].pc>> \in Steps
    /\ made \in Nat /\ now \in Nat /\ ops \in Nat /\ shown \in 0..made /\ lastSet \in 0..made
    /\ settled \in BOOLEAN
    /\ resets \subseteq ResetRec(made) /\ rivals \subseteq SUBSET (0..made)
    /\ proved \subseteq 0..made /\ numbers \subseteq Number
    /\ mixed \subseteq {"phone", "disable", "enrol"}
BY DEF TypeOK, SecretRec, PhoneRec, MfaRec, ResetRec

\* Identifiers only grow, so what was in range stays so.
LEMMA Wider ==
    ASSUME TypeOK, made' \in Nat, made <= made'
    PROVE  /\ secretOf \in SecretRec(made')
           /\ phone \in PhoneRec(made')
           /\ mfa \in MfaRec(made')
           /\ req \in [Req -> Request(made')]
           /\ shown \in 0..made' /\ lastSet \in 0..made'
           /\ resets \subseteq [token: 0..made', pw: 0..made'] /\ rivals \subseteq SUBSET (0..made')
           /\ proved \subseteq 0..made'
<1>1. \A x \in 0..made : x \in 0..made'
  BY DEF TypeOK
<1>2. Request(made) \subseteq Request(made')
  BY <1>1 DEF Request
<1>3. SecretRec(made) \subseteq SecretRec(made') /\ PhoneRec(made) \subseteq PhoneRec(made') /\ MfaRec(made) \subseteq MfaRec(made')
  BY <1>1 DEF SecretRec, PhoneRec, MfaRec
<1>4. ResetRec(made) \subseteq [token: 0..made', pw: 0..made']
  BY <1>1 DEF ResetRec
<1>5. SUBSET (0..made) \subseteq SUBSET (0..made')
  BY <1>1
<1> QED BY <1>1, <1>2, <1>3, <1>4, <1>5, TypeParts

\* A request that starts, goes on to another step of its kind, or ends.
LEMMA OneRequest ==
    ASSUME TypeOK, NEW r \in Req, NEW m \in Request(made'), <<m.op, m.pc>> \in Steps,
           made' \in Nat, made <= made', req' = [req EXCEPT ![r] = m]
    PROVE  /\ req' \in [Req -> Request(made')]
           /\ \A q \in Req : <<req'[q].op, req'[q].pc>> \in Steps
BY Wider DEF TypeOK

LEMMA IdleType == ASSUME made' \in Nat PROVE Idle \in Request(made') /\ <<Idle.op, Idle.pc>> \in Steps
BY DEF Idle, Request, Steps

\* The fields of a request that was there before have their types.
LEMMA Fields ==
    ASSUME TypeOK, NEW r \in Req
    PROVE  /\ req[r] \in Request(made)
           /\ req[r].val \in 0..made /\ req[r].new \in 0..made /\ req[r].flag \in BOOLEAN
           /\ req[r].prev.token \in 0..made /\ req[r].prev.expires \in Nat
           /\ req[r].drop \in SUBSET Method /\ <<req[r].op, req[r].pc>> \in Steps
BY DEF TypeOK, Request

\* A step that makes no identifier, keeps every request but r, and leaves r at a step of
\* its kind.
LEMMA Ended ==
    ASSUME TypeOK, NEW r \in Req, End(r), made' = made
    PROVE  req' \in [Req -> Request(made')] /\ \A q \in Req : <<req'[q].op, req'[q].pc>> \in Steps
<1>1. made' \in Nat /\ made <= made'
  BY DEF TypeOK
<1> QED BY <1>1, IdleType, OneRequest DEF End

LEMMA Begun ==
    ASSUME TypeOK, NEW r \in Req, NEW op, NEW pc, NEW val, NEW new, Begin(r, op, pc, val, new),
           <<op, pc>> \in Steps, made' \in Nat, made <= made', val \in 0..made', new \in 0..made'
    PROVE  req' \in [Req -> Request(made')] /\ \A q \in Req : <<req'[q].op, req'[q].pc>> \in Steps
<1> DEFINE m == [Idle EXCEPT !.op = op, !.pc = pc, !.val = val, !.new = new]
<1>1. /\ op \in {"none", "login", "change", "reset", "renew", "confirm", "enable", "code", "disable"}
      /\ pc \in {"idle", "upgrade", "write", "generate", "deliver", "verify", "reread", "clear",
                 "flag", "methods"}
  BY DEF Steps
<1>2. Idle \in Request(made')
  BY IdleType
<1>3. m \in Request(made') /\ m.op = op /\ m.pc = pc
  BY <1>1, <1>2 DEF Request
<1> QED BY <1>3, OneRequest DEF Begin

\* SetPassword writes a password, a flag and a token of their types.
LEMMA SetTypes ==
    ASSUME TypeOK, made' \in Nat, made <= made', NEW p \in 0..made', NEW f \in BOOLEAN, NEW t \in 0..made',
           SetPassword(p, [force |-> f, token |-> t])
    PROVE  secretOf' \in SecretRec(made') /\ lastSet' \in 0..made' /\ settled' \in BOOLEAN
<1>1. secretOf \in SecretRec(made')
  BY Wider
<1>2. secretOf' = [secretOf EXCEPT !.pw = p, !.legacy = FALSE, !.force = f, !.token = t]
  BY DEF SetPassword
<1>3. secretOf' \in SecretRec(made')
  BY <1>1, <1>2 DEF SecretRec
<1> QED BY <1>3 DEF SetPassword, TypeOK

\* Every variable keeps its type through every step of the password area.
LEMMA PasswordTypes ==
    ASSUME TypeOK, NEW r \in Req, PasswordStep(r)
    PROVE  TypeOK'
<1> USE CredentialAssumption
<1>0. made \in Nat /\ now \in Nat /\ ops \in Nat /\ made \in 0..made /\ made + 1 \in 0..(made + 1)
  BY DEF TypeOK
<1>1. CASE Login(r)
  <2>1. req' \in [Req -> Request(made')] /\ \A q \in Req : <<req'[q].op, req'[q].pc>> \in Steps
    BY <1>0, <1>1, Begun DEF Login, TypeOK, Steps
  <2> QED BY <1>0, <1>1, <2>1 DEF Login, TypeOK, Count, user, history
<1>2. CASE UpgradeHash(r) \/ UpgradeFails(r)
  <2>1. req' \in [Req -> Request(made')] /\ \A q \in Req : <<req'[q].op, req'[q].pc>> \in Steps
    <3>1. CASE End(r)
      BY <1>2, <3>1, Ended DEF UpgradeHash, UpgradeFails
    <3>2. CASE Go(r, "write") /\ req[r].op # "login"
      <4> DEFINE m == [req[r] EXCEPT !.pc = "write"]
      <4>1. m \in Request(made')
        BY <1>2, Fields DEF UpgradeHash, UpgradeFails, Request
      <4>2. <<m.op, m.pc>> \in Steps
        BY <1>2, <3>2, Fields DEF UpgradeHash, UpgradeFails, Steps, Request
      <4>3. req' = [req EXCEPT ![r] = m]
        BY <3>2 DEF Go, TypeOK
      <4>4. made' \in Nat /\ made <= made'
        BY <1>0, <1>2 DEF UpgradeHash, UpgradeFails
      <4> HIDE DEF m
      <4> QED BY <4>1, <4>2, <4>3, <4>4, OneRequest
    <3> QED BY <1>2, <3>1, <3>2 DEF UpgradeHash, UpgradeFails
  <2> QED BY <1>2, <2>1, Fields DEF UpgradeHash, UpgradeFails, TypeOK, user, history
<1>3. CASE GeneratePasswordResetToken(r)
  <2>0. made' = made + 1 /\ made' \in Nat /\ now + TokenLife \in Nat /\ made + 1 \in 0..made'
    BY <1>0, <1>3 DEF GeneratePasswordResetToken
  <2>1. secretOf' \in SecretRec(made')
    <3>1. secretOf \in SecretRec(made')
      BY <1>0, <2>0, Wider
    <3> QED BY <1>3, <2>0, <3>1 DEF GeneratePasswordResetToken, SecretRec
  <2> QED BY <1>0, <1>3, <2>1, Wider DEF GeneratePasswordResetToken, TypeOK, Count, history, SecretRec, PhoneRec, MfaRec
<1>4. CASE FindResetToken(r)
  <2>1. req' \in [Req -> Request(made')] /\ \A q \in Req : <<req'[q].op, req'[q].pc>> \in Steps
    BY <1>0, <1>4, Begun DEF FindResetToken, TypeOK, Steps
  <2>2. made' = made + 1 /\ made' \in Nat /\ made <= made'
    BY <1>0, <1>4 DEF FindResetToken
  <2>3. rivals' \subseteq SUBSET (0..made')
    <3>1. rivals \subseteq SUBSET (0..made')
      BY <2>2, Wider
    <3>2. ASSUME NEW q \in Req PROVE req[q].new \in 0..made' /\ made + 1 \in 0..made'
      <4>1. req[q].new \in 0..made
        BY Fields
      <4> QED BY <1>0, <2>2, <4>1
    <3>3. ASSUME NEW x \in {{req[q].new, made + 1} : q \in Holding(secretOf.token)}
          PROVE  x \in SUBSET (0..made')
      <4>1. PICK q \in Req : x = {req[q].new, made + 1}
        BY DEF Holding
      <4> QED BY <3>2, <4>1
    <3>4. rivals' = rivals \cup {{req[q].new, made + 1} : q \in Holding(secretOf.token)}
      BY <1>4 DEF FindResetToken
    <3> HIDE DEF Holding
    <3> QED BY <3>1, <3>3, <3>4
  <2> QED BY <1>0, <1>4, <2>1, <2>2, <2>3, Wider DEF FindResetToken, TypeOK, Count, user
<1>5. CASE ResetPassword(r) \/ ChangePassword(r)
  <2>1. req' \in [Req -> Request(made')] /\ \A q \in Req : <<req'[q].op, req'[q].pc>> \in Steps
    BY <1>5, Ended DEF ResetPassword, ChangePassword
  <2>2. /\ secretOf' \in SecretRec(made')
        /\ lastSet' \in 0..made' /\ settled' \in BOOLEAN /\ made' = made
    <3>1. made' = made /\ made' \in Nat /\ made <= made' /\ secretOf.token \in 0..made' /\ 0 \in 0..made'
      BY <1>0, <1>5 DEF ResetPassword, ChangePassword, TypeOK
    <3> QED BY <1>5, <3>1, Fields, SetTypes DEF ResetPassword, ChangePassword
  <2>3. resets' \subseteq [token: 0..made', pw: 0..made']
    <3>1. resets \subseteq [token: 0..made', pw: 0..made']
      BY <2>2 DEF TypeOK
    <3>2. [token |-> req[r].val, pw |-> req[r].new] \in [token: 0..made', pw: 0..made']
      BY <2>2, Fields
    <3>3. resets' \subseteq resets \cup {[token |-> req[r].val, pw |-> req[r].new]}
      BY <1>5 DEF ResetPassword, ChangePassword
    <3> QED BY <3>1, <3>2, <3>3
  <2> QED BY <1>5, <2>1, <2>2, <2>3 DEF ResetPassword, ChangePassword, TypeOK, SecretRec
<1>6. CASE VerifyCurrentPassword(r)
  <2>1. req' \in [Req -> Request(made')] /\ \A q \in Req : <<req'[q].op, req'[q].pc>> \in Steps
    BY <1>0, <1>6, Begun DEF VerifyCurrentPassword, TypeOK, Steps
  <2> QED BY <1>0, <1>6, <2>1, Wider DEF VerifyCurrentPassword, TypeOK, Count, user, history
<1>7. ASSUME NEW f \in BOOLEAN, AdminChangeUserPassword(r, f) PROVE TypeOK'
  <2>1. /\ secretOf' \in SecretRec(made')
        /\ lastSet' \in 0..made' /\ settled' \in BOOLEAN
    <3>1. made' = made + 1 /\ made' \in Nat /\ made <= made' /\ secretOf.token \in 0..made'
      BY <1>0, <1>7 DEF AdminChangeUserPassword, TypeOK
    <3>2. (secretOf.force \/ f) \in BOOLEAN
      OBVIOUS
    <3> QED BY <1>0, <1>7, <3>1, <3>2, SetTypes DEF AdminChangeUserPassword
  <2> QED BY <1>0, <1>7, <2>1, Wider DEF AdminChangeUserPassword, TypeOK, Count, SecretRec, PhoneRec, MfaRec
<1> QED BY <1>1, <1>2, <1>3, <1>4, <1>5, <1>6, <1>7 DEF PasswordStep

\* ... of the phone area ...
LEMMA PhoneTypes ==
    ASSUME TypeOK, NEW r \in Req, PhoneStep(r)
    PROVE  TypeOK'
<1> USE CredentialAssumption
<1> USE DEF SecretRec, PhoneRec, MfaRec
<1>0. /\ made \in Nat /\ now \in Nat /\ ops \in Nat /\ now + TokenLife \in Nat /\ made <= made + 1
      /\ made + 1 \in Nat /\ made + 1 \in 0..(made + 1) /\ 0 \in 0..made
  BY DEF TypeOK
<1>1. CASE StartChallenge(r)
  <2>1. phone \in PhoneRec(made')
    BY <1>0, <1>1, Wider DEF StartChallenge
  <2>2. phone' \in PhoneRec(made')
    BY <1>0, <1>1, <2>1 DEF StartChallenge
  <2> QED BY <1>0, <1>1, <2>2, Wider DEF StartChallenge, TypeOK, Count, NotePhone
<1>2. CASE FindChallenge(r)
  <2> DEFINE m == [Idle EXCEPT !.op = "renew", !.pc = "generate", !.prev = Challenge]
  <2>1. Idle \in Request(made) /\ Challenge \in [token: 0..made, expires: Nat]
    BY <1>0 DEF Idle, Request, Challenge, TypeOK
  <2>2. m \in Request(made) /\ m.op = "renew" /\ m.pc = "generate"
    BY <2>1 DEF Request
  <2>3. made' = made /\ req' = [req EXCEPT ![r] = m] /\ <<"renew", "generate">> \in Steps
    BY <1>2 DEF FindChallenge, Steps
  <2> HIDE DEF m
  <2>4. req' \in [Req -> Request(made')] /\ \A q \in Req : <<req'[q].op, req'[q].pc>> \in Steps
    <3>1. made' \in Nat /\ made <= made' /\ m \in Request(made') /\ <<m.op, m.pc>> \in Steps
      BY <1>0, <2>2, <2>3
    <3> QED BY <2>3, <3>1, OneRequest
  <2> QED BY <1>0, <1>2, <2>4 DEF FindChallenge, TypeOK, Count, NotePhone, user
<1>3. CASE RenewChallenge(r)
  <2>1. CASE phone.verified
    <3>1. made' = made /\ End(r) /\ phone' = phone
      BY <1>3, <2>1 DEF RenewChallenge
    <3> QED BY <1>3, <3>1, Ended DEF RenewChallenge, TypeOK, history
  <2>2. CASE ~phone.verified
    <3> DEFINE m == [req[r] EXCEPT !.pc = "deliver", !.new = made + 1]
    <3>1. made' = made + 1 /\ phone \in PhoneRec(made') /\ req[r] \in Request(made')
      BY <1>0, <1>3, <2>2, Wider DEF RenewChallenge
    <3>2. phone' \in PhoneRec(made')
      BY <1>0, <1>3, <2>2, <3>1 DEF RenewChallenge
    <3>3. m \in Request(made') /\ m.op = req[r].op /\ m.pc = "deliver"
      BY <1>0, <3>1 DEF Request
    <3>4. req[r].op = "renew" /\ <<"renew", "deliver">> \in Steps
      BY <1>3, Fields DEF RenewChallenge, Steps
    <3>5. req' = [req EXCEPT ![r] = m]
      BY <1>3, <2>2 DEF RenewChallenge
    <3> HIDE DEF m
    <3>6. req' \in [Req -> Request(made')] /\ \A q \in Req : <<req'[q].op, req'[q].pc>> \in Steps
      BY <1>0, <3>1, <3>3, <3>4, <3>5, OneRequest
    <3> QED BY <1>0, <1>3, <3>1, <3>2, <3>6, Wider DEF RenewChallenge, TypeOK, history
  <2> QED BY <2>1, <2>2
<1>4. CASE ChallengeDelivered(r) \/ RestoreChallenge(r) \/ RollbackFails(r) \/ VerifyPhone(r)
  <2>1. made' = made /\ End(r)
    BY <1>4 DEF ChallengeDelivered, RestoreChallenge, RollbackFails, VerifyPhone
  <2>2. req' \in [Req -> Request(made')] /\ \A q \in Req : <<req'[q].op, req'[q].pc>> \in Steps
    BY <2>1, Ended
  <2>3. phone' \in PhoneRec(made')
    <3>1. phone \in PhoneRec(made) /\ req[r].prev.token \in 0..made /\ req[r].prev.expires \in Nat
      BY Fields DEF TypeOK
    <3>2. CASE RestoreChallenge(r)
      BY <2>1, <3>1, <3>2 DEF RestoreChallenge
    <3>3. CASE VerifyPhone(r)
      BY <1>0, <2>1, <3>1, <3>3 DEF VerifyPhone
    <3> QED BY <1>4, <2>1, <3>1, <3>2, <3>3 DEF ChallengeDelivered, RollbackFails, user
  <2>4. shown' \in 0..made' /\ mixed' \subseteq {"phone", "disable", "enrol"}
    <3>1. shown' \in {shown, req[r].new} /\ mixed' \in {mixed, mixed \cup {"phone"}}
      BY <1>4 DEF ChallengeDelivered, RestoreChallenge, RollbackFails, VerifyPhone, user, history
    <3>2. shown \in 0..made /\ req[r].new \in 0..made /\ mixed \subseteq {"phone", "disable", "enrol"}
      BY Fields DEF TypeOK
    <3> QED BY <2>1, <3>1, <3>2
  <2>5. UNCHANGED <<area, secretOf, mfa, made, now, ops, lastSet, settled, resets, rivals, proved, numbers>>
    BY <1>4 DEF ChallengeDelivered, RestoreChallenge, RollbackFails, VerifyPhone, user, history
  <2> QED BY <2>2, <2>3, <2>4, <2>5 DEF TypeOK
<1>5. CASE FindPhoneCode(r)
  <2>1. req' \in [Req -> Request(made')] /\ \A q \in Req : <<req'[q].op, req'[q].pc>> \in Steps
    BY <1>0, <1>5, Begun DEF FindPhoneCode, TypeOK, Steps, user
  <2> QED BY <1>0, <1>5, <2>1 DEF FindPhoneCode, TypeOK, Count, NotePhone, user
<1>6. ASSUME NEW n \in Number, UpdatePhoneNumber(r, n) PROVE TypeOK'
  BY <1>0, <1>6 DEF UpdatePhoneNumber, TypeOK, Count, NotePhone
<1> QED BY <1>1, <1>2, <1>3, <1>4, <1>5, <1>6 DEF PhoneStep

\* ... and of the second factors.
LEMMA MfaTypes ==
    ASSUME TypeOK, NEW r \in Req, MfaStep(r)
    PROVE  TypeOK'
<1> USE CredentialAssumption
<1> USE DEF SecretRec, PhoneRec, MfaRec
<1>0. /\ made \in Nat /\ ops \in Nat /\ made <= made + 1 /\ made <= made
      /\ made + 1 \in Nat /\ made + 1 \in 0..(made + 1) /\ 0 \in 0..made
  BY DEF TypeOK
<1>1. CASE InitiateMfaTotpSetup(r) \/ SetEmailOtp(r)
  <2>1. made' = made + 1 /\ mfa \in MfaRec(made')
    BY <1>0, <1>1, Wider DEF InitiateMfaTotpSetup, SetEmailOtp
  <2>2. mfa' \in MfaRec(made')
    BY <1>0, <1>1, <2>1 DEF InitiateMfaTotpSetup, SetEmailOtp
  <2>3. mixed' \subseteq {"phone", "disable", "enrol"}
    BY <1>1 DEF InitiateMfaTotpSetup, SetEmailOtp, history, TypeOK
  <2> QED BY <1>0, <1>1, <2>1, <2>2, <2>3, Wider
      DEF InitiateMfaTotpSetup, SetEmailOtp, TypeOK, Count, history
<1>2. CASE VerifyTotpSetupCode(r) \/ MatchEmailOtp(r)
  <2>1. made' = made /\ user' = user /\ ops' = ops + 1
    BY <1>2 DEF VerifyTotpSetupCode, MatchEmailOtp, Count
  <2>2. req' \in [Req -> Request(made')] /\ \A q \in Req : <<req'[q].op, req'[q].pc>> \in Steps
    BY <1>0, <1>2, <2>1, Begun DEF VerifyTotpSetupCode, MatchEmailOtp, TypeOK, Steps
  <2>3. mixed' \subseteq {"phone", "disable", "enrol"}
    BY <1>2 DEF VerifyTotpSetupCode, MatchEmailOtp, NoteDisable, TypeOK
  <2>4. proved' \subseteq 0..made'
    BY <1>2, <2>1 DEF VerifyTotpSetupCode, MatchEmailOtp, TypeOK
  <2>5. /\ area' = area /\ shown' = shown /\ now' = now /\ lastSet' = lastSet /\ resets' = resets
        /\ settled' = settled /\ rivals' = rivals /\ numbers' = numbers
        /\ secretOf' = secretOf /\ phone' = phone /\ mfa' = mfa
    BY <1>2, <2>1 DEF VerifyTotpSetupCode, MatchEmailOtp, user
  <2> QED BY <1>0, <2>1, <2>2, <2>3, <2>4, <2>5 DEF TypeOK
<1>3. CASE RereadSecret(r)
  <2>1. made' = made
    BY <1>3 DEF RereadSecret
  <2>2. req' \in [Req -> Request(made')] /\ \A q \in Req : <<req'[q].op, req'[q].pc>> \in Steps
    <3>1. CASE End(r)
      BY <2>1, <3>1, Ended
    <3>2. CASE req' = [req EXCEPT ![r] = [@ EXCEPT !.pc = "flag", !.val = mfa.secret, !.flag = TRUE]]
      <4> DEFINE m == [req[r] EXCEPT !.pc = "flag", !.val = mfa.secret, !.flag = TRUE]
      <4>1. m \in Request(made') /\ m.op = req[r].op /\ m.pc = "flag"
        <5>1. mfa.secret \in 0..made'
          BY <2>1 DEF TypeOK
        <5> QED BY <2>1, <5>1, Fields DEF Request
      <4>2. req[r].op = "enable" /\ <<"enable", "flag">> \in Steps
        BY <1>3, Fields DEF RereadSecret, Steps
      <4>3. req' = [req EXCEPT ![r] = m]
        BY <3>2
      <4> HIDE DEF m
      <4> QED BY <1>0, <2>1, <4>1, <4>2, <4>3, OneRequest
    <3> QED BY <1>3, <3>1, <3>2 DEF RereadSecret
  <2> QED BY <1>3, <2>1, <2>2 DEF RereadSecret, TypeOK, user, history
<1>4. CASE ClearEmailOtp(r)
  <2>1. made' = made /\ mfa' \in MfaRec(made')
    BY <1>0, <1>4 DEF ClearEmailOtp, TypeOK
  <2>2. req' \in [Req -> Request(made')] /\ \A q \in Req : <<req'[q].op, req'[q].pc>> \in Steps
    <3>1. CASE End(r)
      BY <2>1, <3>1, Ended
    <3>2. CASE /\ req[r].op # "code"
               /\ req' = [req EXCEPT ![r] = [@ EXCEPT !.pc = "flag", !.flag = TRUE]]
      <4> DEFINE m == [req[r] EXCEPT !.pc = "flag", !.flag = TRUE]
      <4>1. m \in Request(made') /\ m.op = req[r].op /\ m.pc = "flag"
        BY <2>1, Fields DEF Request
      <4>2. req[r].op = "enable" /\ <<"enable", "flag">> \in Steps
        BY <1>4, <3>2, Fields DEF ClearEmailOtp, Steps
      <4>3. req' = [req EXCEPT ![r] = m]
        BY <3>2
      <4> HIDE DEF m
      <4> QED BY <1>0, <2>1, <4>1, <4>2, <4>3, OneRequest
    <3> QED BY <1>4, <3>1, <3>2 DEF ClearEmailOtp
  <2> QED BY <1>4, <2>1, <2>2 DEF ClearEmailOtp, TypeOK, history
<1>5. ASSUME NEW drop \in {{"totp"}, {"email"}, Method}, ReadOtherMethods(r, drop) PROVE TypeOK'
  <2> DEFINE f == (EnabledMethods \ drop) # {}
             m == [Idle EXCEPT !.op = "disable", !.pc = "flag", !.drop = drop, !.flag = f]
  <2>1. Idle \in Request(made) /\ drop \in SUBSET Method /\ f \in BOOLEAN
    BY <1>0 DEF Idle, Request, Method
  <2>2. m \in Request(made) /\ m.op = "disable" /\ m.pc = "flag"
    BY <2>1 DEF Request
  <2>3. made' = made /\ req' = [req EXCEPT ![r] = m] /\ <<"disable", "flag">> \in Steps
    BY <1>5 DEF ReadOtherMethods, Steps
  <2> HIDE DEF m
  <2>4. req' \in [Req -> Request(made')] /\ \A q \in Req : <<req'[q].op, req'[q].pc>> \in Steps
    BY <1>0, <2>2, <2>3, OneRequest
  <2>5. mixed' \subseteq {"phone", "disable", "enrol"} /\ ops' \in Nat
    BY <1>0, <1>5 DEF ReadOtherMethods, NoteDisable, Count, TypeOK
  <2> QED BY <1>5, <2>3, <2>4, <2>5 DEF ReadOtherMethods, TypeOK, user
<1>6. ASSUME NEW b \in BOOLEAN
      PROVE  /\ WithMethods(mfa, r) \in MfaRec(made)
             /\ [mfa EXCEPT !.flag = b] \in MfaRec(made)
             /\ WithMethods([mfa EXCEPT !.flag = b], r) \in MfaRec(made)
  <2>1. mfa \in MfaRec(made) /\ [mfa EXCEPT !.flag = b] \in MfaRec(made)
    BY DEF TypeOK
  <2>2. Enabled(r) \in SUBSET Method
    BY DEF Enabled, Method
  <2>3. ASSUME NEW x \in MfaRec(made) PROVE WithMethods(x, r) \in MfaRec(made)
    BY <1>0, <2>2, <2>3, Fields DEF WithMethods
  <2> QED BY <2>1, <2>3
<1>7. CASE WriteFlag(r)
  <2>1. made' = made /\ req[r].flag \in BOOLEAN
    BY <1>7, Fields DEF WriteFlag
  <2>2. mfa' \in MfaRec(made')
    <3> HIDE DEF MfaRec
    <3> QED BY <1>6, <1>7, <2>1 DEF WriteFlag
  <2>3. req' \in [Req -> Request(made')] /\ \A q \in Req : <<req'[q].op, req'[q].pc>> \in Steps
    <3>1. CASE End(r)
      BY <2>1, <3>1, Ended
    <3>2. CASE Go(r, "methods")
      <4> DEFINE m == [req[r] EXCEPT !.pc = "methods"]
      <4>1. m \in Request(made') /\ m.op = req[r].op /\ m.pc = "methods"
        BY <2>1, Fields DEF Request
      <4>2. <<req[r].op, "methods">> \in Steps
        BY <1>7, Fields DEF WriteFlag, Steps
      <4>3. req' = [req EXCEPT ![r] = m]
        BY <3>2 DEF Go, TypeOK
      <4> HIDE DEF m
      <4> QED BY <1>0, <2>1, <4>1, <4>2, <4>3, OneRequest
    <3> QED BY <1>7, <3>1, <3>2 DEF WriteFlag
  <2> QED BY <1>7, <2>1, <2>2, <2>3 DEF WriteFlag, TypeOK, history
<1>8. CASE WriteMethods(r)
  <2>1. made' = made /\ End(r)
    BY <1>8 DEF WriteMethods
  <2>2. mfa' \in MfaRec(made')
    <3> HIDE DEF MfaRec
    <3> QED BY <1>6, <1>8, <2>1 DEF WriteMethods
  <2> QED BY <1>8, <2>1, <2>2, Ended DEF WriteMethods, TypeOK, history
<1> QED BY <1>1, <1>2, <1>3, <1>4, <1>5, <1>7, <1>8 DEF MfaStep

\* Type correctness, with every request at a step of its kind.
THEOREM CredentialTypes == Spec => []TypeOK
<1>1. Init => TypeOK
  <2> SUFFICES ASSUME Init PROVE TypeOK OBVIOUS
  <2>1. made = 0 /\ Idle \in Request(0) /\ <<Idle.op, Idle.pc>> \in Steps
    BY DEF Init, Idle, Request, Steps
  <2>2. req \in [Req -> Request(made)] /\ \A r \in Req : <<req[r].op, req[r].pc>> \in Steps
    BY <2>1 DEF Init
  <2>3. /\ secretOf \in SecretRec(made) /\ phone \in PhoneRec(made) /\ mfa \in MfaRec(made)
    <3>1. secretOf \in SecretRec(made)
      BY <2>1 DEF Init, SecretRec
    <3>2. phone \in PhoneRec(made)
      BY <2>1 DEF Init, PhoneRec
    <3>3. mfa \in MfaRec(made)
      BY <2>1 DEF Init, MfaRec
    <3> QED BY <3>1, <3>2, <3>3
  <2>4. /\ now = 0 /\ ops = 0 /\ shown = 0 /\ lastSet = 0 /\ resets = {} /\ proved = {}
        /\ numbers = {} /\ mixed = {} /\ settled \in BOOLEAN /\ rivals = {} /\ area \in Areas
    BY DEF Init
  <2> QED BY <2>1, <2>2, <2>3, <2>4 DEF TypeOK, SecretRec, PhoneRec, MfaRec
<1>2. TypeOK /\ [Next]_vars => TypeOK'
  <2> SUFFICES ASSUME TypeOK, [Next]_vars PROVE TypeOK' OBVIOUS
  <2>1. CASE Tick
    BY <2>1 DEF Tick, TypeOK, user, history
  <2>2. CASE UNCHANGED vars
    BY <2>2 DEF vars, TypeOK, user, history
  <2> QED BY <2>1, <2>2, PasswordTypes, PhoneTypes, MfaTypes DEF Next
<1> QED BY <1>1, <1>2, PTL DEF Spec

-----------------------------------------------------------------------------
(* The three groups of columns do not depend on each other.                *)

\* A request changes no other request, and one that is at rest has no kind.
LEMMA OneAtATime ==
    ASSUME TypeOK, NEW r \in Req, PasswordStep(r) \/ PhoneStep(r) \/ MfaStep(r)
    PROVE  \A q \in Req : q # r => req'[q] = req[q]
<1>1. CASE PasswordStep(r)
  BY <1>1 DEF TypeOK, PasswordStep, Login, UpgradeHash, UpgradeFails, GeneratePasswordResetToken,
     FindResetToken, ResetPassword, VerifyCurrentPassword, ChangePassword, AdminChangeUserPassword,
     Begin, End, Go
<1>2. CASE PhoneStep(r)
  BY <1>2 DEF TypeOK, PhoneStep, StartChallenge, FindChallenge, RenewChallenge, ChallengeDelivered,
     RestoreChallenge, RollbackFails, FindPhoneCode, VerifyPhone, UpdatePhoneNumber, Begin, End
<1>3. CASE MfaStep(r)
  BY <1>3 DEF TypeOK, MfaStep, InitiateMfaTotpSetup, VerifyTotpSetupCode, RereadSecret, SetEmailOtp,
     MatchEmailOtp, ClearEmailOtp, ReadOtherMethods, WriteFlag, WriteMethods, Begin, End, Go
<1> QED BY <1>1, <1>2, <1>3

\* What the kind of a request says about its step, and the other way round.
LEMMA Kinds ==
    ASSUME TypeOK, NEW r \in Req
    PROVE  /\ req[r].pc = "idle" <=> req[r].op = "none"
           /\ req[r].pc = "upgrade" => req[r].op \in {"login", "change"}
           /\ req[r].op = "login" => req[r].pc = "upgrade"
           /\ req[r].op = "reset" => req[r].pc = "write"
           /\ req[r].pc \in {"generate", "deliver"} <=> req[r].op = "renew"
           /\ req[r].pc = "verify" <=> req[r].op = "confirm"
           /\ req[r].pc = "reread" => req[r].op = "enable"
           /\ req[r].pc = "clear" => req[r].op \in {"enable", "code"}
           /\ req[r].pc \in {"flag", "methods"} => req[r].op \in {"enable", "disable"}
           /\ req[r].op = "disable" => req[r].pc \in {"flag", "methods"}
BY DEF TypeOK, Steps

\* What starting, going on and ending make of a request.
LEMMA Effects ==
    ASSUME TypeOK, NEW r \in Req
    PROVE  /\ End(r) => req'[r] = Idle /\ req'[r].op = "none" /\ req'[r].pc = "idle"
           /\ \A pc : Go(r, pc) => /\ req'[r] = [req[r] EXCEPT !.pc = pc]
                                   /\ req'[r].op = req[r].op /\ req'[r].pc = pc
           /\ \A op, pc, val, new : Begin(r, op, pc, val, new) =>
                  /\ req'[r].op = op /\ req'[r].pc = pc /\ req'[r].val = val /\ req'[r].new = new
<1>0. req \in [Req -> Request(made)]
  BY DEF TypeOK
<1>1. ASSUME End(r) PROVE req'[r] = Idle
  BY <1>0, <1>1 DEF End
<1>2. ASSUME NEW pc, Go(r, pc) PROVE req'[r] = [req[r] EXCEPT !.pc = pc]
  BY <1>0, <1>2 DEF Go
<1>3. ASSUME NEW pc PROVE [req[r] EXCEPT !.pc = pc].op = req[r].op /\ [req[r] EXCEPT !.pc = pc].pc = pc
  BY <1>0 DEF Request
<1>4. ASSUME NEW op, NEW pc, NEW val, NEW new, Begin(r, op, pc, val, new)
      PROVE  req'[r].op = op /\ req'[r].pc = pc /\ req'[r].val = val /\ req'[r].new = new
  <2>1. req'[r] = [Idle EXCEPT !.op = op, !.pc = pc, !.val = val, !.new = new]
    BY <1>0, <1>4 DEF Begin
  <2> QED BY <2>1 DEF Idle
<1>5. Idle.op = "none" /\ Idle.pc = "idle"
  BY DEF Idle
<1>6. End(r) => req'[r] = Idle /\ req'[r].op = "none" /\ req'[r].pc = "idle"
  BY <1>1, <1>5
<1>7. ASSUME NEW pc, Go(r, pc)
      PROVE  req'[r] = [req[r] EXCEPT !.pc = pc] /\ req'[r].op = req[r].op /\ req'[r].pc = pc
  BY <1>2, <1>3, <1>7
<1> QED BY <1>4, <1>6, <1>7

\* The steps of a group leave the columns of the others and their requests alone.
LEMMA PasswordOnly ==
    ASSUME TypeOK, NEW r \in Req, PasswordStep(r)
    PROVE  /\ UNCHANGED <<phone, mfa, shown, proved, numbers, mixed>>
           /\ \A q \in Req : req'[q] = req[q] \/ req'[q].op \in {"none", "login", "change", "reset"}
           /\ req[r].op \in {"none", "login", "change", "reset"}
<1>1. UNCHANGED <<phone, mfa, shown, proved, numbers, mixed>>
  BY DEF PasswordStep, Login, UpgradeHash, UpgradeFails, GeneratePasswordResetToken, FindResetToken,
     ResetPassword, VerifyCurrentPassword, ChangePassword, AdminChangeUserPassword, user, history
<1>2. req[r].op \in {"none", "login", "change", "reset"}
  BY Kinds DEF PasswordStep, Login, UpgradeHash, UpgradeFails, GeneratePasswordResetToken, FindResetToken,
     ResetPassword, VerifyCurrentPassword, ChangePassword, AdminChangeUserPassword, InArea
<1>3. req'[r] = req[r] \/ req'[r].op \in {"none", "login", "change", "reset"}
  BY <1>2, Effects DEF PasswordStep, Login, UpgradeHash, UpgradeFails, GeneratePasswordResetToken,
     FindResetToken, ResetPassword, VerifyCurrentPassword, ChangePassword, AdminChangeUserPassword
<1> QED BY <1>1, <1>2, <1>3, OneAtATime

LEMMA PhoneOnly ==
    ASSUME TypeOK, NEW r \in Req, PhoneStep(r)
    PROVE  /\ UNCHANGED <<secretOf, mfa, lastSet, settled, resets, rivals, proved>>
           /\ mixed' \in {mixed, mixed \cup {"phone"}}
           /\ \A q \in Req : req'[q] = req[q] \/ req'[q].op \in {"none", "renew", "confirm"}
           /\ req[r].op \in {"none", "renew", "confirm"}
<1>1. UNCHANGED <<secretOf, mfa, lastSet, settled, resets, rivals, proved>>
  BY DEF PhoneStep, StartChallenge, FindChallenge, RenewChallenge, ChallengeDelivered,
     RestoreChallenge, RollbackFails, FindPhoneCode, VerifyPhone, UpdatePhoneNumber, user, history
<1>2. req[r].op \in {"none", "renew", "confirm"}
  BY Kinds DEF PhoneStep, StartChallenge, FindChallenge, RenewChallenge, ChallengeDelivered,
     RestoreChallenge, RollbackFails, FindPhoneCode, VerifyPhone, UpdatePhoneNumber, InArea
<1>3. req'[r] = req[r] \/ req'[r].op \in {"none", "renew", "confirm"}
  <2>1. CASE FindChallenge(r)
    BY <2>1 DEF FindChallenge, TypeOK, Idle
  <2>2. CASE RenewChallenge(r)
    <3>1. CASE End(r)
      BY <3>1, Effects
    <3>2. CASE req' = [req EXCEPT ![r] = [@ EXCEPT !.pc = "deliver", !.new = made + 1]]
      BY <1>2, <3>2 DEF TypeOK, Request
    <3> QED BY <2>2, <3>1, <3>2 DEF RenewChallenge
  <2> QED BY <2>1, <2>2, Effects DEF PhoneStep, StartChallenge, ChallengeDelivered, RestoreChallenge,
      RollbackFails, FindPhoneCode, VerifyPhone, UpdatePhoneNumber
<1>4. mixed' \in {mixed, mixed \cup {"phone"}}
  BY DEF PhoneStep, StartChallenge, FindChallenge, RenewChallenge, ChallengeDelivered,
     RestoreChallenge, RollbackFails, FindPhoneCode, VerifyPhone, UpdatePhoneNumber, NotePhone, history
<1> QED BY <1>1, <1>2, <1>3, <1>4, OneAtATime

LEMMA MfaOnly ==
    ASSUME TypeOK, NEW r \in Req, MfaStep(r)
    PROVE  /\ UNCHANGED <<secretOf, phone, shown, lastSet, settled, resets, rivals, numbers>>
           /\ mixed \subseteq mixed' /\ ("phone" \in mixed' => "phone" \in mixed)
           /\ \A q \in Req : req'[q] = req[q] \/ req'[q].op \in {"none", "enable", "disable", "code"}
           /\ req[r].op \in {"none", "enable", "disable", "code"}
<1>1. UNCHANGED <<secretOf, phone, shown, lastSet, settled, resets, rivals, numbers>>
  BY DEF MfaStep, InitiateMfaTotpSetup, VerifyTotpSetupCode, RereadSecret, SetEmailOtp,
     MatchEmailOtp, ClearEmailOtp, ReadOtherMethods, WriteFlag, WriteMethods, user, history
<1>2. req[r].op \in {"none", "enable", "disable", "code"}
  BY Kinds DEF MfaStep, InitiateMfaTotpSetup, VerifyTotpSetupCode, RereadSecret, SetEmailOtp,
     MatchEmailOtp, ClearEmailOtp, ReadOtherMethods, WriteFlag, WriteMethods, InArea
<1>3. req'[r] = req[r] \/ req'[r].op \in {"none", "enable", "disable", "code"}
  <2>1. CASE RereadSecret(r) \/ ClearEmailOtp(r)
    <3>1. CASE End(r)
      BY <3>1, Effects
    <3>2. CASE req' = [req EXCEPT ![r] = [@ EXCEPT !.pc = "flag", !.val = mfa.secret, !.flag = TRUE]]
      <4>1. req'[r] = [req[r] EXCEPT !.pc = "flag", !.val = mfa.secret, !.flag = TRUE]
        BY <3>2 DEF TypeOK
      <4>2. req'[r].op = req[r].op
        BY <4>1 DEF TypeOK, Request
      <4> QED BY <1>2, <4>2
    <3>3. CASE req' = [req EXCEPT ![r] = [@ EXCEPT !.pc = "flag", !.flag = TRUE]]
      <4>1. req'[r] = [req[r] EXCEPT !.pc = "flag", !.flag = TRUE]
        BY <3>3 DEF TypeOK
      <4>2. req'[r].op = req[r].op
        BY <4>1 DEF TypeOK, Request
      <4> QED BY <1>2, <4>2
    <3> QED BY <2>1, <3>1, <3>2, <3>3 DEF RereadSecret, ClearEmailOtp
  <2>2. ASSUME NEW drop, ReadOtherMethods(r, drop) PROVE req'[r].op = "disable"
    BY <2>2 DEF ReadOtherMethods, TypeOK, Idle
  <2> QED BY <1>2, <2>1, <2>2, Effects DEF MfaStep, InitiateMfaTotpSetup, VerifyTotpSetupCode,
      SetEmailOtp, MatchEmailOtp, WriteFlag, WriteMethods
<1>4. mixed \subseteq mixed' /\ ("phone" \in mixed' => "phone" \in mixed)
  BY DEF MfaStep, InitiateMfaTotpSetup, VerifyTotpSetupCode, RereadSecret, SetEmailOtp,
     MatchEmailOtp, ClearEmailOtp, ReadOtherMethods, WriteFlag, WriteMethods, NoteDisable, history
<1> QED BY <1>1, <1>2, <1>3, <1>4, OneAtATime

-----------------------------------------------------------------------------
(* The password.                                                           *)

\* A step of another group, or of the clock, begins no upgrade.
LEMMA OtherUpgrades ==
    ASSUME TypeOK,
           \A q \in Req : req'[q] = req[q] \/ req'[q].op \notin {"login", "change"}
    PROVE  Upgrading' \subseteq Upgrading
BY DEF Upgrading

\* Setting a password ends the upgrades, for the record and for those to come.
LEMMA SetEnds ==
    ASSUME NEW p, NEW more, SetPassword(p, more), TypeOK, UpgradesOver, Upgrading' \subseteq Upgrading
    PROVE  (UpgradesOver /\ NoOldPassword)'
<1>1. /\ secretOf'.pw = p /\ secretOf'.legacy = FALSE /\ lastSet' = p
      /\ settled' = (settled \/ Upgrading = {})
  BY DEF SetPassword, TypeOK
<1>2. settled' => Upgrading' = {}
  BY <1>1 DEF UpgradesOver
<1> QED BY <1>1, <1>2 DEF UpgradesOver, NoOldPassword

LEMMA PasswordStepKeeps ==
    ASSUME TypeOK, TypeOK', UpgradesOver, NoOldPassword, NEW r \in Req, PasswordStep(r)
    PROVE  (UpgradesOver /\ NoOldPassword)'
<1>0. \A q \in Req : q # r => req'[q] = req[q]
  BY OneAtATime
<1>1. ASSUME End(r) PROVE Upgrading' \subseteq Upgrading
  BY <1>0, <1>1, Effects DEF Upgrading
<1>2. CASE Login(r)
  <2>1. ~settled /\ settled' = settled
    BY <1>2 DEF Login, UpgradesOver, history
  <2> QED BY <2>1 DEF UpgradesOver, NoOldPassword
<1>3. CASE UpgradeHash(r)
  <2>1. r \in Upgrading
    BY <1>3, Kinds DEF UpgradeHash, Upgrading
  <2>2. ~settled /\ settled' = settled
    BY <1>3, <2>1 DEF UpgradeHash, UpgradesOver, history
  <2> QED BY <2>2 DEF UpgradesOver, NoOldPassword
<1>4. CASE UpgradeFails(r)
  <2>1. r \in Upgrading
    BY <1>4, Kinds DEF UpgradeFails, Upgrading
  <2>2. ~settled /\ settled' = settled
    BY <1>4, <2>1 DEF UpgradeFails, UpgradesOver, history
  <2> QED BY <2>2 DEF UpgradesOver, NoOldPassword
<1>5. CASE GeneratePasswordResetToken(r)
  <2>1. /\ secretOf'.pw = secretOf.pw /\ secretOf'.legacy = secretOf.legacy
        /\ req' = req /\ settled' = settled /\ lastSet' = lastSet
    BY <1>5 DEF GeneratePasswordResetToken, TypeOK, history
  <2> QED BY <2>1 DEF UpgradesOver, NoOldPassword, Upgrading
<1>6. CASE FindResetToken(r)
  <2>1. req'[r].op = "reset"
    BY <1>6, Effects DEF FindResetToken
  <2>2. Upgrading' \subseteq Upgrading
    BY <2>1, <1>0 DEF Upgrading
  <2>3. UNCHANGED <<secretOf, settled, lastSet>>
    BY <1>6 DEF FindResetToken, user
  <2> QED BY <2>2, <2>3 DEF UpgradesOver, NoOldPassword
<1>7. CASE ResetPassword(r)
  BY <1>1, <1>7, SetEnds DEF ResetPassword
<1>8. CASE VerifyCurrentPassword(r)
  <2>1. UNCHANGED <<secretOf, settled, lastSet>>
    BY <1>8 DEF VerifyCurrentPassword, user, history
  <2>2. CASE ~settled
    BY <2>1, <2>2 DEF UpgradesOver, NoOldPassword
  <2>3. CASE settled
    <3>1. secretOf.legacy = FALSE /\ Upgrading = {}
      BY <2>3 DEF UpgradesOver, TypeOK
    <3>2. req'[r].op = "change" /\ req'[r].pc = "write"
      BY <1>8, <3>1, Effects DEF VerifyCurrentPassword
    <3>3. Upgrading' \subseteq Upgrading
      BY <1>0, <3>2 DEF Upgrading
    <3> QED BY <2>1, <3>1, <3>3 DEF UpgradesOver, NoOldPassword
  <2> QED BY <2>2, <2>3
<1>9. CASE ChangePassword(r)
  BY <1>1, <1>9, SetEnds DEF ChangePassword
<1>10. ASSUME NEW f \in BOOLEAN, AdminChangeUserPassword(r, f) PROVE (UpgradesOver /\ NoOldPassword)'
  <2>1. Upgrading' \subseteq Upgrading
    BY <1>10 DEF AdminChangeUserPassword, Upgrading
  <2> QED BY <1>10, <2>1, SetEnds DEF AdminChangeUserPassword
<1> QED BY <1>2, <1>3, <1>4, <1>5, <1>6, <1>7, <1>8, <1>9, <1>10 DEF PasswordStep

\* validatePassword and changePassword of the auth service: however requests of a
\* user interleave, the upgrade of an old hash never brings an earlier password
\* back once one was set with no upgrade under way.  UpgradesOver is what makes
\* the property inductive.
THEOREM OldPasswordsGone == Spec => []NoOldPassword
<1>1. Init => UpgradesOver /\ NoOldPassword
  BY DEF Init, UpgradesOver, NoOldPassword
<1>2. TypeOK /\ TypeOK' /\ UpgradesOver /\ NoOldPassword /\ [Next]_vars => (UpgradesOver /\ NoOldPassword)'
  <2> SUFFICES ASSUME TypeOK, TypeOK', UpgradesOver, NoOldPassword, [Next]_vars
               PROVE  (UpgradesOver /\ NoOldPassword)'
    OBVIOUS
  <2>1. ASSUME UNCHANGED <<secretOf, settled, lastSet>>,
               \A q \in Req : req'[q] = req[q] \/ req'[q].op \notin {"login", "change"}
        PROVE  (UpgradesOver /\ NoOldPassword)'
    BY <2>1, OtherUpgrades DEF UpgradesOver, NoOldPassword
  <2>2. CASE Tick
    BY <2>1, <2>2 DEF Tick, user, history
  <2>3. CASE UNCHANGED vars
    BY <2>1, <2>3 DEF vars, user, history
  <2>4. ASSUME NEW r \in Req, PhoneStep(r) \/ MfaStep(r) PROVE (UpgradesOver /\ NoOldPassword)'
    BY <2>1, <2>4, PhoneOnly, MfaOnly
  <2> QED BY <2>2, <2>3, <2>4, PasswordStepKeeps DEF Next
<1> QED BY <1>1, <1>2, CredentialTypes, PTL DEF Spec

ResetInv == TokenUnspent /\ HoldersRival /\ ResetTokenOnce

\* A step that leaves the token, and what resets hold and wrote, as they were.
LEMMA ResetFrame ==
    ASSUME ResetInv, secretOf'.token = secretOf.token, UNCHANGED <<resets, rivals>>,
           \A q \in Req : req'[q].op = "reset" => req'[q] = req[q]
    PROVE  ResetInv'
<1>1. TokenUnspent' /\ ResetTokenOnce'
  BY DEF ResetInv, TokenUnspent, ResetTokenOnce
<1>2. HoldersRival'
  BY DEF ResetInv, HoldersRival, Holding
<1> QED BY <1>1, <1>2 DEF ResetInv

LEMMA ResetStepKeeps ==
    ASSUME TypeOK, ResetInv, NEW r \in Req, PasswordStep(r)
    PROVE  ResetInv'
<1>0. \A q \in Req : q # r => req'[q] = req[q]
  BY OneAtATime
<1>a. TokenUnspent /\ HoldersRival /\ ResetTokenOnce
  BY DEF ResetInv
<1>1. ASSUME secretOf'.token = secretOf.token, resets' = resets, rivals' = rivals, req'[r].op # "reset"
      PROVE  ResetInv'
  BY <1>0, <1>1, ResetFrame
<1>2. CASE Login(r) \/ UpgradeFails(r) \/ VerifyCurrentPassword(r)
  <2>1. secretOf' = secretOf /\ resets' = resets /\ rivals' = rivals
    BY <1>2 DEF Login, UpgradeFails, VerifyCurrentPassword, user, history
  <2>2. req'[r].op # "reset"
    <3>1. CASE Login(r)
      BY <3>1, Effects DEF Login
    <3>2. CASE UpgradeFails(r)
      BY <3>2, Effects, Kinds DEF UpgradeFails
    <3>3. CASE VerifyCurrentPassword(r)
      BY <3>3, Effects DEF VerifyCurrentPassword
    <3> QED BY <1>2, <3>1, <3>2, <3>3
  <2> QED BY <1>1, <2>1, <2>2
<1>3. CASE UpgradeHash(r)
  <2>1. req'[r].op # "reset"
    BY <1>3, Effects, Kinds DEF UpgradeHash
  <2> QED BY <1>1, <1>3, <2>1 DEF UpgradeHash, TypeOK, history
<1>4. CASE GeneratePasswordResetToken(r)
  <2>1. secretOf'.token = made + 1 /\ resets' = resets /\ rivals' = rivals /\ req' = req
    BY <1>4 DEF GeneratePasswordResetToken, TypeOK, history
  <2>2. \A s \in resets : s.token # made + 1
    BY DEF TypeOK
  <2>3. TokenUnspent'
    BY <2>1, <2>2 DEF TokenUnspent
  <2>4. HoldersRival' /\ ResetTokenOnce'
    BY <1>a, <2>1 DEF HoldersRival, Holding, ResetTokenOnce
  <2> QED BY <2>3, <2>4 DEF ResetInv
<1>5. CASE FindResetToken(r)
  <2>1. /\ secretOf' = secretOf /\ resets' = resets /\ secretOf.token # 0
        /\ rivals' = rivals \cup {{req[q].new, made + 1} : q \in Holding(secretOf.token)}
    BY <1>5 DEF FindResetToken, user
  <2>2. req'[r].op = "reset" /\ req'[r].val = secretOf.token /\ req'[r].new = made + 1
    BY <1>5, Effects DEF FindResetToken
  <2>3. TokenUnspent' /\ ResetTokenOnce'
    BY <1>a, <2>1 DEF TokenUnspent, ResetTokenOnce
  <2>4. ASSUME NEW p \in Req, req'[p].op = "reset", NEW s \in resets', s.token = req'[p].val
        PROVE  {s.pw, req'[p].new} \in rivals'
    <3>1. p # r
      BY <1>a, <2>1, <2>2, <2>4 DEF TokenUnspent
    <3> QED BY <1>0, <1>a, <2>1, <2>4, <3>1 DEF HoldersRival
  <2>5. ASSUME NEW p \in Req, req'[p].op = "reset",
               NEW q \in Req, req'[q].op = "reset", req'[q].val = req'[p].val, q # p
        PROVE  {req'[q].new, req'[p].new} \in rivals'
    <3>1. CASE p = r
      <4>1. q \in Holding(secretOf.token) /\ req'[q].new = req[q].new
        BY <1>0, <2>2, <2>5, <3>1 DEF Holding
      <4> QED BY <2>1, <2>2, <3>1, <4>1
    <3>2. CASE q = r
      <4>1. p \in Holding(secretOf.token) /\ req'[p].new = req[p].new
        BY <1>0, <2>2, <2>5, <3>2 DEF Holding
      <4>2. {made + 1, req[p].new} = {req[p].new, made + 1}
        OBVIOUS
      <4> QED BY <2>1, <2>2, <3>2, <4>1, <4>2
    <3>3. CASE p # r /\ q # r
      BY <1>0, <1>a, <2>1, <2>5, <3>3 DEF HoldersRival, Holding
    <3> QED BY <3>1, <3>2, <3>3
  <2>6. HoldersRival'
    BY <2>4, <2>5 DEF HoldersRival, Holding
  <2> QED BY <2>3, <2>6 DEF ResetInv
<1>6. CASE ResetPassword(r)
  <2> DEFINE w == [token |-> req[r].val, pw |-> req[r].new]
  <2>1. /\ secretOf'.token = 0 /\ rivals' = rivals /\ resets' = resets \cup {w}
        /\ req[r].op = "reset"
    BY <1>6 DEF ResetPassword, SetPassword, TypeOK
  <2>2. req'[r].op = "none"
    BY <1>6, Effects DEF ResetPassword
  <2>3. w.token = req[r].val /\ w.pw = req[r].new
    OBVIOUS
  <2> HIDE DEF w
  <2>4. \A s \in resets : s.token = w.token => {s.pw, w.pw} \in rivals
    BY <1>a, <2>1, <2>3 DEF HoldersRival
  <2>5. ResetTokenOnce'
    <3> SUFFICES ASSUME NEW s \in resets', NEW t \in resets', s.token = t.token, s # t
                 PROVE  {s.pw, t.pw} \in rivals'
      BY DEF ResetTokenOnce
    <3>1. {s.pw, t.pw} = {t.pw, s.pw}
      OBVIOUS
    <3> QED BY <1>a, <2>1, <2>4, <3>1 DEF ResetTokenOnce
  <2>6. ASSUME NEW p \in Req, req'[p].op = "reset", NEW s \in resets', s.token = req'[p].val
        PROVE  {s.pw, req'[p].new} \in rivals'
    <3>1. p # r /\ req'[p] = req[p] /\ req[p].op = "reset"
      BY <1>0, <2>2, <2>6
    <3>2. CASE s \in resets
      BY <1>a, <2>1, <2>6, <3>1, <3>2 DEF HoldersRival
    <3>3. CASE s = w
      BY <1>a, <2>1, <2>3, <2>6, <3>1, <3>3 DEF HoldersRival, Holding
    <3> QED BY <2>1, <3>2, <3>3
  <2>7. HoldersRival'
    <3>1. \A p \in Req : req'[p].op = "reset" => req'[p] = req[p]
      BY <1>0, <2>2
    <3> QED BY <1>a, <2>1, <2>6, <3>1 DEF HoldersRival, Holding
  <2>8. TokenUnspent'
    BY <2>1 DEF TokenUnspent
  <2> QED BY <2>5, <2>7, <2>8 DEF ResetInv
<1>7. CASE ChangePassword(r)
  <2>1. req'[r].op # "reset"
    BY <1>7, Effects DEF ChangePassword
  <2> QED BY <1>1, <1>7, <2>1 DEF ChangePassword, SetPassword, TypeOK
<1>8. ASSUME NEW f \in BOOLEAN, AdminChangeUserPassword(r, f) PROVE ResetInv'
  <2>1. req'[r].op # "reset"
    BY <1>8, Kinds DEF AdminChangeUserPassword, InArea
  <2> QED BY <1>1, <1>8, <2>1 DEF AdminChangeUserPassword, SetPassword, TypeOK
<1> QED BY <1>2, <1>3, <1>4, <1>5, <1>6, <1>7, <1>8 DEF PasswordStep

\* generatePasswordResetToken and resetPassword: a link sets a second password only
\* for a request that had found it before the first was written, since the write that
\* sets the password takes the token out of the record.
THEOREM ResetLinksOnce == Spec => []ResetTokenOnce
<1>1. Init => ResetInv
  <2> SUFFICES ASSUME Init PROVE ResetInv OBVIOUS
  <2>1. resets = {} /\ \A q \in Req : req[q].op = "none"
    BY DEF Init, Idle
  <2> QED BY <2>1 DEF ResetInv, TokenUnspent, ResetTokenOnce, HoldersRival
<1>2. TypeOK /\ ResetInv /\ [Next]_vars => ResetInv'
  <2> SUFFICES ASSUME TypeOK, ResetInv, [Next]_vars
               PROVE  ResetInv'
    OBVIOUS
  <2>1. ASSUME UNCHANGED <<secretOf, resets, rivals, req>> PROVE ResetInv'
    BY <2>1, ResetFrame
  <2>2. CASE Tick
    BY <2>1, <2>2 DEF Tick, user, history
  <2>3. CASE UNCHANGED vars
    BY <2>1, <2>3 DEF vars, user, history
  <2>4. ASSUME NEW r \in Req, PhoneStep(r) \/ MfaStep(r) PROVE ResetInv'
    <3>1. \A q \in Req : req'[q].op = "reset" => req'[q] = req[q]
      BY <2>4, PhoneOnly, MfaOnly
    <3>2. UNCHANGED <<secretOf, resets, rivals>>
      BY <2>4, PhoneOnly, MfaOnly
    <3> QED BY <3>1, <3>2, ResetFrame
  <2> QED BY <2>2, <2>3, <2>4, ResetStepKeeps DEF Next
<1>3. ResetInv => ResetTokenOnce
  BY DEF ResetInv
<1> QED BY <1>1, <1>2, <1>3, CredentialTypes, PTL DEF Spec

-----------------------------------------------------------------------------
(* The phone number.                                                       *)

PhoneInv == PhoneAlone /\ ChallengeKept

\* A step that touches no challenge, no token and no renewal keeps them right.
LEMMA PhoneFrame ==
    ASSUME TypeOK, TypeOK', PhoneInv, NEW r \in Req, UNCHANGED shown,
           phone'.token = phone.token, phone'.verified = phone.verified,
           "phone" \in mixed => "phone" \in mixed',
           \A q \in Req : q # r => req'[q] = req[q],
           req[r].op \notin {"renew", "confirm"}, req'[r].op \notin {"renew", "confirm"}
    PROVE  PhoneInv'
<1>1. PhoneAlone'
  BY DEF PhoneInv, PhoneAlone
<1>2. req[r].pc # "deliver" /\ req'[r].pc # "deliver"
  BY DEF TypeOK, Steps
<1>3. (\A q \in Req : req'[q].pc # "deliver") => (\A q \in Req : req[q].pc # "deliver")
  BY <1>2
<1>4. ChallengeKept'
  BY <1>2, <1>3 DEF PhoneInv, ChallengeKept
<1> QED BY <1>1, <1>4 DEF PhoneInv

LEMMA PhoneStepKeeps ==
    ASSUME TypeOK, TypeOK', PhoneInv, NEW r \in Req, PhoneStep(r)
    PROVE  PhoneInv'
<1>0. /\ \A q \in Req : q # r => req'[q] = req[q]
      /\ "phone" \in mixed => "phone" \in mixed'
  BY OneAtATime, PhoneOnly
<1>1. CASE "phone" \in mixed'
  BY <1>1 DEF PhoneInv, PhoneAlone, ChallengeKept
<1>2. CASE "phone" \notin mixed'
  <2>0. "phone" \notin mixed
    BY <1>0, <1>2
  <2>1. ASSUME NotePhone(r) PROVE \A q \in Req : q # r => req[q].op \notin {"renew", "confirm"}
    BY <1>2, <2>1 DEF NotePhone, Busy, PhoneOps
  <2>2. ASSUME req[r].op \in {"renew", "confirm"}
        PROVE  \A q \in Req : q # r => req[q].op \notin {"renew", "confirm"}
    BY <2>0, <2>2 DEF PhoneInv, PhoneAlone
  <2>3. ASSUME \A q \in Req : q # r => req[q].op \notin {"renew", "confirm"}
        PROVE  /\ PhoneAlone'
               /\ \A q \in Req : q # r => req'[q].op \notin {"renew", "confirm"} /\ req'[q].pc # "deliver"
               /\ (/\ (~phone'.verified /\ req'[r].pc # "deliver") => phone'.token = shown'
                   /\ (~phone'.verified /\ req'[r].op = "renew") =>
                         /\ req'[r].prev.token = shown'
                         /\ (req'[r].pc = "deliver" => req'[r].new = phone'.token))
                  => PhoneInv'
    <3>1. PhoneAlone'
      BY <1>0, <2>3 DEF PhoneAlone
    <3>2. \A q \in Req : q # r => req'[q].op \notin {"renew", "confirm"} /\ req'[q].pc # "deliver"
      BY <1>0, <2>3, Kinds
    <3> QED BY <3>1, <3>2 DEF PhoneInv, ChallengeKept
  <2>4. ~phone.verified =>
            /\ (\A q \in Req : req[q].pc # "deliver") => phone.token = shown
            /\ req[r].op = "renew" =>
                  req[r].prev.token = shown /\ (req[r].pc = "deliver" => req[r].new = phone.token)
    BY <2>0 DEF PhoneInv, ChallengeKept
  <2>5. CASE StartChallenge(r)
    <3>1. req[r].op = "none" /\ req' = req
      BY <2>5, Kinds DEF StartChallenge, InArea
    <3>2. phone'.token = made + 1 /\ shown' = made + 1
      BY <2>5 DEF StartChallenge, TypeOK
    <3> QED BY <2>1, <2>3, <2>5, <3>1, <3>2 DEF StartChallenge
  <2>6. CASE FindChallenge(r)
    <3>1. req'[r] = [Idle EXCEPT !.op = "renew", !.pc = "generate", !.prev = Challenge]
      BY <2>6 DEF FindChallenge, TypeOK
    <3>2. req'[r].op = "renew" /\ req'[r].pc = "generate" /\ req'[r].prev.token = phone.token
      BY <3>1 DEF Idle, Challenge
    <3>3. phone.token = shown /\ phone' = phone /\ shown' = shown
      BY <2>6 DEF FindChallenge, user
    <3> QED BY <2>1, <2>3, <2>6, <3>2, <3>3 DEF FindChallenge
  <2>7. CASE RenewChallenge(r)
    <3>0. req[r].op = "renew" /\ req[r].pc = "generate" /\ shown' = shown
      BY <2>7, Kinds DEF RenewChallenge
    <3>1. CASE phone.verified
      <4>1. End(r) /\ phone' = phone
        BY <2>7, <3>1 DEF RenewChallenge
      <4>2. req'[r].op = "none"
        BY <4>1, Effects
      <4> QED BY <2>2, <2>3, <3>0, <3>1, <4>1, <4>2
    <3>2. CASE ~phone.verified
      <4>1. /\ req' = [req EXCEPT ![r] = [@ EXCEPT !.pc = "deliver", !.new = made + 1]]
            /\ phone' = [phone EXCEPT !.token = made + 1, !.expires = now + TokenLife]
        BY <2>7, <3>2 DEF RenewChallenge
      <4>2. req'[r] = [req[r] EXCEPT !.pc = "deliver", !.new = made + 1]
        BY <4>1 DEF TypeOK
      <4>3. req'[r].pc = "deliver" /\ req'[r].new = made + 1 /\ req'[r].prev = req[r].prev
        BY <4>2 DEF TypeOK, Request
      <4>4. phone'.token = made + 1
        BY <4>1 DEF TypeOK
      <4> QED BY <2>2, <2>3, <2>4, <3>0, <3>2, <4>3, <4>4
    <3> QED BY <3>1, <3>2
  <2>8. CASE ChallengeDelivered(r)
    <3>1. req[r].op = "renew" /\ req[r].pc = "deliver"
      BY <2>8, Kinds DEF ChallengeDelivered
    <3>2. phone' = phone /\ shown' = req[r].new /\ req'[r].op = "none"
      BY <2>8, Effects DEF ChallengeDelivered, user
    <3> QED BY <2>2, <2>3, <2>4, <3>1, <3>2
  <2>9. CASE RestoreChallenge(r)
    <3>1. req[r].op = "renew" /\ req[r].pc = "deliver"
      BY <2>9, Kinds DEF RestoreChallenge
    <3>2. /\ phone'.token = req[r].prev.token /\ phone'.verified = phone.verified
          /\ shown' = shown /\ req'[r].op = "none"
      BY <2>9, Effects DEF RestoreChallenge, TypeOK
    <3> QED BY <2>2, <2>3, <2>4, <3>1, <3>2
  <2>10. CASE RollbackFails(r)
    BY <1>2, <2>10 DEF RollbackFails
  <2>11. CASE FindPhoneCode(r)
    <3>1. req'[r].op = "confirm" /\ req'[r].pc = "verify"
      BY <2>11, Effects DEF FindPhoneCode
    <3>2. phone.token = shown /\ phone' = phone /\ shown' = shown
      BY <2>11 DEF FindPhoneCode, user
    <3> QED BY <2>1, <2>3, <2>11, <3>1, <3>2 DEF FindPhoneCode
  <2>12. CASE VerifyPhone(r)
    <3>1. req[r].op = "confirm" /\ req'[r].op = "none"
      BY <2>12, Kinds, Effects DEF VerifyPhone
    <3>2. phone'.verified = TRUE
      BY <2>12 DEF VerifyPhone, TypeOK
    <3> QED BY <2>2, <2>3, <3>1, <3>2
  <2>13. ASSUME NEW n \in Number, UpdatePhoneNumber(r, n) PROVE PhoneInv'
    <3>1. req[r].op = "none" /\ req' = req /\ shown' = shown
      BY <2>13, Kinds DEF UpdatePhoneNumber, InArea
    <3>2. phone'.token = phone.token /\ phone'.verified = phone.verified
      BY <2>13 DEF UpdatePhoneNumber, TypeOK
    <3> QED BY <1>0, <3>1, <3>2, PhoneFrame
  <2> QED BY <2>5, <2>6, <2>7, <2>8, <2>9, <2>10, <2>11, <2>12, <2>13 DEF PhoneStep
<1> QED BY <1>1, <1>2

\* renewPhoneVerificationChallenge and its compensation in the auth controller: a
\* renewal whose message is not delivered leaves the browser with a usable token.
THEOREM CompensationKeepsToken == Spec => []BrowserTokenUsable
<1>1. Init => PhoneInv
  BY DEF Init, PhoneInv, PhoneAlone, ChallengeKept, Idle
<1>2. TypeOK /\ TypeOK' /\ PhoneInv /\ [Next]_vars => PhoneInv'
  <2> SUFFICES ASSUME TypeOK, TypeOK', PhoneInv, [Next]_vars PROVE PhoneInv' OBVIOUS
  <2>1. CASE Tick
    BY <2>1 DEF Tick, user, history, PhoneInv, PhoneAlone, ChallengeKept
  <2>2. CASE UNCHANGED vars
    BY <2>2 DEF vars, user, history, PhoneInv, PhoneAlone, ChallengeKept
  <2>3. ASSUME NEW r \in Req, PasswordStep(r) PROVE PhoneInv'
    <3>1. req[r].op \notin {"renew", "confirm"} /\ req'[r].op \notin {"renew", "confirm"}
      BY <2>3, PasswordOnly
    <3> QED BY <2>3, <3>1, PasswordOnly, OneAtATime, PhoneFrame
  <2>4. ASSUME NEW r \in Req, MfaStep(r) PROVE PhoneInv'
    <3>1. req[r].op \notin {"renew", "confirm"} /\ req'[r].op \notin {"renew", "confirm"}
      BY <2>4, MfaOnly
    <3>2. UNCHANGED <<phone, shown>> /\ ("phone" \in mixed => "phone" \in mixed')
      BY <2>4, MfaOnly
    <3> QED BY <2>4, <3>1, <3>2, OneAtATime, PhoneFrame
  <2> QED BY <2>1, <2>2, <2>3, <2>4, PhoneStepKeeps DEF Next
<1>3. TypeOK /\ PhoneInv => BrowserTokenUsable
  BY DEF PhoneInv, ChallengeKept, BrowserTokenUsable
<1> QED BY <1>1, <1>2, <1>3, CredentialTypes, PTL DEF Spec

-----------------------------------------------------------------------------
(* The second factors.                                                     *)

FlagInv == DisableAlone /\ FlagFollows

\* A step that leaves the flag and the methods alone, and whose request is none of
\* the writers of the MFA columns before nor after it.
LEMMA FlagFrame ==
    ASSUME TypeOK, TypeOK', FlagInv, NEW r \in Req,
           mfa'.flag = mfa.flag, mfa'.on = mfa.on, mixed \subseteq mixed',
           \A q \in Req : q # r => req'[q] = req[q],
           req[r].op \notin MfaWriters, req'[r].op \notin MfaWriters
    PROVE  FlagInv'
<1>1. CASE mixed' # {}
  BY <1>1 DEF FlagInv, DisableAlone, FlagFollows
<1>2. CASE mixed' = {}
  <2>1. mixed = {}
    BY <1>2
  <2>2. DisableAlone'
    BY <2>1 DEF FlagInv, DisableAlone, MfaWriters
  <2>3. \A q \in Req : req'[q].op = "disable" <=> req[q].op = "disable"
    BY DEF MfaWriters
  <2>4. \A q \in Req : req'[q].op \in MfaWriters => req'[q] = req[q]
    OBVIOUS
  <2>5. \A q \in Req : req[q].op = "enable" => req'[q] = req[q]
    BY DEF MfaWriters
  <2>6. FlagFollows'
    BY <2>1, <2>3, <2>4, <2>5 DEF FlagInv, FlagFollows, MfaWriters
  <2> QED BY <2>2, <2>6 DEF FlagInv
<1> QED BY <1>1, <1>2

\* An enabling request that begins, or that is about to write the flag.
LEMMA FlagEnables ==
    ASSUME TypeOK, TypeOK', FlagInv, NEW r \in Req,
           mfa'.flag = mfa.flag, mfa'.on = mfa.on, mixed' = {}, mixed = {},
           \A q \in Req : q # r => req'[q] = req[q],
           \A q \in Req : req[q].op # "disable",
           req[r].pc # "methods", req'[r].op = "enable", req'[r].pc # "methods",
           req'[r].pc = "flag" => req'[r].flag
    PROVE  FlagInv'
<1>1. \A q \in Req : req'[q].op # "disable"
  OBVIOUS
<1>2. DisableAlone'
  BY <1>1 DEF DisableAlone
<1>3. (\E q \in Req : req[q].op = "enable" /\ req[q].pc = "methods") =>
        \E q \in Req : req'[q].op = "enable" /\ req'[q].pc = "methods"
  OBVIOUS
<1>4. FlagFollows'
  BY <1>1, <1>3 DEF FlagInv, FlagFollows
<1> QED BY <1>2, <1>4 DEF FlagInv

\* What a write makes of the methods.
LEMMA Methods ==
    ASSUME NEW m, m \in MfaRec(made), NEW r \in Req, TypeOK
    PROVE  /\ WithMethods(m, r).flag = m.flag
           /\ req[r].op = "enable" => WithMethods(m, r).on = m.on \cup Enabled(r)
           /\ req[r].op # "enable" => WithMethods(m, r).on = m.on \ req[r].drop
BY DEF WithMethods, MfaRec

\* The write of the methods that ends a request, in the same update as the flag or
\* after it.
LEMMA WriteEnds ==
    ASSUME TypeOK, TypeOK', FlagInv, mixed = {}, mixed' = {}, NEW r \in Req, End(r),
           req[r].op \in MfaWriters, req[r].pc \in {"flag", "methods"},
           NEW m, m \in MfaRec(made), m.on = mfa.on, mfa' = WithMethods(m, r),
           m.flag = (IF req[r].pc = "flag" THEN req[r].flag ELSE mfa.flag)
    PROVE  FlagInv'
<1>0. /\ \A q \in Req : q # r => req'[q] = req[q]
      /\ req'[r].op = "none"
  <2>1. req' = [req EXCEPT ![r] = Idle]
    BY DEF End
  <2> QED BY <2>1, Effects DEF TypeOK
<1>1. DisableAlone'
  BY <1>0 DEF FlagInv, DisableAlone, MfaWriters
<1>2. CASE req[r].op = "enable"
  <2>1. \A q \in Req : req[q].op # "disable"
    BY <1>2 DEF FlagInv, DisableAlone, MfaWriters
  <2>2. m.flag
    BY <1>2 DEF FlagInv, FlagFollows
  <2>3. mfa'.flag = m.flag /\ mfa'.on = m.on \cup Enabled(r)
    BY <1>2, Methods
  <2>4. mfa'.flag /\ mfa'.on # {}
    BY <2>2, <2>3 DEF Enabled
  <2>5. \A q \in Req : req'[q].op = "enable" => req'[q] = req[q]
    BY <1>0
  <2>6. \A q \in Req : req'[q].op # "disable"
    BY <1>0, <2>1
  <2>7. FlagFollows'
    BY <2>4, <2>5, <2>6 DEF FlagInv, FlagFollows
  <2> QED BY <1>1, <2>7 DEF FlagInv
<1>3. CASE req[r].op = "disable"
  BY <1>0, <1>1, <1>3, Methods DEF FlagInv, FlagFollows, DisableAlone, MfaWriters
<1> QED BY <1>2, <1>3 DEF MfaWriters

LEMMA FlagStepKeeps ==
    ASSUME TypeOK, TypeOK', FlagInv, NEW r \in Req, MfaStep(r)
    PROVE  FlagInv'
<1>0. (\A q \in Req : q # r => req'[q] = req[q]) /\ mixed \subseteq mixed'
  BY OneAtATime, MfaOnly
<1>1. CASE mixed' # {}
  BY <1>1 DEF FlagInv, DisableAlone, FlagFollows
<1>2. CASE mixed' = {}
  <2>0. mixed = {}
    BY <1>0, <1>2
  <2>1. ASSUME req[r].op = "enable" PROVE \A q \in Req : req[q].op # "disable"
    BY <2>0, <2>1 DEF FlagInv, DisableAlone, MfaWriters
  <2>2. ASSUME req[r].op = "none", mixed' = mixed \cup NoteDisable(r, "enable")
        PROVE  \A q \in Req : req[q].op # "disable"
    BY <1>2, <2>2 DEF NoteDisable, Busy
  <2>3. CASE InitiateMfaTotpSetup(r)
    <3>1. req[r].op = "none" /\ req' = req
      BY <2>3, Kinds DEF InitiateMfaTotpSetup, InArea
    <3>2. "totp" \notin mfa.on
      BY <1>2, <2>3 DEF InitiateMfaTotpSetup
    <3>3. mfa'.flag = mfa.flag /\ mfa'.on = mfa.on \ {"totp"}
      BY <2>3 DEF InitiateMfaTotpSetup, TypeOK
    <3>4. mfa'.on = mfa.on
      BY <3>2, <3>3
    <3> QED BY <1>0, <3>1, <3>3, <3>4, FlagFrame DEF MfaWriters
  <2>4. CASE VerifyTotpSetupCode(r)
    <3>1. req[r].op = "none" /\ req[r].pc = "idle" /\ mfa' = mfa
      BY <2>4, Kinds DEF VerifyTotpSetupCode, InArea, user
    <3>2. req'[r].op = "enable" /\ req'[r].pc = "reread"
      BY <2>4, Effects DEF VerifyTotpSetupCode
    <3>3. \A q \in Req : req[q].op # "disable"
      BY <2>2, <2>4, <3>1 DEF VerifyTotpSetupCode
    <3> QED BY <1>0, <1>2, <2>0, <3>1, <3>2, <3>3, FlagEnables
  <2>5. CASE RereadSecret(r)
    <3>1. req[r].op = "enable" /\ req[r].pc = "reread" /\ mfa' = mfa
      BY <2>5, Kinds DEF RereadSecret, user
    <3>2. CASE mfa.secret = 0
      <4>1. req'[r].op = "none"
        BY <2>5, <3>2, Effects DEF RereadSecret
      <4>2. \A q \in Req : req[q].op # "disable" /\ req'[q].op # "disable"
        BY <1>0, <2>1, <3>1, <4>1
      <4>3. \A q \in Req : (req'[q].op = "enable" => req'[q] = req[q])
                           /\ (req[q].op = "enable" /\ req[q].pc = "methods" => req'[q] = req[q])
        BY <1>0, <3>1, <4>1
      <4> QED BY <1>2, <2>0, <3>1, <4>2, <4>3 DEF FlagInv, DisableAlone, FlagFollows
    <3>3. CASE mfa.secret # 0
      <4>1. req'[r] = [req[r] EXCEPT !.pc = "flag", !.val = mfa.secret, !.flag = TRUE]
        BY <2>5, <3>3 DEF RereadSecret, TypeOK
      <4>2. req'[r].op = "enable" /\ req'[r].pc = "flag" /\ req'[r].flag = TRUE
        BY <3>1, <4>1 DEF TypeOK, Request
      <4> QED BY <1>0, <1>2, <2>0, <2>1, <3>1, <4>2, FlagEnables
    <3> QED BY <3>2, <3>3
  <2>6. CASE SetEmailOtp(r)
    <3>1. req[r].op = "none" /\ req' = req /\ mfa'.flag = mfa.flag /\ mfa'.on = mfa.on
      BY <2>6, Kinds DEF SetEmailOtp, InArea, TypeOK
    <3> QED BY <1>0, <3>1, FlagFrame DEF MfaWriters
  <2>7. CASE MatchEmailOtp(r)
    <3>1. req[r].op = "none" /\ req[r].pc = "idle" /\ mfa' = mfa
      BY <2>7, Kinds DEF MatchEmailOtp, InArea, user
    <3>2. CASE "email" \in mfa.on
      <4>1. req'[r].op = "code"
        BY <2>7, <3>2, Effects DEF MatchEmailOtp
      <4> QED BY <1>0, <3>1, <4>1, FlagFrame DEF MfaWriters
    <3>3. CASE "email" \notin mfa.on
      <4>1. req'[r].op = "enable" /\ req'[r].pc = "clear"
        BY <2>7, <3>3, Effects DEF MatchEmailOtp
      <4>2. \A q \in Req : req[q].op # "disable"
        BY <2>2, <2>7, <3>1, <3>3 DEF MatchEmailOtp
      <4> QED BY <1>0, <1>2, <2>0, <3>1, <4>1, <4>2, FlagEnables
    <3> QED BY <3>2, <3>3
  <2>8. CASE ClearEmailOtp(r)
    <3>1. /\ req[r].op \in {"enable", "code"} /\ req[r].pc = "clear"
          /\ mfa'.flag = mfa.flag /\ mfa'.on = mfa.on
      BY <2>8, Kinds DEF ClearEmailOtp, TypeOK
    <3>2. CASE req[r].op = "code"
      <4>1. req'[r].op = "none"
        BY <2>8, <3>2, Effects DEF ClearEmailOtp
      <4> QED BY <1>0, <3>1, <3>2, <4>1, FlagFrame DEF MfaWriters
    <3>3. CASE req[r].op = "enable"
      <4>1. req'[r] = [req[r] EXCEPT !.pc = "flag", !.flag = TRUE]
        BY <2>8, <3>3 DEF ClearEmailOtp, TypeOK
      <4>2. req'[r].op = "enable" /\ req'[r].pc = "flag" /\ req'[r].flag = TRUE
        BY <3>3, <4>1 DEF TypeOK, Request
      <4> QED BY <1>0, <1>2, <2>0, <2>1, <3>1, <3>3, <4>2, FlagEnables
    <3> QED BY <3>1, <3>2, <3>3
  <2>9. ASSUME NEW drop \in {{"totp"}, {"email"}, Method}, ReadOtherMethods(r, drop) PROVE FlagInv'
    <3>1. req[r].op = "none" /\ mfa' = mfa
      BY <2>9, Kinds DEF ReadOtherMethods, InArea, user
    <3>2. \A q \in Req : req[q].op \notin MfaWriters
      BY <1>2, <2>9, <3>1 DEF ReadOtherMethods, NoteDisable, Busy, MfaWriters
    <3>3. mfa.flag <=> mfa.on # {}
      BY <2>0, <3>2 DEF FlagInv, FlagFollows, MfaWriters
    <3>4. req'[r] = [Idle EXCEPT !.op = "disable", !.pc = "flag", !.drop = drop,
                                  !.flag = (EnabledMethods \ drop) # {}]
      BY <2>9 DEF ReadOtherMethods, TypeOK
    <3>5. /\ req'[r].op = "disable" /\ req'[r].pc = "flag" /\ req'[r].drop = drop
          /\ req'[r].flag = ((EnabledMethods \ drop) # {})
      BY <3>4 DEF Idle
    <3>6. EnabledMethods = mfa.on
      BY <3>3 DEF EnabledMethods
    <3>7. \A q \in Req : q # r => req'[q].op \notin MfaWriters
      BY <1>0, <3>2
    <3>8. DisableAlone'
      BY <3>7 DEF DisableAlone, MfaWriters
    <3>9. FlagFollows'
      BY <3>1, <3>3, <3>5, <3>6, <3>7 DEF FlagFollows, MfaWriters
    <3> QED BY <3>8, <3>9 DEF FlagInv
  <2>10. CASE WriteFlag(r)
    <3>1. req[r].op \in MfaWriters /\ req[r].pc = "flag"
      BY <2>10, Kinds DEF WriteFlag, MfaWriters
    <3> DEFINE m == [mfa EXCEPT !.flag = req[r].flag]
    <3>2. m \in MfaRec(made) /\ m.on = mfa.on /\ m.flag = req[r].flag
      BY DEF TypeOK, MfaRec, Request
    <3>3. CASE Relational
      <4>1. mfa' = m /\ Go(r, "methods")
        BY <2>10, <3>3 DEF WriteFlag
      <4>2. req'[r].op = req[r].op /\ req'[r].pc = "methods" /\ req'[r] = [req[r] EXCEPT !.pc = "methods"]
        BY <4>1, Effects
      <4>3. req'[r].flag = req[r].flag /\ req'[r].drop = req[r].drop
        BY <4>2 DEF TypeOK, Request
      <4>4. mfa'.on = mfa.on /\ mfa'.flag = req[r].flag
        BY <3>2, <4>1
      <4> HIDE DEF m
      <4>5. DisableAlone'
        BY <1>0, <2>0, <4>2 DEF FlagInv, DisableAlone
      <4>6. CASE req[r].op = "enable"
        <5>1. \A q \in Req : req'[q].op # "disable"
          BY <1>0, <2>1, <4>2, <4>6
        <5>2. mfa'.flag
          BY <2>0, <3>1, <4>4, <4>6 DEF FlagInv, FlagFollows
        <5>3. \A q \in Req : req'[q].op = "enable" => (req'[q].pc = "flag" => req'[q].flag)
          BY <1>0, <2>0, <4>2 DEF FlagInv, FlagFollows
        <5>4. FlagFollows'
          BY <4>2, <4>6, <5>1, <5>2, <5>3 DEF FlagFollows
        <5> QED BY <4>5, <5>4 DEF FlagInv
      <4>7. CASE req[r].op = "disable"
        <5>1. \A q \in Req : q # r => req'[q].op \notin MfaWriters
          BY <1>0, <2>0, <4>7 DEF FlagInv, DisableAlone
        <5>2. req[r].flag <=> mfa.on \ req[r].drop # {}
          BY <2>0, <4>7 DEF FlagInv, FlagFollows
        <5>3. FlagFollows'
          BY <4>2, <4>3, <4>4, <4>7, <5>1, <5>2 DEF FlagFollows, MfaWriters
        <5> QED BY <4>5, <5>3 DEF FlagInv
      <4> QED BY <3>1, <4>6, <4>7 DEF MfaWriters
    <3>4. CASE ~Relational
      <4>1. mfa' = WithMethods(m, r) /\ End(r)
        BY <2>10, <3>4 DEF WriteFlag
      <4> HIDE DEF m
      <4> QED BY <1>2, <2>0, <3>1, <3>2, <4>1, WriteEnds
    <3> QED BY <3>3, <3>4
  <2>11. CASE WriteMethods(r)
    <3>1. req[r].op \in MfaWriters /\ req[r].pc = "methods"
      BY <2>11, Kinds DEF WriteMethods, MfaWriters
    <3>2. mfa \in MfaRec(made)
      BY DEF TypeOK, MfaRec
    <3>3. mfa' = WithMethods(mfa, r) /\ End(r)
      BY <2>11 DEF WriteMethods
    <3> QED BY <1>2, <2>0, <3>1, <3>2, <3>3, WriteEnds
  <2> QED BY <2>3, <2>4, <2>5, <2>6, <2>7, <2>8, <2>9, <2>10, <2>11 DEF MfaStep
<1> QED BY <1>1, <1>2

\* updateMfa and disableMfa: a login asks for a second factor just when one is
\* enabled, however enabling requests interleave, in either store.
THEOREM FlagFollowsMethods == Spec => []FlagAgrees
<1>1. Init => FlagInv
  BY DEF Init, FlagInv, DisableAlone, FlagFollows, Idle
<1>2. TypeOK /\ TypeOK' /\ FlagInv /\ [Next]_vars => FlagInv'
  <2> SUFFICES ASSUME TypeOK, TypeOK', FlagInv, [Next]_vars PROVE FlagInv' OBVIOUS
  <2>1. CASE UNCHANGED <<mfa, mixed, req>>
    BY <2>1 DEF FlagInv, DisableAlone, FlagFollows
  <2>2. CASE Tick \/ UNCHANGED vars
    BY <2>1, <2>2 DEF Tick, vars, user, history
  <2>3. ASSUME NEW r \in Req, PasswordStep(r) PROVE FlagInv'
    <3>1. req[r].op \notin MfaWriters /\ req'[r].op \notin MfaWriters
      BY <2>3, PasswordOnly DEF MfaWriters
    <3>2. UNCHANGED <<mfa, mixed>>
      BY <2>3, PasswordOnly
    <3> QED BY <2>3, <3>1, <3>2, OneAtATime, FlagFrame
  <2>4. ASSUME NEW r \in Req, PhoneStep(r) PROVE FlagInv'
    <3>1. req[r].op \notin MfaWriters /\ req'[r].op \notin MfaWriters
      BY <2>4, PhoneOnly DEF MfaWriters
    <3>2. UNCHANGED mfa /\ mixed \subseteq mixed'
      BY <2>4, PhoneOnly
    <3> QED BY <2>4, <3>1, <3>2, OneAtATime, FlagFrame
  <2> QED BY <2>2, <2>3, <2>4, FlagStepKeeps DEF Next
<1>3. TypeOK /\ FlagInv => FlagAgrees
  BY DEF FlagInv, FlagFollows, FlagAgrees, MfaWriters
<1> QED BY <1>1, <1>2, <1>3, CredentialTypes, PTL DEF Spec

SecretInv == SecretsEntered /\ SecretProved

\* A step of which the request enables nothing afterwards, and that keeps the secret.
LEMMA SecretFrame ==
    ASSUME TypeOK, TypeOK', SecretInv, NEW r \in Req,
           mfa'.secret = mfa.secret, "totp" \in mfa'.on => "totp" \in mfa.on,
           proved \subseteq proved', mixed \subseteq mixed',
           \A q \in Req : q # r => req'[q] = req[q],
           req'[r].op = "enable" => /\ req'[r].pc = "reread" => mfa.secret \in proved'
                                    /\ req'[r].val # 0 => req'[r].val \in proved'
    PROVE  SecretInv'
<1>1. req'[r].pc = "reread" => req'[r].op = "enable"
  BY DEF TypeOK, Steps
<1>2. SecretsEntered'
  BY <1>1 DEF SecretInv, SecretsEntered
<1>3. SecretProved'
  BY DEF SecretInv, SecretProved
<1> QED BY <1>2, <1>3 DEF SecretInv

\* The write of the methods: the secret of the request, or the one that was there.
LEMMA SecretWritten ==
    ASSUME TypeOK, TypeOK', SecretInv, "enrol" \notin mixed, UNCHANGED proved, NEW r \in Req, End(r),
           NEW m, m \in MfaRec(made), m.on = mfa.on, m.secret = mfa.secret, mfa' = WithMethods(m, r),
           req[r].op \in MfaWriters
    PROVE  SecretInv'
<1>1. /\ \A q \in Req : q # r => req'[q] = req[q]
      /\ req'[r].op = "none" /\ req'[r].pc = "idle"
  <2>1. req' = [req EXCEPT ![r] = Idle]
    BY DEF End
  <2> QED BY <2>1, Effects DEF TypeOK
<1>2. \/ mfa'.secret = mfa.secret
      \/ mfa'.secret = req[r].val /\ req[r].val # 0 /\ req[r].op = "enable"
      \/ mfa'.secret = 0
  BY DEF WithMethods, MfaRec
<1>3. mfa'.secret \in proved' \/ mfa'.secret \in {0, mfa.secret}
  BY <1>2 DEF SecretInv, SecretsEntered
<1>4. SecretsEntered'
  BY <1>1, <1>3 DEF SecretInv, SecretsEntered
<1>5. CASE req[r].op = "enable"
  <2>1. CASE req[r].val # 0
    <3>1. mfa'.secret = req[r].val
      BY <1>5, <2>1 DEF WithMethods, MfaRec
    <3> QED BY <1>4, <1>5, <2>1, <3>1 DEF SecretInv, SecretsEntered, SecretProved
  <2>2. CASE req[r].val = 0
    <3>1. mfa'.secret = mfa.secret /\ mfa'.on = mfa.on \cup {"email"}
      BY <1>5, <2>2 DEF WithMethods, MfaRec, Enabled
    <3> QED BY <1>4, <3>1 DEF SecretInv, SecretProved
  <2> QED BY <2>1, <2>2
<1>6. CASE req[r].op = "disable"
  <2>1. mfa'.on = mfa.on \ req[r].drop
    BY <1>6, Methods
  <2>2. "totp" \in mfa'.on => mfa'.secret = mfa.secret
    BY <1>6, <2>1 DEF WithMethods, MfaRec
  <2> QED BY <1>4, <2>1, <2>2 DEF SecretInv, SecretProved
<1> QED BY <1>5, <1>6 DEF MfaWriters

LEMMA SecretStepKeeps ==
    ASSUME TypeOK, TypeOK', SecretInv, NEW r \in Req, MfaStep(r)
    PROVE  SecretInv'
<1>0. (\A q \in Req : q # r => req'[q] = req[q]) /\ mixed \subseteq mixed'
  BY OneAtATime, MfaOnly
<1>1. CASE "enrol" \in mixed'
  BY <1>1 DEF SecretInv, SecretsEntered, SecretProved
<1>2. CASE "enrol" \notin mixed'
  <2>0. "enrol" \notin mixed
    BY <1>0, <1>2
  <2>1. ASSUME req[r].op = "enable", req[r].val # 0 PROVE req[r].val \in proved
    BY <2>0, <2>1 DEF SecretInv, SecretsEntered
  <2>3. CASE InitiateMfaTotpSetup(r)
    <3>1. req[r].op = "none" /\ req' = req
      BY <2>3, Kinds DEF InitiateMfaTotpSetup, InArea
    <3>2. "totp" \notin mfa'.on
      BY <2>3 DEF InitiateMfaTotpSetup, TypeOK
    <3>3. \A q \in Req : req[q].op \notin MfaWriters
      BY <1>2, <2>3, <3>1 DEF InitiateMfaTotpSetup, Busy, MfaWriters
    <3>4. \A q \in Req : req[q].op # "enable" /\ req[q].pc # "reread"
      BY <3>3, Kinds DEF MfaWriters
    <3> QED BY <3>1, <3>2, <3>4 DEF SecretInv, SecretsEntered, SecretProved
  <2>4. CASE VerifyTotpSetupCode(r)
    <3>1. mfa' = mfa /\ proved' = proved \cup {mfa.secret}
      BY <2>4 DEF VerifyTotpSetupCode, user
    <3>2. req'[r].op = "enable" /\ req'[r].val = mfa.secret
      BY <2>4, Effects DEF VerifyTotpSetupCode
    <3> QED BY <1>0, <3>1, <3>2, SecretFrame
  <2>5. CASE RereadSecret(r)
    <3>1. /\ req[r].op = "enable" /\ req[r].pc = "reread" /\ mfa' = mfa /\ proved' = proved
          /\ mfa.secret \in proved \cup {0}
      BY <2>0, <2>5, Kinds DEF RereadSecret, user, history, SecretInv, SecretsEntered
    <3>2. CASE mfa.secret = 0
      <4>1. req'[r].op = "none"
        BY <2>5, <3>2, Effects DEF RereadSecret
      <4> QED BY <1>0, <3>1, <4>1, SecretFrame
    <3>3. CASE mfa.secret # 0
      <4>1. req'[r] = [req[r] EXCEPT !.pc = "flag", !.val = mfa.secret, !.flag = TRUE]
        BY <2>5, <3>3 DEF RereadSecret, TypeOK
      <4>2. req'[r].pc = "flag" /\ req'[r].val = mfa.secret
        BY <4>1 DEF TypeOK, Request
      <4> QED BY <1>0, <3>1, <3>3, <4>2, SecretFrame
    <3> QED BY <3>2, <3>3
  <2>6. CASE SetEmailOtp(r)
    <3>1. /\ req[r].op = "none" /\ req' = req /\ mfa'.secret = mfa.secret /\ mfa'.on = mfa.on
          /\ proved' = proved
      BY <2>6, Kinds DEF SetEmailOtp, InArea, TypeOK, history
    <3> QED BY <1>0, <3>1, SecretFrame
  <2>7. CASE MatchEmailOtp(r)
    <3>1. mfa' = mfa /\ proved' = proved
      BY <2>7 DEF MatchEmailOtp, user
    <3>2. req'[r].pc = "clear" /\ req'[r].val = 0
      BY <2>7, Effects DEF MatchEmailOtp
    <3> QED BY <1>0, <3>1, <3>2, SecretFrame
  <2>8. CASE ClearEmailOtp(r)
    <3>1. /\ mfa'.secret = mfa.secret /\ mfa'.on = mfa.on /\ proved' = proved
          /\ req[r].op \in {"enable", "code"}
      BY <2>8, Kinds DEF ClearEmailOtp, TypeOK, history
    <3>2. CASE req[r].op = "code"
      <4>1. req'[r].op = "none"
        BY <2>8, <3>2, Effects DEF ClearEmailOtp
      <4> QED BY <1>0, <3>1, <4>1, SecretFrame
    <3>3. CASE req[r].op = "enable"
      <4>1. req'[r] = [req[r] EXCEPT !.pc = "flag", !.flag = TRUE]
        BY <2>8, <3>3 DEF ClearEmailOtp, TypeOK
      <4>2. req'[r].pc = "flag" /\ req'[r].val = req[r].val
        BY <4>1 DEF TypeOK, Request
      <4> QED BY <1>0, <2>1, <3>1, <3>3, <4>2, SecretFrame
    <3> QED BY <3>1, <3>2, <3>3
  <2>9. ASSUME NEW drop, ReadOtherMethods(r, drop) PROVE SecretInv'
    <3>1. mfa' = mfa /\ proved' = proved
      BY <2>9 DEF ReadOtherMethods, user
    <3>2. req'[r].op = "disable"
      BY <2>9 DEF ReadOtherMethods, TypeOK, Idle
    <3> QED BY <1>0, <3>1, <3>2, SecretFrame
  <2>10. CASE WriteFlag(r)
    <3>1. req[r].op \in MfaWriters /\ proved' = proved
      BY <2>10, Kinds DEF WriteFlag, MfaWriters, history
    <3> DEFINE m == [mfa EXCEPT !.flag = req[r].flag]
    <3>2. m \in MfaRec(made) /\ m.on = mfa.on /\ m.secret = mfa.secret
      BY DEF TypeOK, MfaRec, Request
    <3>3. CASE Relational
      <4>1. mfa' = m /\ Go(r, "methods")
        BY <2>10, <3>3 DEF WriteFlag
      <4>2. req'[r].op = req[r].op /\ req'[r].pc = "methods" /\ req'[r] = [req[r] EXCEPT !.pc = "methods"]
        BY <4>1, Effects
      <4>3. req'[r].val = req[r].val
        BY <4>2 DEF TypeOK, Request
      <4>4. mfa'.on = mfa.on /\ mfa'.secret = mfa.secret
        BY <3>2, <4>1
      <4> HIDE DEF m
      <4> QED BY <1>0, <2>1, <3>1, <4>2, <4>3, <4>4, SecretFrame
    <3>4. CASE ~Relational
      <4>1. mfa' = WithMethods(m, r) /\ End(r)
        BY <2>10, <3>4 DEF WriteFlag
      <4> HIDE DEF m
      <4> QED BY <2>0, <3>1, <3>2, <4>1, SecretWritten
    <3> QED BY <3>3, <3>4
  <2>11. CASE WriteMethods(r)
    <3>1. req[r].op \in MfaWriters /\ proved' = proved
      BY <2>11, Kinds DEF WriteMethods, MfaWriters, history
    <3>2. mfa \in MfaRec(made)
      BY DEF TypeOK, MfaRec
    <3>3. mfa' = WithMethods(mfa, r) /\ End(r)
      BY <2>11 DEF WriteMethods
    <3> QED BY <2>0, <3>1, <3>2, <3>3, SecretWritten
  <2> QED BY <2>3, <2>4, <2>5, <2>6, <2>7, <2>8, <2>9, <2>10, <2>11 DEF MfaStep
<1> QED BY <1>1, <1>2

\* verifyTotpSetupCode and the page that enables TOTP: what is enabled is a secret
\* of which a code was entered, though the page reads the secret again.
THEOREM EnabledSecretProved == Spec => []SecretProved
<1>1. Init => SecretInv
  BY DEF Init, SecretInv, SecretsEntered, SecretProved, Idle
<1>2. TypeOK /\ TypeOK' /\ SecretInv /\ [Next]_vars => SecretInv'
  <2> SUFFICES ASSUME TypeOK, TypeOK', SecretInv, [Next]_vars PROVE SecretInv' OBVIOUS
  <2>1. CASE UNCHANGED <<mfa, mixed, proved, req>>
    BY <2>1 DEF SecretInv, SecretsEntered, SecretProved
  <2>2. CASE Tick \/ UNCHANGED vars
    BY <2>1, <2>2 DEF Tick, vars, user, history
  <2>3. ASSUME NEW r \in Req, PasswordStep(r) PROVE SecretInv'
    <3>1. req'[r].op # "enable"
      BY <2>3, PasswordOnly
    <3>2. UNCHANGED <<mfa, mixed, proved>>
      BY <2>3, PasswordOnly
    <3> QED BY <2>3, <3>1, <3>2, OneAtATime, SecretFrame
  <2>4. ASSUME NEW r \in Req, PhoneStep(r) PROVE SecretInv'
    <3>1. req'[r].op # "enable"
      BY <2>4, PhoneOnly
    <3>2. UNCHANGED <<mfa, proved>> /\ mixed \subseteq mixed'
      BY <2>4, PhoneOnly
    <3> QED BY <2>4, <3>1, <3>2, OneAtATime, SecretFrame
  <2> QED BY <2>2, <2>3, <2>4, SecretStepKeeps DEF Next
<1> QED BY <1>1, <1>2, CredentialTypes, PTL DEF Spec, SecretInv

=============================================================================
