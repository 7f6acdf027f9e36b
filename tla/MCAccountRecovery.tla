------------------------- MODULE MCAccountRecovery -------------------------
(***************************************************************************)
(* Instances of AccountRecovery for TLC.                                   *)
(***************************************************************************)
EXTENDS AccountRecovery, TLC

\* SMS and e-mail codes come in at the same handler and share the lockout with
\* the backup codes; the answers have a lockout of their own.
Deployed == {{"backup_codes"}, {"security_questions"}, {"secondary_email", "sms"}}

\* Bounds: a change by a route that does not ask is history only and is not
\* followed.  After a write over an unread change only the cooldown has something
\* left to promise: until a copy from before the recovery is written, and as long as
\* the cooldown lasts; one deployment and right codes are enough for it.
Followed ==
    /\ early \subseteq Asking /\ ~undated
    /\ stale => on = {"backup_codes"} /\ InsideCooldown /\ wrong["code"] = << >>

Browsers == Permutations(Browser)

BackupCodesOnly == {{"backup_codes"}}
=============================================================================
