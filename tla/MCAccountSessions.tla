------------------------ MODULE MCAccountSessions ------------------------
(* Instances of AccountSessions for TLC.                                   *)
EXTENDS AccountSessions, TLC

CONSTANTS u1, u2, t1, t2, b1

\* Two tabs of one browser.
OneBrowser == t1 :> b1 @@ t2 :> b1

\* u2 has a second factor, u1 has none.
Deployed == {{"password"}, {"password", "continue"}, {"password", "another"},
             {"pending", "code", "another"}, {"pending", "webauthn", "password"},
             {"recovered", "social"}, {"socialTo"}, {"recovered", "oidc"},
             {"oidcSocial"}, {"newDevice", "device"}}

\* Nothing is checked beyond the first write of an outdated copy; a third session
\* exists only where the limit on sessions is enforced twice at a time.
Within ==
    late = {} /\ (offer = {"password"} \/ (sids <= 2 /\ now <= 2))

Tabs == Permutations({t1, t2})
=============================================================================
