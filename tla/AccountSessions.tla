-------------------------- MODULE AccountSessions --------------------------
(***************************************************************************)
(* Browser sessions that hold several accounts: SessionUtils, the session  *)
(* store behind express-session, the handlers that sign a user in, switch, *)
(* add and remove accounts and log out, and an administrator who revokes   *)
(* the sessions of a user.                                                 *)
(*                                                                         *)
(* express-session hands a request a COPY of the stored session and writes *)
(* the whole copy back when the response ends; in between the handler      *)
(* waits for hashes, queries and deletions.  Each tab has one request in   *)
(* flight, and the tabs of one browser share a cookie.  A session that is  *)
(* not stored yet has the identifier 0.                                    *)
(***************************************************************************)
EXTENDS Naturals, FiniteSets, Sequences, SequencesExt

CONSTANTS
    User,
    NoUser,
    MfaUser,      \* users with a second factor
    Tab,
    Browser,
    BrowserOf,    \* the browser a tab belongs to
    MaxSessions,  \* max_concurrent_sessions
    MaxAccounts,  \* max_accounts_per_session
    MultiAccount, \* multiple_accounts.enabled
    Offers,       \* sets of ways to sign in a deployment may offer
    MaxSid,       \* bound: session identifiers given out
    MaxTime       \* bound: sign-ins

WayName == {"pending", "password", "continue", "another", "code", "webauthn", "social",
            "socialTo", "recovered", "oidc", "oidcSocial", "newDevice", "device"}

ASSUME SessionAssumption ==
    /\ NoUser \notin User /\ MfaUser \subseteq User
    /\ IsFiniteSet(Tab) /\ BrowserOf \in [Tab -> Browser]
    /\ MaxSessions \in Nat \ {0} /\ MaxAccounts \in Nat \ {0} /\ MultiAccount \in BOOLEAN
    /\ Offers \subseteq SUBSET WayName
    /\ MaxSid \in Nat /\ MaxTime \in Nat

VARIABLES
    offer,    \* the ways to sign in, for good
    store,    \* store[s]: the stored session s
    cookie,   \* cookie[b]: the identifier browser b sends
    req,      \* req[t]: the request of tab t
    adm,      \* the administrator's bulk revocation
    sids,     \* identifiers given out
    now,      \* time of the last sign-in
    \* History, read by the properties only.
    ended,    \* sessions that were destroyed
    late,     \* sessions written from a copy that was out of date
    gone,     \* <<s, u>>: u was taken out of session s
    out,      \* users whose sessions were revoked and who did not come back
    free,     \* <<s, u>>: u became the active account of s without a limit check
    admitted  \* <<b, u>>: u entered a code, recovered or took an OIDC flow in browser b

history == <<ended, late, gone, out, free, admitted>>
vars == <<offer, store, cookie, req, adm, sids, now, history>>

Sid == 1..MaxSid

\* others: the last one was used last.  mfa is pendingMfaUser, dev
\* pendingNewDeviceVerification, intent addAccountIntent, auth isAuthenticated,
\* acct accountId, time authTime.
Empty == [auth |-> FALSE, active |-> NoUser, others |-> <<>>, acct |-> NoUser, time |-> 0,
          intent |-> FALSE, mfa |-> NoUser, dev |-> NoUser]
None == [stored |-> FALSE, data |-> Empty]
Stored(d) == [stored |-> TRUE, data |-> d]

Accounts(d) == ({d.active} \cup ToSet(d.others)) \ {NoUser}

\* findIndex and splice; no account is listed twice.
Others(d, u) ==
    IF u \in ToSet(d.others)
    THEN RemoveAt(d.others, CHOOSE i \in DOMAIN d.others : d.others[i] = u)
    ELSE d.others

Idle == [op |-> "none", at |-> "idle", sid |-> 0, data |-> Empty, user |-> NoUser,
         todo |-> {}, limited |-> TRUE, fresh |-> TRUE]
NoRevocation == [user |-> NoUser, todo |-> {}]

Init ==
    /\ offer \in Offers
    /\ store = [s \in Sid |-> None]
    /\ cookie = [b \in Browser |-> 0]
    /\ req = [t \in Tab |-> Idle]
    /\ adm = NoRevocation
    /\ sids = 0 /\ now = 0
    /\ ended = {} /\ late = {} /\ gone = {} /\ out = {} /\ free = {} /\ admitted = {}

-----------------------------------------------------------------------------
(* SessionUtils: changes of the copy d of a session.                       *)

\* setAuthenticated: the account that was active joins the others, beyond
\* max_accounts_per_session if need be.
SetAuthenticated(d, u) ==
    LET kept == Others(d, u)
        rest == IF d.active \in {NoUser, u} THEN kept ELSE Append(kept, d.active)
    IN  [d EXCEPT !.auth = TRUE, !.active = u, !.acct = u, !.time = now + 1,
                  !.others = IF MultiAccount THEN rest ELSE <<>>]

CanAdd(d, u) ==
    \/ d.active = NoUser
    \/ MultiAccount /\ u \notin Accounts(d) /\ 1 + Len(d.others) < MaxAccounts

\* addAuthenticatedUser with setAsActive: isAuthenticated is left alone.
AddAuthenticatedUser(d, u) ==
    IF ~CanAdd(d, u) THEN d
    ELSE [d EXCEPT !.active = u, !.acct = u,
                   !.others = IF d.active = NoUser THEN <<>> ELSE Append(@, d.active)]

\* Mutant: the account stays among the others.
SwitchKeeps(d, u) == [d EXCEPT !.active = u, !.acct = u, !.others = Append(@, d.active)]

\* switchUser; the configuration asks for no new authentication.
SwitchUser(d, u) ==
    [d EXCEPT !.active = u, !.acct = u, !.others = Append(Others(d, u), d.active)]

\* removeAuthenticatedUser: the account used last takes over.
RemoveAuthenticatedUser(d, u) ==
    IF u # d.active THEN [d EXCEPT !.others = Others(d, u)]
    ELSE [d EXCEPT !.active = Last(d.others), !.acct = Last(d.others), !.others = Front(d.others)]

\* isAuthenticated; that the user is still enabled is left out.
IsAuthenticated(d) == d.auth /\ d.active # NoUser

\* addOrUpdateAccountInSession of the OIDC flows, setAuthenticated as the
\* fallback for an account that cannot be added.
AddOrUpdateAccount(d, u) ==
    IF d.active = NoUser \/ (u \notin Accounts(d) /\ ~CanAdd(d, u)) THEN SetAuthenticated(d, u)
    ELSE IF u \notin Accounts(d) THEN AddAuthenticatedUser(d, u)
    ELSE IF u # d.active THEN SwitchUser(d, u) ELSE d

\* The sessions of u, as the stores find them: by accountId.
SessionsOf(u) == {s \in Sid : store[s].stored /\ store[s].data.acct = u}

\* By authTime; equal times in the order in which the store lists them.
Older(r, s) ==
    \/ store[r].data.time < store[s].data.time
    \/ store[r].data.time = store[s].data.time /\ r < s

\* Mutant: room is made for none.
ExcessOfOthers(u, sid) ==
    LET other == SessionsOf(u) \ {sid}
    IN  {s \in other : Cardinality({r \in other : Older(s, r)}) >= MaxSessions}

\* enforceSessionLimit: of the other sessions the newest MaxSessions - 1 stay.
Excess(u, sid) ==
    LET other == SessionsOf(u) \ {sid}
    IN  {s \in other : Cardinality({r \in other : Older(s, r)}) >= MaxSessions - 1}

-----------------------------------------------------------------------------
(* The ways to sign in.  regen: the identifier is replaced first; put: how *)
(* the account gets into the session; limit: when enforceSessionLimit runs *)
(* relative to put; user: who may use it.                                  *)

Way(regen, put, limit) == [regen |-> regen, put |-> put, limit |-> limit]

Ways ==
    [pending   |-> Way(FALSE, "mfa", "never"),
     password  |-> Way(TRUE, "set", "after"),
     continue  |-> Way(FALSE, "addset", "before"),
     another   |-> Way(FALSE, "add", "never"),
     code      |-> Way(TRUE, "set", "never"),
     webauthn  |-> Way(TRUE, "add", "never"),
     social    |-> Way(TRUE, "set", "never"),
     socialTo  |-> Way(TRUE, "add", "never"),
     recovered |-> Way(FALSE, "set", "never"),
     oidc      |-> Way(TRUE, "update", "after"),
     oidcSocial |-> Way(TRUE, "set", "after"),
     newDevice |-> Way(FALSE, "device", "never"),
     device    |-> Way(TRUE, "update", "after")]

\* What only remembers who is to enter a code.
Pending == {w \in WayName : Ways[w].put \in {"mfa", "device"}}

\* The OIDC flows put the account in before the second factor is looked at; the
\* password flow then asks for it if the client wants acr urn:mfa:otp.
OidcWays == {"oidc", "oidcSocial", "newDevice"}

\* Mutant: the account is added before its second factor is asked for.
OpenToAll(w, d, u) == CASE w = "another" -> d.intent
                       [] w \in {"code", "webauthn"} -> d.mfa = u
                       [] w = "pending" -> u \in MfaUser
                       [] w = "device" -> d.dev = u
                       [] w \in OidcWays \cup {"recovered"} -> TRUE
                       [] OTHER -> u \notin MfaUser /\ ~d.intent

\* The branch a sign-in of u takes: the second factor comes before an account
\* that is being added, and that before the plain sign-in.  The OIDC flows are open
\* to everyone; from a device that is not known only with a code.
OpenTo(w, d, u) == CASE w \in {"code", "webauthn"} -> d.mfa = u
                     [] w = "pending" -> u \in MfaUser
                     [] w = "device" -> d.dev = u
                     [] w \in OidcWays \cup {"recovered"} -> TRUE
                     [] w = "another" -> u \notin MfaUser /\ d.intent
                     [] OTHER -> u \notin MfaUser /\ ~d.intent

\* What the sign-in leaves in the copy d.
PutAccount(w, d, u) ==
    CASE w = "pending" -> [d EXCEPT !.mfa = u]
      [] w = "newDevice" -> [d EXCEPT !.dev = u]
      [] w = "device" -> [AddOrUpdateAccount(d, u) EXCEPT !.dev = NoUser]
      [] w = "another" -> [AddAuthenticatedUser(d, u) EXCEPT !.intent = FALSE]
      [] w = "code" -> [SetAuthenticated(d, u) EXCEPT !.mfa = NoUser, !.intent = FALSE]
      [] w = "webauthn" -> [AddAuthenticatedUser(d, u) EXCEPT !.mfa = NoUser]
      [] w = "socialTo" -> AddAuthenticatedUser(d, u)
      [] w = "oidc" -> AddOrUpdateAccount(d, u)
      [] w = "continue" ->
           IF CanAdd(d, u) \/ u \in Accounts(d) \/ ~MultiAccount
             THEN SetAuthenticated(AddAuthenticatedUser(d, u), u) ELSE d
      [] w \in {"password", "social", "recovered", "oidcSocial"} -> SetAuthenticated(d, u)

-----------------------------------------------------------------------------
(* express-session and the store.                                          *)

Session(t) == LET s == cookie[BrowserOf[t]]
              IN  IF s # 0 /\ store[s].stored THEN s ELSE 0
Copy(t) == IF Session(t) = 0 THEN Empty ELSE store[Session(t)].data

\* A request arrives and gets its copy of the session.  What it is about shows in
\* its next step: until then it reads (credentials, codes, the user's row).
Receive(t) ==
    /\ req[t].at = "idle"
    /\ req' = [req EXCEPT ![t] = [Idle EXCEPT !.at = "open", !.sid = Session(t), !.data = Copy(t)]]
    /\ UNCHANGED <<offer, store, cookie, adm, sids, now, history>>

\* The requests that hold one of the sessions S are out of date, except those of T.
Outdated(T, S) ==
    [x \in Tab |-> IF x \notin T /\ req[x].at # "idle" /\ req[x].sid \in S
                     THEN [req[x] EXCEPT !.fresh = FALSE] ELSE req[x]]

\* destroy: the sessions S leave the store; what is known of them is that.
Destroy(S) ==
    /\ store' = [s \in Sid |-> IF s \in S THEN None ELSE store[s]]
    /\ ended' = ended \cup S
    /\ gone' = {p \in gone : p[1] \notin S}
    /\ free' = {p \in free : p[1] \notin S}

SavedSid(t) == IF req[t].sid = 0 THEN sids + 1 ELSE req[t].sid

\* The response ends: the whole copy d is written, also over a session that was
\* deleted meanwhile, and the browser gets its identifier.
SaveSession(t, d) ==
    LET s == SavedSid(t)
    IN  /\ s <= MaxSid
        /\ sids' = IF req[t].sid = 0 THEN s ELSE sids
        /\ store' = [store EXCEPT ![s] = Stored(d)]
        /\ cookie' = [cookie EXCEPT ![BrowserOf[t]] = s]
        /\ req' = [Outdated({t}, {s}) EXCEPT ![t] = Idle]
        /\ late' = IF req[t].fresh THEN late ELSE late \cup {s}

-----------------------------------------------------------------------------
(* Signing in.                                                             *)

\* The clock advances with every sign-in that may set authTime.
Stamp(w) ==
    IF w \in Pending \/ Ways[w].put = "add" THEN now' = now ELSE now < MaxTime /\ now' = now + 1

\* The credentials of u were right and the handler takes way w.
Verified(t, w, u) == req[t].at = "open" /\ w \in offer /\ OpenTo(w, req[t].data, u)

\* What lets an account with a second factor in: a code (that for a new device is a
\* TOTP code or was sent by e-mail), a recovery, or an OIDC flow.
Admit(t, w, u) ==
    admitted' = IF w \in {"code", "webauthn", "recovered", "device", "oidc", "oidcSocial"} /\ u \in MfaUser
                  THEN admitted \cup {<<BrowserOf[t], u>>} ELSE admitted

\* The request goes on with session s and copy d.
GoOn(R, t, w, u, s, d) ==
    req' = [R EXCEPT ![t] = [@ EXCEPT !.op = w, !.user = u, !.sid = s, !.data = d,
                                      !.at = IF Ways[w].limit = "after" THEN "limit" ELSE "save"]]

\* Mutant: the session of the old identifier is left behind.
RegenerateCopies(t, w, u) ==
    /\ Verified(t, w, u) /\ Ways[w].regen
    /\ sids < MaxSid /\ sids' = sids + 1
    /\ Stamp(w)
    /\ ended' = ended \cup ({req[t].sid} \ {0})
    /\ GoOn(req, t, w, u, sids + 1, PutAccount(w, req[t].data, u))
    /\ Admit(t, w, u)
    /\ UNCHANGED <<offer, store, cookie, adm, late, gone, out, free>>

\* regenerate: the old session leaves the store and its data goes on under a new
\* identifier; the account is put in before the next await.
Regenerate(t, w, u) ==
    /\ Verified(t, w, u) /\ Ways[w].regen
    /\ sids < MaxSid /\ sids' = sids + 1
    /\ Stamp(w)
    /\ LET old == {req[t].sid} \ {0}
       IN  /\ Destroy(old)
           /\ GoOn(Outdated({t}, old), t, w, u, sids + 1, PutAccount(w, req[t].data, u))
    /\ Admit(t, w, u)
    /\ UNCHANGED <<offer, cookie, adm, late, out>>

\* The store could not delete the old session: it stays, and the sign-in goes on
\* in an empty session.  (The OIDC login and its social callback give up: a request that did nothing.)
RegenerateFails(t, w, u) ==
    /\ Verified(t, w, u) /\ Ways[w].regen /\ w \notin {"oidc", "oidcSocial"}
    /\ sids < MaxSid /\ sids' = sids + 1
    /\ Stamp(w)
    /\ GoOn([req EXCEPT ![t].fresh = TRUE], t, w, u, sids + 1, PutAccount(w, Empty, u))
    /\ Admit(t, w, u)
    /\ UNCHANGED <<offer, store, cookie, adm, ended, late, gone, out, free>>

\* enforceSessionLimit, the query: after regenerate, or first thing when the
\* identifier stays.
FindExcess(t, w, u) ==
    /\ \/ req[t].at = "limit" /\ req[t].op = w /\ req[t].user = u
       \/ Verified(t, w, u) /\ Ways[w].limit = "before"
    /\ LET S == Excess(u, req[t].sid)
       IN  req' = [req EXCEPT ![t].op = w, ![t].user = u, ![t].todo = S,
                              ![t].at = IF S = {} THEN "save" ELSE "delete"]
    /\ UNCHANGED <<offer, store, cookie, adm, sids, now, history>>

\* A query or a deletion fails: it is logged, and the sign-in goes on.
LimitFails(t) ==
    /\ req[t].at \in {"limit", "delete"} /\ req[t].op \in WayName
    /\ req' = [req EXCEPT ![t].todo = {}, ![t].at = "save", ![t].limited = FALSE]
    /\ UNCHANGED <<offer, store, cookie, adm, sids, now, history>>

\* One of the sessions that were found is deleted, whatever it is by now.
DeleteSession(t) ==
    /\ req[t].at = "delete"
    /\ \E s \in req[t].todo :
         /\ Destroy({s})
         /\ req' = [Outdated({t}, {s}) EXCEPT
                      ![t].todo = @ \ {s},
                      ![t].at = IF req[t].todo = {s} THEN "save" ELSE "delete"]
    /\ UNCHANGED <<offer, cookie, adm, sids, now, late, out, admitted>>

\* The history of a sign-in that ends with copy d.
SignedIn(t, w, d) ==
    LET s == SavedSid(t)
    IN  /\ gone' = gone \ {<<s, x>> : x \in Accounts(d) \ Accounts(req[t].data)}
        /\ out' = IF w \in Pending THEN out ELSE out \ {d.acct}
        /\ free' = IF w \in Pending \/ (req[t].limited /\ Ways[w].limit # "never")
                     THEN free ELSE free \cup {<<s, d.acct>>}

\* The end of a sign-in that replaced the identifier.
FinishSignIn(t) ==
    /\ req[t].at = "save" /\ req[t].op \in WayName /\ Ways[req[t].op].regen
    /\ SaveSession(t, req[t].data)
    /\ SignedIn(t, req[t].op, req[t].data)
    /\ UNCHANGED <<offer, adm, now, ended, admitted>>

\* A sign-in that keeps it: the account is put in when the response ends.
SignInHere(t, w, u) ==
    /\ ~Ways[w].regen
    /\ \/ req[t].at = "save" /\ req[t].op = w /\ req[t].user = u
       \/ Verified(t, w, u) /\ Ways[w].limit = "never"
    /\ Stamp(w)
    /\ LET d == PutAccount(w, req[t].data, u)
       IN  SaveSession(t, d) /\ SignedIn(t, w, d)
    /\ Admit(t, w, u)
    /\ UNCHANGED <<offer, adm, ended>>

-----------------------------------------------------------------------------
(* The other handlers.  requireAuth guards the account pages; logout and   *)
(* continueWithAccount take any session.                                   *)

Open(t) == req[t].at = "open" /\ req[t].sid # 0

\* A handler ends with the copy d; the accounts in R left it.
EndHandler(t, d, R) ==
    /\ SaveSession(t, d)
    /\ gone' = gone \cup {<<req[t].sid, u>> : u \in R}
    /\ out' = IF d.acct = req[t].data.acct THEN out ELSE out \ {d.acct}
    /\ free' = IF d.acct = req[t].data.acct THEN free ELSE free \cup {<<req[t].sid, d.acct>>}
    /\ UNCHANGED <<offer, adm, now, ended, admitted>>

\* switchAccount, continueWithAccount.
SwitchAccount(t, u) ==
    /\ Open(t) /\ u \in ToSet(req[t].data.others)
    /\ EndHandler(t, SwitchUser(req[t].data, u), {})

\* addAccount: the next sign-in of the session adds an account.
AddAccount(t) ==
    /\ Open(t) /\ IsAuthenticated(req[t].data)
    /\ EndHandler(t, [req[t].data EXCEPT !.intent = TRUE], {})

\* removeAccount, and logout from one of several accounts.
RemoveAccount(t, u) ==
    /\ Open(t) /\ u \in Accounts(req[t].data) /\ Len(req[t].data.others) > 0
    /\ EndHandler(t, RemoveAuthenticatedUser(req[t].data, u), {u})

\* Any other request that ends in a redirect: the copy is saved unchanged.
Visit(t) == Open(t) /\ EndHandler(t, req[t].data, {})

\* logout from the only account or from all of them, and the idle and absolute
\* timeouts: the session is destroyed, the response saves nothing.
Logout(t) ==
    /\ Open(t)
    /\ Destroy({req[t].sid})
    /\ req' = [Outdated({t}, {req[t].sid}) EXCEPT ![t] = Idle]
    /\ UNCHANGED <<offer, cookie, adm, sids, now, late, out, admitted>>

\* logoutAllOtherSessions and logoutSession: the sessions of the active account
\* are listed, and then deleted one by one.
FindOthers(t) ==
    /\ Open(t) /\ IsAuthenticated(req[t].data)
    /\ LET found == SessionsOf(req[t].data.active) \ {req[t].sid}
       IN  \E S \in {found} \cup {{s} : s \in found} :
             /\ S # {}
             /\ req' = [req EXCEPT ![t].op = "revoke", ![t].todo = S, ![t].at = "delete"]
    /\ UNCHANGED <<offer, store, cookie, adm, sids, now, history>>

EndRevoke(t) == req[t].op = "revoke" /\ req[t].at = "save" /\ EndHandler(t, req[t].data, {})

\* The request was refused, or its process stopped.
Abandon(t) ==
    /\ req[t].at # "idle"
    /\ req' = [req EXCEPT ![t] = Idle]
    /\ UNCHANGED <<offer, store, cookie, adm, sids, now, history>>

\* The user goes to another device, or deletes the cookie.
ClearCookie(b) ==
    /\ cookie[b] # 0 /\ cookie' = [cookie EXCEPT ![b] = 0]
    /\ UNCHANGED <<offer, store, req, adm, sids, now, history>>

-----------------------------------------------------------------------------
(* The administrator: revokeUserSessions, and disabling a user.            *)

\* Mutant: sessions that hold several accounts are passed over.
FindSingle(u) == {s \in SessionsOf(u) : store[s].data.others = <<>>}

FindAll(u) == SessionsOf(u)

\* revokeAllSessionsForUser, the query.
StartRevoke(u) ==
    /\ adm = NoRevocation /\ SessionsOf(u) # {}
    /\ adm' = [user |-> u, todo |-> FindAll(u)]
    /\ out' = out \cup {u}
    /\ UNCHANGED <<offer, store, cookie, req, sids, now, ended, late, gone, free, admitted>>

\* ... and the deletion, one statement for all that were found.
RevokeAll ==
    /\ adm # NoRevocation
    /\ Destroy(adm.todo)
    /\ req' = Outdated({}, adm.todo)
    /\ adm' = NoRevocation
    /\ UNCHANGED <<offer, cookie, sids, now, late, out, admitted>>

-----------------------------------------------------------------------------

SignIn(t) ==
    \/ \E w \in WayName, u \in User :
         Regenerate(t, w, u) \/ RegenerateFails(t, w, u) \/ FindExcess(t, w, u) \/ SignInHere(t, w, u)
    \/ LimitFails(t) \/ DeleteSession(t) \/ FinishSignIn(t)

Handle(t) ==
    \/ \E u \in User : SwitchAccount(t, u) \/ RemoveAccount(t, u)
    \/ AddAccount(t) \/ Visit(t) \/ Logout(t) \/ FindOthers(t) \/ EndRevoke(t)

Next ==
    \/ \E t \in Tab : Receive(t) \/ SignIn(t) \/ Handle(t) \/ Abandon(t)
    \/ \E b \in Browser : ClearCookie(b)
    \/ \E u \in User : StartRevoke(u)
    \/ RevokeAll

Spec == Init /\ [][Next]_vars

-----------------------------------------------------------------------------

SessionData ==
    {d \in [auth : BOOLEAN, active : User \cup {NoUser}, others : Seq(User),
            acct : User \cup {NoUser}, time : 0..MaxTime, intent : BOOLEAN,
            mfa : MfaUser \cup {NoUser}, dev : User \cup {NoUser}] :
        /\ d.acct = d.active
        /\ d.auth => d.active # NoUser
        /\ d.active = NoUser => d.others = <<>>
        /\ IsInjective(d.others) /\ d.active \notin ToSet(d.others)}

Request ==
    [op : WayName \cup {"none", "revoke"}, at : {"idle", "open", "limit", "delete", "save"},
     sid : 0..MaxSid, data : SessionData, user : User \cup {NoUser}, todo : SUBSET Sid,
     limited : BOOLEAN, fresh : BOOLEAN]

\* Types; in every session, stored or in a request, accountId is the active
\* account and no account is listed twice.
TypeOK ==
    /\ offer \subseteq WayName
    /\ store \in [Sid -> [stored : BOOLEAN, data : SessionData]]
    /\ cookie \in [Browser -> 0..MaxSid]
    /\ req \in [Tab -> Request]
    /\ adm \in [user : User \cup {NoUser}, todo : SUBSET Sid]
    /\ sids \in 0..MaxSid /\ now \in 0..MaxTime
    /\ ended \subseteq Sid /\ late \subseteq Sid /\ out \subseteq User
    /\ gone \subseteq Sid \X User

\* The sessions of u that are subject to the limit.
Counted(u) == {s \in SessionsOf(u) \ late : <<s, u>> \notin free}

\* "Maximum concurrent sessions per user.  When exceeded, oldest sessions will be
\* revoked" (config/schemas/schema.ts): sign-ins that run at the same time exceed
\* the limit by one each, and never add up over time.  Sessions that became a
\* user's on a path without enforceSessionLimit, or were written back late, are
\* not counted.
LimitKept ==
    \A u \in User :
        Cardinality(Counted(u))
            <= MaxSessions - 1 + Cardinality(Tab)

\* An account that was removed from a session, or whose session was logged out,
\* revoked, or replaced by regenerate, is not in it again without a sign-in,
\* unless a request that was under way wrote its copy back.
RemovedStaysOut ==
    \A s \in Sid \ late : store[s].stored =>
        /\ s \notin ended
        /\ \A u \in Accounts(store[s].data) : <<s, u>> \notin gone

\* "Bulk revoke - End all sessions for a user or client" (docs/admin-panel.md):
\* once the deletion is done no session acts as the user until the user signs in
\* or is switched to, requests that were under way apart
\* (revokeAllSessionsForUser).
RevocationComplete ==
    \A u \in out \ {adm.user} : SessionsOf(u) \subseteq late

\* However sign-ins, added accounts and switches mix in a browser, an account with
\* a second factor is in its session only after its factor, a recovery or the code
\* for a new device was passed in that browser (processLogin), or after it signed in
\* there through an OIDC flow, which asks for none (login.ts, social-callback.ts).
SecondFactorKept ==
    \A b \in Browser : cookie[b] # 0 /\ store[cookie[b]].stored =>
        \A u \in Accounts(store[cookie[b]].data) \cap MfaUser : <<b, u>> \in admitted

-----------------------------------------------------------------------------
(* Why they hold: what makes the properties above inductive.               *)

\* The request goes on under an identifier of its own.
Regenerated(t) == req[t].op \in WayName /\ Ways[req[t].op].regen

\* What is written or remembered was given out.
Known ==
    /\ \A s \in Sid : store[s].stored \/ s \in ended => s <= sids
    /\ \A p \in gone : p[1] <= sids
    /\ \A b \in Browser : cookie[b] <= sids
    /\ \A t \in Tab : req[t].sid <= sids /\ \A s \in req[t].todo : s <= sids
    /\ \A s \in adm.todo : s <= sids

\* Where a request can be.
InStep(t) ==
    /\ req[t].at = "idle" => req[t] = Idle
    /\ req[t].at = "open" => req[t].op = "none"
    /\ req[t].op = "none" => req[t].at \in {"idle", "open"}
    /\ req[t].op \in WayName =>
         Regenerated(t) \/ (req[t].op = "continue" /\ req[t].user \notin MfaUser)
    /\ req[t].op = "revoke" \/ Regenerated(t) => req[t].sid # 0
    /\ req[t].sid = 0 => req[t].data = Empty
    /\ req[t].at # "delete" => req[t].todo = {}
    /\ req[t].sid \notin req[t].todo

\* The copy of a request that is not out of date is what is stored; a new
\* identifier is not stored, and nothing is known of it.
FreshCopy(t) ==
    LET s == req[t].sid
    IN  req[t].fresh /\ s # 0 =>
            IF Regenerated(t) THEN ~store[s].stored /\ s \notin ended /\ \A p \in gone : p[1] # s
            ELSE store[s] = Stored(req[t].data)

InStepAll == \A t \in Tab : InStep(t)
FreshCopies == \A t \in Tab : FreshCopy(t)

\* Nobody else has a new identifier yet.
OwnIdentifier ==
    \A t \in Tab : Regenerated(t) =>
        /\ \A x \in Tab \ {t} : req[x].sid # req[t].sid
        /\ \A b \in Browser : cookie[b] # req[t].sid

\* While the deletion is still to come, what it will delete is all there is.
RevocationPending ==
    \A u \in out : SessionsOf(u) \subseteq late \cup (IF adm.user = u THEN adm.todo ELSE {})

\* A session belongs to one browser.
Separate ==
    /\ \A b, c \in Browser : cookie[b] = cookie[c] /\ cookie[b] # 0 => b = c
    /\ \A t \in Tab : req[t].sid # 0 =>
         /\ \A b \in Browser : cookie[b] = req[t].sid => b = BrowserOf[t]
         /\ \A x \in Tab : req[x].sid = req[t].sid => BrowserOf[x] = BrowserOf[t]

\* The copies of a browser's requests are like its session.
FactorInCopies ==
    \A t \in Tab : \A u \in Accounts(req[t].data) \cap MfaUser :
        <<BrowserOf[t], u>> \in admitted

\* A sign-in that asks for the excess after its account was put in acts as it.
ActsAs ==
    \A t \in Tab : req[t].op \in WayName /\ Ways[req[t].op].limit = "after" =>
        req[t].data.acct = req[t].user

\* Sign-ins of u that have asked which sessions are too many.
Limiting(u) ==
    {t \in Tab : /\ req[t].at \in {"delete", "save"} /\ req[t].limited /\ req[t].user = u
                 /\ req[t].op \in WayName /\ Ways[req[t].op].limit # "never"}

\* The sessions that stay when the sign-in of t has deleted what it found.
Kept(u, t) == Counted(u) \ (req[t].todo \cup {req[t].sid})

\* The tabs can be ranked so that the sign-in of rank k leaves room for k sessions
\* below the bound: when it ends with one more, those of higher rank move down.
RoomByRank ==
    \A u \in User : \E rank \in [Tab -> 1..Cardinality(Tab)] :
        /\ \A t, x \in Tab : rank[t] = rank[x] => t = x
        /\ \A t \in Limiting(u) :
             Cardinality(Kept(u, t)) + rank[t] <= MaxSessions - 1 + Cardinality(Tab)

\* "Restore the complete authenticated state; merely adding an account leaves the
\* next protected request unauthenticated" (webauthn.controller.ts): a session
\* with an active account is authenticated.
ActiveIsAuthenticated ==
    \A s \in Sid : store[s].data.active # NoUser => store[s].data.auth
=============================================================================
