------------------------------ MODULE OidcStore ------------------------------
(***************************************************************************)
(* The records of the OIDC provider: sessions, grants, tokens, codes,      *)
(* interactions and clients, as the Redis, MongoDB and Prisma adapters     *)
(* store them and as logout, session revocation and the client pages       *)
(* remove and change them.                                                 *)
(*                                                                         *)
(* One account and one client; a record of each model, and two sessions.   *)
(* A request loads a record, goes on, and saves it; a removal looks for    *)
(* what it removes and removes it.  backend is the deployed adapter, area  *)
(* what the requests of a behaviour are about.  What node-oidc-provider    *)
(* does between its calls of the adapter is external: it saves, finds,     *)
(* consumes and revokes in any order, from several processes.              *)
(***************************************************************************)
EXTENDS Naturals, FiniteSets

CONSTANTS
    Req,        \* requests in flight
    Backends,   \* adapters to look at
    Areas,      \* "grant": tokens of a grant, "account": logout, "client"
    MaxLife,    \* longest lifetime of a record
    GrantOps, AccountOps, ClientOps,  \* bounds: requests of each area
    MaxTime     \* bound: the clock

ASSUME StoreAssumption ==
    /\ Backends \subseteq {"redis", "mongo", "prisma"}
    /\ Areas \subseteq {"grant", "account", "client"}
    /\ MaxLife \in Nat \ {0} /\ MaxTime \in Nat
    /\ GrantOps \in Nat /\ AccountOps \in Nat /\ ClientOps \in Nat

VARIABLES
    backend, area,  \* for good
    item,      \* item[m]: the record m
    list,      \* Redis: the list of the grant's tokens, with its expiry
    born,      \* tokens issued so far: an identifier is used once
    client,    \* the client: there, secret, active
    req,       \* req[r]: the request r
    now, ops, secrets,
    \* History, read by the properties only.
    revoked,   \* tokens a finished revokeByGrantId began with, not saved since
    raced,     \* tokens the list may have lost to an overlapping save or revocation
    out,       \* records a finished logout or revocation began with, not saved since
    left,      \* records that a read or a deletion passed over in silence
    used,      \* records consumed, and not removed since
    gone,      \* the client was deleted, and not created since
    shown,     \* the client secret last shown
    outdated   \* a client was written over a change its writer had not read

store == <<item, list, born>>
history == <<revoked, raced, out, left, used, gone, shown, outdated>>
vars == <<backend, area, store, client, req, now, ops, secrets, history>>

Sessions == {"session", "other"}
Tokens == {"access", "refresh", "device"}
Record == Sessions \cup Tokens \cup {"grant", "interaction"}

\* consumable (base.ts), of the models here: hashes in Redis, the others strings.
Consumable == {"refresh", "device"}

MaxOps == CASE area = "grant" -> GrantOps [] area = "account" -> AccountOps [] OTHER -> ClientOps

Never == MaxTime + MaxLife + 1
Absent == [st |-> "none", exp |-> 0, consumed |-> FALSE]
NoList == [of |-> {}, exp |-> 0]
IdleReq == [op |-> "none", pc |-> "idle", on |-> "grant", life |-> 0, copy |-> FALSE, there |-> FALSE,
            at |-> 0, ttl |-> 0, todo |-> {}, found |-> {}, known |-> {}, failed |-> FALSE,
            cl |-> [there |-> FALSE, secret |-> 0, active |-> FALSE], new |-> 0]

\* A grant of an account, or what a sign-in leaves behind.
Init ==
    /\ backend \in Backends /\ area \in Areas
    /\ \E g \in 1..MaxLife :
        item = [m \in Record |->
            IF m = "grant" THEN [st |-> "stored", exp |-> g, consumed |-> FALSE]
            ELSE IF area = "account" /\ m # "device"
            THEN [st |-> "stored", exp |-> MaxLife, consumed |-> FALSE] ELSE Absent]
    /\ born = IF area = "account" THEN {"access", "refresh"} ELSE {}
    /\ list = IF area = "account" /\ backend = "redis"
              THEN [of |-> {"access", "refresh"}, exp |-> MaxLife] ELSE NoList
    /\ client = [there |-> FALSE, secret |-> 0, active |-> FALSE]
    /\ req = [r \in Req |-> IdleReq]
    /\ now = 0 /\ ops = 0 /\ secrets = 0
    /\ revoked = {} /\ raced = {} /\ out = {} /\ left = {} /\ used = {}
    /\ gone = FALSE /\ shown = 0 /\ outdated = FALSE

-----------------------------------------------------------------------------
Stored(m) == item[m].st = "stored" /\ item[m].exp > now
Present == {m \in Record : Stored(m)}

InArea(r, as) == area \in as /\ req[r].pc = "idle" /\ ops < MaxOps
Begin(r, fields) == req' = [req EXCEPT ![r] = fields] /\ ops' = ops + 1
End(r) == req' = [req EXCEPT ![r] = IdleReq]

\* Of the records S, the deletions of D succeed.
Remove(S, D) ==
    /\ item' = [m \in Record |-> IF m \in D THEN Absent ELSE item[m]]
    /\ used' = used \ D
    /\ left' = (left \ D) \cup {m \in S \ D : item[m].st = "stored"}

Drop(S) == Remove(S, S)

-----------------------------------------------------------------------------
(* Saving a record.                                                        *)

\* The provider issues a token of the grant.
Issue(r, m, life) ==
    /\ InArea(r, {"grant", "account"})
    /\ m \in Tokens \ born /\ life \in 1..MaxLife /\ Stored("grant")
    /\ born' = born \cup {m}
    /\ Begin(r, [IdleReq EXCEPT !.op = "save", !.pc = "loaded", !.on = m, !.life = life, !.at = now])
    /\ UNCHANGED <<backend, area, item, list, client, now, secrets, history>>

\* What find gives of consumed.  A device code is found by its user code, which
\* the Prisma adapter answers from the payload alone.
SeesConsumed(m) == item[m].consumed /\ ~(backend = "prisma" /\ m = "device")

\* A request finds a record that it will save again: the session at the end of
\* a provider request, the grant when consent is given, an interaction, or a
\* device code when the user confirms it.
Load(r, m) ==
    /\ InArea(r, {"grant", "account"})
    /\ Stored(m)
    /\ m \in IF area = "grant" THEN {"device"} ELSE Sessions \cup {"grant", "interaction"}
    /\ Begin(r, [IdleReq EXCEPT !.op = "save", !.pc = "loaded", !.on = m, !.at = now,
                                !.life = IF m \in Sessions THEN MaxLife ELSE item[m].exp - now,
                                !.copy = SeesConsumed(m)])
    /\ UNCHANGED <<backend, area, store, client, now, secrets, history>>

\* loadExistingGrant: a grant that would expire before the session is saved with
\* the session's expiry.
AlignGrant(r) ==
    /\ InArea(r, {"account"})
    /\ Stored("grant") /\ Stored("session") /\ item["grant"].exp < item["session"].exp
    /\ Begin(r, [IdleReq EXCEPT !.op = "save", !.pc = "loaded", !.on = "grant", !.at = now,
                                !.life = item["session"].exp - now])
    /\ UNCHANGED <<backend, area, store, client, now, secrets, history>>

\* upsert reads before it writes: the time the grant's list has left (Redis, for
\* the grantable models), or whether the row exists (Prisma).
LooksFirst(m) == backend = "prisma" \/ (backend = "redis" /\ m \in Tokens)

UpsertLook(r) ==
    /\ req[r].op = "save" /\ req[r].pc = "loaded" /\ LooksFirst(req[r].on)
    /\ req' = [req EXCEPT ![r].pc = "write", ![r].ttl = list.exp, ![r].at = now,
                          ![r].there = item[req[r].on].st = "stored"]
    /\ UNCHANGED <<backend, area, store, client, now, ops, secrets, history>>

\* Mutant: the field consumed is not kept.
WrittenAnew(r) ==
    LET q == req[r] IN
    [st |-> "stored", exp |-> (IF backend = "redis" THEN now ELSE q.at) + q.life,
     consumed |-> q.copy]

\* The record after upsert.  Redis and Prisma keep consumed beside the payload,
\* MongoDB in it.
Written(r) ==
    LET q == req[r] IN
    [st |-> "stored", exp |-> (IF backend = "redis" THEN now ELSE q.at) + q.life,
     consumed |-> q.copy \/ (backend # "mongo" /\ item[q.on].consumed)]

\* Mutant: the list always expires with the token saved last.
ListWithLast(r) == [of |-> list.of \cup {req[r].on}, exp |-> now + req[r].life]

\* rpush, and expire if the token outlives what ttl said of the list.  A list
\* that is gone when the transaction runs is made anew, without an expiry.
ListWith(r) ==
    LET q == req[r]
        ttl == IF q.ttl \in {0, Never} THEN 0 ELSE q.ttl - q.at
    IN  [of |-> list.of \cup {q.on},
         exp |-> IF q.life > ttl THEN now + q.life ELSE IF list.exp = 0 THEN Never ELSE list.exp]

\* Prisma: a row that was there is updated, if it still is; one that was not is
\* created, which the primary key refuses if it is now.
WriteApplies(r) == backend # "prisma" \/ (req[r].there <=> item[req[r].on].st = "stored")

\* The list may not cover the token: ttl was outdated, or a revocation that has
\* read the list is about to delete it.
Lost(r) ==
    IF backend # "redis" \/ req[r].on \notin Tokens THEN {}
    ELSE (IF req[r].ttl # list.exp \/ req[r].at # now THEN list.of \cup {req[r].on} ELSE {})
         \cup (IF \E q \in Req : req[q].op = "revoke" THEN {req[r].on} ELSE {})

Upsert(r) ==
    LET m == req[r].on
        saved == {n \in {m} : WriteApplies(r)}
    IN
    /\ req[r].op = "save"
    /\ req[r].pc = IF LooksFirst(m) THEN "write" ELSE "loaded"
    /\ item' = [n \in Record |-> IF n \in saved THEN Written(r) ELSE item[n]]
    /\ list' = IF backend = "redis" /\ m \in Tokens THEN ListWith(r) ELSE list
    /\ raced' = raced \cup Lost(r)
    /\ revoked' = revoked \ saved /\ out' = out \ saved /\ left' = left \ saved
    /\ req' = [q \in Req |-> IF q = r THEN IdleReq ELSE [req[q] EXCEPT !.known = @ \ saved]]
    /\ UNCHANGED <<backend, area, born, client, now, ops, secrets, used, gone, shown, outdated>>

-----------------------------------------------------------------------------
(* Consuming, destroying, and revoking by grant.                           *)

\* The provider finds a refresh token or a code that was not used.
Redeem(r, m) ==
    /\ InArea(r, {"grant"})
    /\ m \in Consumable /\ Stored(m) /\ ~item[m].consumed
    /\ Begin(r, [IdleReq EXCEPT !.op = "consume", !.pc = "write", !.on = m])
    /\ UNCHANGED <<backend, area, store, client, now, secrets, history>>

\* consume: an update of a record that is gone changes nothing, but HSET of a
\* key that is gone makes a hash of the field alone, without payload and expiry.
Consume(r) ==
    LET m == req[r].on IN
    /\ req[r].op = "consume"
    /\ item' = CASE item[m].st # "none" -> [item EXCEPT ![m].consumed = TRUE]
                 [] item[m].st = "none" /\ backend = "redis" ->
                        [item EXCEPT ![m] = [st |-> "ghost", exp |-> Never, consumed |-> TRUE]]
                 [] OTHER -> item
    /\ used' = IF item[m].st = "stored" THEN used \cup {m} ELSE used
    /\ End(r)
    /\ UNCHANGED <<backend, area, list, born, client, now, ops, secrets, revoked, raced, out, left,
                   gone, shown, outdated>>

\* destroy of one token: a key in the list may be of a token that is gone.
Destroy(r, m) ==
    /\ InArea(r, {"grant"})
    /\ m \in Tokens /\ Stored(m)
    /\ Drop({m}) /\ ops' = ops + 1
    /\ UNCHANGED <<backend, area, list, born, client, req, now, secrets, revoked, raced, out, gone,
                   shown, outdated>>

\* The provider revokes a grant: revokeByGrantId of every grantable model, which
\* reads the list (Redis: the call of each model covers them all) or deletes
\* model by model.  On Redis, revokeAllGrantsForAccount does it too, for the
\* grants it finds; on MongoDB it looks for the grant's tokens among the grants,
\* and the Prisma service has no such method.
RevokeByGrantId(r) ==
    /\ InArea(r, {"grant", "account"})
    /\ area = "account" => backend = "redis" /\ Stored("grant")
    /\ Begin(r, [IdleReq EXCEPT !.op = "revoke", !.pc = "write",
                                !.todo = IF backend = "redis" THEN {} ELSE Tokens,
                                !.found = list.of,
                                !.known = (Present \cap Tokens) \ raced])
    /\ UNCHANGED <<backend, area, store, client, now, secrets, history>>

\* The transaction: the tokens that were read, and the list.
RevokeListed(r) ==
    /\ req[r].op = "revoke" /\ backend = "redis"
    /\ Drop(req[r].found) /\ list' = NoList
    /\ revoked' = revoked \cup req[r].known
    /\ End(r)
    /\ UNCHANGED <<backend, area, born, client, now, ops, secrets, raced, out, gone, shown, outdated>>

\* deleteMany on one model.
RevokeModel(r, m) ==
    /\ req[r].op = "revoke" /\ m \in req[r].todo
    /\ Drop({m})
    /\ IF req[r].todo = {m}
       THEN End(r) /\ revoked' = revoked \cup req[r].known
       ELSE req' = [req EXCEPT ![r].todo = @ \ {m}] /\ UNCHANGED revoked
    /\ UNCHANGED <<backend, area, list, born, client, now, ops, secrets, raced, out, gone, shown,
                   outdated>>

-----------------------------------------------------------------------------
(* Ending the sessions of an account.                                      *)

\* What the session services get done of S, of a read or a deletion that does not
\* throw: Redis passes over the keys whose commands failed, MongoDB answers [],
\* false or 0 to an error, Prisma throws.
Done(S) ==
    CASE backend = "redis" -> SUBSET S
      [] backend = "mongo" -> {{}, S}
      [] OTHER -> {S}

Overlook(S) == left' = left \cup S

\* revokeSession, revokeAllSessionsExcept and deleteSessionsByAccountId: one
\* statement; the Redis service reads the keys first.
RevokeSessions(r, S) ==
    /\ InArea(r, {"account"})
    /\ S \cap Present # {}
    /\ \E F \in Done(S \cap Present) :
        IF backend = "redis"
        THEN /\ Begin(r, [IdleReq EXCEPT !.op = "sessions", !.pc = "write",
                                         !.found = F, !.known = S \cap Present])
             /\ Overlook((S \cap Present) \ F)
             /\ UNCHANGED <<item, used, out>>
        ELSE /\ Remove(S \cap Present, F)
             /\ out' = out \cup (S \cap Present) /\ ops' = ops + 1 /\ UNCHANGED req
    /\ UNCHANGED <<backend, area, list, born, client, now, secrets, revoked, raced, gone, shown,
                   outdated>>

\* The administrator's page and the API's filter list sessions, then revoke them:
\* each in turn, or together.
ListSessions(r, op) ==
    /\ InArea(r, {"account"})
    /\ Sessions \cap Present # {}
    /\ \E F \in Done(Sessions \cap Present) \ {{}} :
        /\ Begin(r, [IdleReq EXCEPT !.op = op, !.pc = "write", !.found = F,
                                    !.known = Sessions \cap Present])
        /\ Overlook((Sessions \cap Present) \ F)
    /\ UNCHANGED <<backend, area, store, client, now, secrets, revoked, raced, out, used, gone, shown,
                   outdated>>

\* deleteSessionsByIds; what fails on Redis is not counted, elsewhere it throws.
DeleteListed(r) ==
    /\ req[r].op = "sessions"
    /\ \E D \in SUBSET req[r].found :
        /\ backend # "redis" => D = req[r].found
        /\ Remove(req[r].found, D)
    /\ out' = out \cup req[r].known
    /\ End(r)
    /\ UNCHANGED <<backend, area, list, born, client, now, ops, secrets, revoked, raced, gone, shown,
                   outdated>>

\* revokeUserSessions goes on when revokeSession answers false.
RevokeNext(r, s) ==
    /\ req[r].op = "each" /\ s \in req[r].found
    /\ \E D \in Done({s}) : Remove({s}, D)
    /\ IF req[r].found = {s}
       THEN End(r) /\ out' = out \cup req[r].known
       ELSE req' = [req EXCEPT ![r].found = @ \ {s}] /\ UNCHANGED out
    /\ UNCHANGED <<backend, area, list, born, client, now, ops, secrets, revoked, raced, gone, shown,
                   outdated>>

-----------------------------------------------------------------------------
(* logoutOIDC: the account's sessions, grants, tokens and interactions.    *)

\* Mutant: the grants are left to expire.
CleansTokens == {"session", "access", "refresh", "interaction"}

LogoutCleans == {"session", "grant", "access", "refresh", "interaction"}

\* What deleteByAccountId and deleteGrantsByAccountId recognise: Redis reads with
\* GET, which a hash refuses; the account of an interaction is in its session
\* part, which has no column in Prisma.
Recognised(m) ==
    /\ backend = "redis" => m \notin Consumable
    /\ backend = "prisma" => m # "interaction"

\* findByAccountId, whose failure logoutOIDC does not see; known is what the
\* account has at this moment.
Logout(r) ==
    /\ InArea(r, {"account"})
    /\ \E F \in Done(Sessions \cap Present) :
        /\ Begin(r, [IdleReq EXCEPT !.op = "logout", !.pc = "write", !.todo = LogoutCleans,
                                    !.found = F, !.known = Present])
        /\ Overlook((Sessions \cap Present) \ F)
    /\ UNCHANGED <<backend, area, store, client, now, secrets, revoked, raced, out, used, gone, shown,
                   outdated>>

\* One of the five calls read its keys, or is done.  Promise.all waits for all.
Advance(r, todo, found, failed) ==
    IF todo \cup found = {}
    THEN End(r) /\ out' = IF failed THEN out ELSE out \cup req[r].known
    ELSE /\ req' = [req EXCEPT ![r].todo = todo, ![r].found = found, ![r].failed = failed]
         /\ UNCHANGED out

\* The Redis service reads the keys of a model; the ones it cannot read it passes over.
LogoutLook(r, m) ==
    LET there == {n \in {m} : Recognised(n) /\ Stored(n)} IN
    /\ req[r].op = "logout" /\ backend = "redis"
    /\ m \in req[r].todo \ {"session"}
    /\ \E F \in SUBSET there :
        /\ Advance(r, req[r].todo \ {m}, req[r].found \cup F, req[r].failed)
        /\ Overlook(there \ F)
    /\ UNCHANGED <<backend, area, store, client, now, ops, secrets, revoked, raced, used, gone, shown,
                   outdated>>

\* The deletions: a command of the Redis pipeline may fail, which is not counted.
LogoutDelete(r, m) ==
    LET q == req[r] IN
    /\ q.op = "logout"
    /\ \/ /\ m = "session" /\ m \in q.todo
          /\ \E D \in SUBSET (q.found \cap Sessions) :
              /\ backend # "redis" => D = q.found \cap Sessions
              /\ Remove(q.found \cap Sessions, D)
          /\ Advance(r, q.todo \ {m}, q.found \ Sessions, q.failed)
       \/ /\ backend = "redis" /\ m \in q.found \ Sessions
          /\ \E D \in SUBSET {m} : Remove({m}, D)
          /\ Advance(r, q.todo, q.found \ {m}, q.failed)
       \/ /\ backend # "redis" /\ m \in q.todo \ {"session"}
          /\ Drop({n \in {m} : Recognised(n)})
          /\ Advance(r, q.todo \ {m}, q.found, q.failed)
    /\ UNCHANGED <<backend, area, list, born, client, now, ops, secrets, revoked, raced, gone, shown,
                   outdated>>

\* A call throws: the others go on, and the logout is logged as failed.
LogoutFails(r, m) ==
    /\ req[r].op = "logout" /\ m \in req[r].todo
    /\ Advance(r, req[r].todo \ {m}, IF m = "session" THEN req[r].found \ Sessions ELSE req[r].found,
               TRUE)
    /\ UNCHANGED <<backend, area, store, client, now, ops, secrets, revoked, raced, left, used, gone, shown,
                   outdated>>

-----------------------------------------------------------------------------
(* Clients.                                                                *)

\* createClient: SET NX, or an insert the identifier makes unique.
CreateClient(r) ==
    /\ InArea(r, {"client"}) /\ ~client.there
    /\ client' = [there |-> TRUE, secret |-> secrets + 1, active |-> TRUE]
    /\ secrets' = secrets + 1 /\ shown' = secrets + 1
    /\ gone' = FALSE /\ ops' = ops + 1
    /\ UNCHANGED <<backend, area, store, req, now, revoked, raced, out, left, used, outdated>>

DeleteClient(r) ==
    /\ InArea(r, {"client"}) /\ client.there
    /\ client' = [there |-> FALSE, secret |-> 0, active |-> FALSE]
    /\ gone' = TRUE /\ ops' = ops + 1
    /\ UNCHANGED <<backend, area, store, req, now, secrets, revoked, raced, out, left, used, shown, outdated>>

\* The page finds the client and checks the form, or regenerateClientSecret
\* that it uses a secret; updateClient reads it again.
ChangeClient(r, op) ==
    /\ InArea(r, {"client"}) /\ client.there
    /\ Begin(r, [IdleReq EXCEPT !.op = op, !.pc = "find", !.new = secrets + 1])
    /\ secrets' = secrets + 1
    /\ UNCHANGED <<backend, area, store, client, now, history>>

FindClient(r) ==
    /\ req[r].pc = "find"
    /\ IF client.there THEN req' = [req EXCEPT ![r].pc = "write", ![r].cl = client] ELSE End(r)
    /\ UNCHANGED <<backend, area, store, client, now, ops, secrets, history>>

\* Mutant: what was stored wins over the update.
MergedBackwards(r) == req[r].cl

\* {...existing, ...updates}: activate and deactivate, or a new secret.
Merged(r) ==
    IF req[r].op = "secret" THEN [req[r].cl EXCEPT !.secret = req[r].new]
    ELSE [req[r].cl EXCEPT !.active = ~@]

\* Mutant: the update inserts what it does not find.
WritesAnyway == TRUE

\* Redis sets the key; MongoDB updates with upsert: false, Prisma with updateMany.
WriteHits == backend = "redis" \/ client.there

WriteClient(r) ==
    /\ req[r].op \in {"active", "secret"} /\ req[r].pc = "write"
    /\ client' = IF WriteHits THEN Merged(r) ELSE client
    /\ outdated' = (outdated \/ req[r].cl # client)
    /\ shown' = IF req[r].op = "secret" THEN req[r].new ELSE shown
    /\ End(r)
    /\ UNCHANGED <<backend, area, store, now, ops, secrets, revoked, raced, out, left, used, gone>>

-----------------------------------------------------------------------------
\* What has expired is not found any more, and Redis forgets it.  The requests of
\* an account are made within a tick.
Tick ==
    LET dead == {m \in Record : item[m].exp <= now + 1} IN
    /\ area = "grant" /\ now < MaxTime
    /\ now' = now + 1
    /\ Drop(dead)
    /\ list' = IF list.exp <= now + 1 THEN NoList ELSE list
    /\ UNCHANGED <<backend, area, born, client, req, ops, secrets, revoked, raced, out, gone, shown,
                   outdated>>

SaveStep(r) ==
    \/ \E m \in Record : Load(r, m) \/ \E life \in 1..MaxLife : Issue(r, m, life)
    \/ AlignGrant(r) \/ UpsertLook(r) \/ Upsert(r)

UseStep(r) ==
    \/ \E m \in Record : Redeem(r, m) \/ Destroy(r, m) \/ RevokeModel(r, m)
    \/ Consume(r) \/ RevokeByGrantId(r) \/ RevokeListed(r)

SessionStep(r) ==
    \/ \E S \in {{"session"}, {"other"}, Sessions} : RevokeSessions(r, S)
    \/ \E op \in {"sessions", "each"} : ListSessions(r, op)
    \/ DeleteListed(r) \/ \E s \in Record : RevokeNext(r, s)

LogoutStep(r) ==
    \/ Logout(r)
    \/ \E m \in Record : LogoutLook(r, m) \/ LogoutDelete(r, m) \/ LogoutFails(r, m)

ClientStep(r) ==
    \/ CreateClient(r) \/ DeleteClient(r) \/ FindClient(r) \/ WriteClient(r)
    \/ \E op \in {"active", "secret"} : ChangeClient(r, op)

Next ==
    \/ \E r \in Req : SaveStep(r) \/ UseStep(r) \/ SessionStep(r) \/ LogoutStep(r) \/ ClientStep(r)
    \/ Tick

Spec == Init /\ [][Next]_vars

-----------------------------------------------------------------------------
(* Properties.                                                             *)

ClientRecord == [there: BOOLEAN, secret: Nat, active: BOOLEAN]
Request ==
    [op: {"none", "save", "consume", "revoke", "sessions", "each", "logout", "active", "secret"},
     pc: {"idle", "loaded", "find", "write"}, on: Record, life: Nat, copy: BOOLEAN,
     there: BOOLEAN, at: Nat, ttl: Nat, todo: SUBSET Record, found: SUBSET Record,
     known: SUBSET Record, failed: BOOLEAN, cl: ClientRecord, new: Nat]

\* The variables have their types, and the list of a grant's tokens exists only in Redis.
TypeOK ==
    /\ backend \in Backends /\ area \in Areas
    /\ item \in [Record -> [st: {"none", "stored", "ghost"}, exp: Nat, consumed: BOOLEAN]]
    /\ list \in [of: SUBSET Tokens, exp: Nat]
    /\ backend # "redis" => list = NoList
    /\ born \subseteq Tokens
    /\ client \in ClientRecord
    /\ req \in [Req -> Request]
    /\ now \in 0..MaxTime /\ ops \in Nat /\ secrets \in Nat
    /\ revoked \subseteq Record /\ raced \subseteq Record /\ out \subseteq Record
    /\ left \subseteq Record /\ used \subseteq Record
    /\ gone \in BOOLEAN /\ shown \in Nat /\ outdated \in BOOLEAN

\* A record is stored for at most MaxLife, and Redis holds none that has expired.
Lifetimes ==
    /\ \A r \in Req : req[r].op = "save" => req[r].life \in 1..MaxLife /\ req[r].at <= now
    /\ \A m \in Record : item[m].st = "stored" =>
           item[m].exp <= now + MaxLife /\ (backend = "redis" => item[m].exp > now)

\* Redis: the list names the tokens of the grant and outlives them, but for those of
\* which it may have lost track; a revocation under way has read all it will delete.
\* An expiry of Never was left by a save that found the list gone.
ListCovers ==
    backend = "redis" =>
        /\ \A m \in Tokens \ raced :
               item[m].st = "stored" => m \in list.of /\ item[m].exp <= list.exp
        /\ list.exp = Never => list.of \subseteq raced
        /\ \A r \in Req : req[r].op = "revoke" => list.of \subseteq req[r].found \cup raced

\* revokeByGrantId removes every token of the grant that was stored when it
\* began: in Redis the list names each of them and outlives it, whatever their
\* lifetimes and the order they were saved in, unless a save overlapped a change
\* of the list; in the other stores the models are cleaned one by one while
\* requests go on.
GrantRevocationComplete == \A m \in revoked : item[m].st # "stored"

\* What a request under way will still remove, of what it has to.
Pending(r) ==
    LET q == req[r] IN
    CASE q.op = "revoke" -> IF backend = "redis" THEN q.found ELSE q.todo
      [] q.op \in {"sessions", "each"} -> q.found
      [] q.op = "logout" -> {m \in (IF backend = "redis" THEN q.found \cup q.todo ELSE q.todo) : m \notin Sessions}
                            \cup {m \in q.found \cap Sessions : "session" \in q.todo}
      [] OTHER -> Record

\* Why a revocation or a logout that has finished leaves nothing it had to remove.
LogoutRemoves(m) == m \in Sessions \/ (m \in LogoutCleans /\ Recognised(m))

Forms ==
    \A r \in Req :
        /\ req[r].failed => req[r].op = "logout"
        /\ req[r].op = "revoke" /\ backend = "redis" => req[r].todo = {}

\* A revocation by grant fails aloud.
Excused(r) == IF req[r].op = "revoke" THEN {} ELSE left

KnownPending ==
    \A r \in Req : ~req[r].failed =>
        \A m \in req[r].known :
            (req[r].op = "logout" => LogoutRemoves(m)) =>
                m \in Pending(r) \cup Excused(r) \/ item[m].st # "stored"

OutRemoved == \A m \in out \ left : LogoutRemoves(m) => item[m].st # "stored"

\* "The spec requires find() to return a truthy consumed property after
\* consume()" (prisma/index.ts): a record that is saved again, by a request that
\* found it before, stays consumed as long as it exists (Redis and Prisma).
ConsumedStays == backend # "mongo" => \A m \in used : item[m].consumed

\* A token is of use while it and its grant are found.
Usable(m) == Stored(m) /\ (m \in Tokens => Stored("grant"))

\* After logoutOIDC or a revocation of sessions has reported success, nothing the
\* account had when it began is of use, if it was not saved again meanwhile nor passed
\* over by a read or deletion that failed in silence: device codes, and in Redis
\* refresh tokens, stay, and so may a token whose deletion failed, and only the
\* missing grant keeps them from being used.
LogoutUnusable ==
    \A m \in out :
        Usable(m) => /\ m \in left \/ ~LogoutRemoves(m)
                     /\ m \in Tokens => "grant" \in left \/ "grant" \notin out

\* A deleted client stays deleted, also when an update that has read it writes
\* after the deletion (MongoDB and Prisma).
DeletedClientStays == backend # "redis" => (gone => ~client.there)

\* The secret an administrator was shown last is the client's, until an update
\* is written over a change it has not read.
ShownSecretWorks == client.there /\ ~outdated => client.secret = shown

\* "Promise fulfilled with the stored payload or undefined" (base.ts, find): no
\* key of Redis is a hash without a payload, on which find throws.
NoGhost == \A m \in Record : item[m].st # "ghost"

\* "Works for AccessToken, RefreshToken, and Interaction models"
\* (mongodb/admin-service.ts, deleteByAccountId): logoutOIDC removes what the
\* account had of these, in every store.
LogoutClears == \A m \in out : m \in LogoutCleans \cup Sessions => item[m].st # "stored"
=============================================================================
