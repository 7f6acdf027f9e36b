--------------------------- MODULE OidcStoreProofs ---------------------------
(***************************************************************************)
(* Proofs about OidcStore: a consumed record stays consumed, a deleted     *)
(* client stays deleted, a shown secret works, and a revocation or a       *)
(* logout that has finished has removed what it found, for any number of   *)
(* concurrent requests, any lifetimes and every adapter.                   *)
(***************************************************************************)
EXTENDS OidcStore, TLAPS

ItemRec == [st: {"none", "stored", "ghost"}, exp: Nat, consumed: BOOLEAN]
ListRec == [of: SUBSET Tokens, exp: Nat]

LEMMA Constants ==
    /\ "grant" \in Record /\ "session" \in Record /\ Tokens \subseteq Record /\ Sessions \subseteq Record
    /\ Consumable \subseteq Tokens /\ LogoutCleans \subseteq Record
    /\ MaxLife \in Nat /\ MaxTime \in Nat /\ Never \in Nat
    /\ Absent \in ItemRec /\ Absent.st = "none" /\ NoList \in ListRec /\ NoList.of = {} /\ NoList.exp = 0
    /\ IdleReq \in Request
BY StoreAssumption DEF Record, Sessions, Tokens, Consumable, LogoutCleans, Never, Absent, ItemRec,
   NoList, ListRec, IdleReq, Request, ClientRecord

\* What is known of an idle request, field by field.
LEMMA IdleFields ==
    /\ IdleReq.op = "none" /\ IdleReq.pc = "idle" /\ IdleReq.known = {} /\ IdleReq.found = {}
    /\ IdleReq.todo = {} /\ IdleReq.failed = FALSE
BY DEF IdleReq

\* Changing the fields of a request to values of their types.
LEMMA Retyped ==
    ASSUME NEW q \in Request
    PROVE  /\ \A on \in Record, life \in Nat, at \in Nat, copy \in BOOLEAN :
                  [q EXCEPT !.op = "save", !.pc = "loaded", !.on = on, !.life = life, !.at = at,
                            !.copy = copy] \in Request
           /\ \A known \in SUBSET Record : [q EXCEPT !.known = known] \in Request
           /\ \A todo \in SUBSET Record : [q EXCEPT !.todo = todo] \in Request
           /\ \A found \in SUBSET Record : [q EXCEPT !.found = found] \in Request
BY DEF Request

\* Removing records keeps the types and makes nothing stored; what stays of what was
\* to be removed is noted in left.
LEMMA Removes ==
    ASSUME TypeOK, NEW S, NEW D, Remove(S, D)
    PROVE  /\ item' \in [Record -> ItemRec] /\ used' \subseteq Record /\ used' \subseteq used
           /\ \A m \in Record : item'[m].st = "stored" => m \notin D /\ item'[m] = item[m]
           /\ \A m \in used' : item'[m] = item[m]
           /\ \A m \in Record : m \in D => item'[m].st = "none"
           /\ left' \subseteq left \cup (S \ D)
           /\ \A m \in Record : (m \in left \/ m \in S) /\ item'[m].st = "stored" => m \in left'
<1>1. /\ item' = [m \in Record |-> IF m \in D THEN Absent ELSE item[m]]
      /\ used' = used \ D
      /\ left' = (left \ D) \cup {m \in S \ D : item[m].st = "stored"}
  BY DEF Remove
<1>2. item \in [Record -> ItemRec] /\ used \subseteq Record
  BY DEF TypeOK, ItemRec
<1> QED BY <1>1, <1>2, Constants

\* A removal that does not fail.
LEMMA Drops ==
    ASSUME TypeOK, NEW S, Drop(S)
    PROVE  /\ Remove(S, S)
           /\ item' \in [Record -> ItemRec] /\ used' \subseteq Record /\ used' \subseteq used
           /\ \A m \in Record : item'[m].st = "stored" => m \notin S /\ item'[m] = item[m]
           /\ \A m \in used' : item'[m] = item[m]
           /\ left' \subseteq Record
<1>1. Remove(S, S)
  BY DEF Drop
<1>2. left \subseteq Record
  BY DEF TypeOK
<1> QED BY <1>1, <1>2, Removes

\* Ending a request, or starting one in place of another.
LEMMA Requests ==
    ASSUME TypeOK, NEW r \in Req
    PROVE  /\ End(r) => req' \in [Req -> Request] /\ req'[r] = IdleReq
           /\ \A q \in Request : req' = [req EXCEPT ![r] = q] => req' \in [Req -> Request] /\ req'[r] = q
BY Constants DEF TypeOK, End

-----------------------------------------------------------------------------
(* Types.                                                                  *)

LEMMA SaveTypes ==
    ASSUME TypeOK, NEW r \in Req, SaveStep(r)
    PROVE  TypeOK'
<1>0. Req = DOMAIN req /\ req[r] \in Request /\ now \in Nat
  BY Constants DEF TypeOK
<1>1. ASSUME NEW m \in Record, Load(r, m) PROVE TypeOK'
  <2> DEFINE life == IF m \in Sessions THEN MaxLife ELSE item[m].exp - now
  <2>1. life \in Nat /\ SeesConsumed(m) \in BOOLEAN
    BY <1>0, <1>1, Constants DEF Load, Stored, TypeOK, SeesConsumed
  <2> DEFINE q == [IdleReq EXCEPT !.op = "save", !.pc = "loaded", !.on = m, !.at = now, !.life = life,
                                  !.copy = SeesConsumed(m)]
  <2>2. req' = [req EXCEPT ![r] = q] /\ ops' = ops + 1
    BY <1>1 DEF Load, Begin
  <2> HIDE DEF life
  <2>3. q \in Request
    BY <1>0, <2>1, Constants DEF Request
  <2> HIDE DEF q
  <2>4. req' \in [Req -> Request] /\ ops' \in Nat
    BY <2>2, <2>3 DEF TypeOK
  <2> QED BY <1>1, <2>4 DEF Load, TypeOK, store, history
<1>2. ASSUME NEW m \in Record, NEW life \in 1..MaxLife, Issue(r, m, life) PROVE TypeOK'
  <2>0. life \in Nat
    BY Constants
  <2> DEFINE q == [IdleReq EXCEPT !.op = "save", !.pc = "loaded", !.on = m, !.life = life, !.at = now]
  <2>1. req' = [req EXCEPT ![r] = q] /\ ops' = ops + 1
    BY <1>2 DEF Issue, Begin
  <2>2. q \in Request
    BY <1>0, <2>0, Constants DEF Request
  <2> HIDE DEF q
  <2>3. req' \in [Req -> Request] /\ ops' \in Nat
    BY <2>1, <2>2 DEF TypeOK
  <2> QED BY <1>2, <2>3 DEF Issue, TypeOK, history
<1>3. CASE AlignGrant(r)
  <2> DEFINE life == item["session"].exp - now
  <2>1. life \in Nat
    BY <1>0, <1>3, Constants DEF AlignGrant, Stored, TypeOK
  <2> DEFINE q == [IdleReq EXCEPT !.op = "save", !.pc = "loaded", !.on = "grant", !.at = now, !.life = life]
  <2>2. req' = [req EXCEPT ![r] = q] /\ ops' = ops + 1
    BY <1>3 DEF AlignGrant, Begin
  <2> HIDE DEF life
  <2>3. q \in Request
    BY <1>0, <2>1, Constants DEF Request
  <2> HIDE DEF q
  <2>4. req' \in [Req -> Request] /\ ops' \in Nat
    BY <2>2, <2>3 DEF TypeOK
  <2> QED BY <1>3, <2>4 DEF AlignGrant, TypeOK, store, history
<1>4. CASE UpsertLook(r)
  <2> DEFINE there == (item[req[r].on].st = "stored")
  <2>0. there \in BOOLEAN /\ list.exp \in Nat
    BY DEF TypeOK
  <2> DEFINE q == [req[r] EXCEPT !.pc = "write", !.ttl = list.exp, !.at = now, !.there = there]
  <2>1. req' = [req EXCEPT ![r] = q]
    BY <1>4 DEF UpsertLook, TypeOK
  <2> HIDE DEF there
  <2>2. q \in Request
    BY <1>0, <2>0 DEF Request
  <2> HIDE DEF q
  <2>3. req' \in [Req -> Request]
    BY <2>1, <2>2 DEF TypeOK
  <2> QED BY <1>4, <2>3 DEF UpsertLook, TypeOK, store, history
<1>5. CASE Upsert(r)
  <2> DEFINE saved == {n \in {req[r].on} : WriteApplies(r)}
  <2>1. Written(r) \in ItemRec
    BY <1>0 DEF Written, ItemRec, Request, TypeOK
  <2>2. item' = [n \in Record |-> IF n \in saved THEN Written(r) ELSE item[n]]
    BY <1>5 DEF Upsert
  <2>3. item' \in [Record -> ItemRec]
    BY <2>1, <2>2 DEF TypeOK, ItemRec
  <2>4. backend = "redis" /\ req[r].on \in Tokens => ListWith(r) \in ListRec
    BY <1>0, Constants DEF ListWith, ListRec, Request, TypeOK
  <2>5. list' \in ListRec /\ (backend # "redis" => list' = NoList)
    BY <1>5, <2>4 DEF Upsert, TypeOK, ListRec
  <2>6. Lost(r) \subseteq Record
    BY <1>0, Constants DEF Lost, Request, TypeOK
  <2>7. raced' \subseteq Record /\ revoked' \subseteq Record /\ out' \subseteq Record
    BY <1>5, <2>6 DEF Upsert, TypeOK
  <2>7a. left' \subseteq Record
    BY <1>5 DEF Upsert, TypeOK
  <2>8. req' = [q \in Req |-> IF q = r THEN IdleReq ELSE [req[q] EXCEPT !.known = @ \ saved]]
    BY <1>5 DEF Upsert
  <2> HIDE DEF saved
  <2>9. ASSUME NEW q \in Req PROVE [req[q] EXCEPT !.known = @ \ saved] \in Request
    <3>1. req[q] \in Request /\ req[q].known \ saved \in SUBSET Record
      BY DEF TypeOK, Request
    <3> QED BY <3>1, Retyped
  <2>10. req' \in [Req -> Request]
    BY <2>8, <2>9, Constants
  <2> QED BY <1>5, <2>3, <2>5, <2>7, <2>7a, <2>10 DEF Upsert, TypeOK, ItemRec, ListRec
<1> QED BY <1>1, <1>2, <1>3, <1>4, <1>5 DEF SaveStep

\* The steps that remove records change, of the rest, only the history.
LEMMA Removed ==
    ASSUME TypeOK, NEW S \in SUBSET Record, NEW D, Remove(S, D),
           UNCHANGED <<backend, area, list, born, client, secrets, now>>,
           req' \in [Req -> Request], ops' \in Nat, UNCHANGED <<raced, gone, shown, outdated>>,
           revoked' \subseteq Record, out' \subseteq Record
    PROVE  TypeOK'
<1>1. left' \subseteq Record
  BY Removes DEF TypeOK
<1> QED BY <1>1, Removes DEF TypeOK, ItemRec

LEMMA UseTypes ==
    ASSUME TypeOK, NEW r \in Req, UseStep(r)
    PROVE  TypeOK'
<1>0. req[r] \in Request /\ ops \in Nat /\ revoked \subseteq Record /\ out \subseteq Record
  BY DEF TypeOK
<1>1. ASSUME NEW m \in Record, Redeem(r, m) PROVE TypeOK'
  <2> DEFINE q == [IdleReq EXCEPT !.op = "consume", !.pc = "write", !.on = m]
  <2>1. req' = [req EXCEPT ![r] = q] /\ ops' = ops + 1
    BY <1>1 DEF Redeem, Begin
  <2>2. q \in Request
    BY Constants DEF Request
  <2> HIDE DEF q
  <2>3. req' \in [Req -> Request] /\ ops' \in Nat
    BY <2>1, <2>2 DEF TypeOK
  <2> QED BY <1>1, <2>3 DEF Redeem, TypeOK, store, history
<1>2. ASSUME NEW m \in Record, Destroy(r, m) PROVE TypeOK'
  <2>1. req' \in [Req -> Request] /\ ops' \in Nat
    BY <1>0, <1>2 DEF Destroy, TypeOK
  <2>2. Remove({m}, {m}) /\ {m} \in SUBSET Record
    BY <1>2 DEF Destroy, Drop
  <2> QED BY <1>0, <1>2, <2>1, <2>2, Removed DEF Destroy
<1>3. ASSUME NEW m \in Record, RevokeModel(r, m) PROVE TypeOK'
  <2>1. req[r].todo \ {m} \in SUBSET Record /\ req[r].known \subseteq Record
    BY <1>0 DEF Request
  <2>2. ASSUME req' = [req EXCEPT ![r].todo = @ \ {m}] PROVE req' \in [Req -> Request]
    <3>1. req' = [req EXCEPT ![r] = [req[r] EXCEPT !.todo = req[r].todo \ {m}]]
      BY <2>2 DEF TypeOK
    <3>2. [req[r] EXCEPT !.todo = req[r].todo \ {m}] \in Request
      BY <1>0, <2>1, Retyped
    <3> QED BY <3>1, <3>2 DEF TypeOK
  <2>3. req' \in [Req -> Request] /\ revoked' \subseteq Record
    BY <1>0, <1>3, <2>1, <2>2, Requests DEF RevokeModel
  <2>4. Remove({m}, {m}) /\ {m} \in SUBSET Record
    BY <1>3 DEF RevokeModel, Drop
  <2> QED BY <1>0, <1>3, <2>3, <2>4, Removed DEF RevokeModel
<1>4. CASE Consume(r)
  <2>0. req[r].on \in Record
    BY <1>0 DEF Request
  <2>1. item' \in [Record -> ItemRec]
    BY <1>4, <2>0, Constants DEF Consume, TypeOK, ItemRec
  <2>2. used' \subseteq Record
    BY <1>4, <2>0 DEF Consume, TypeOK
  <2>3. req' \in [Req -> Request]
    BY <1>4, Requests DEF Consume
  <2> QED BY <1>4, <2>1, <2>2, <2>3 DEF Consume, TypeOK, ItemRec
<1>5. CASE RevokeByGrantId(r)
  <2> DEFINE todo == IF backend = "redis" THEN {} ELSE Tokens
             known == (Present \cap Tokens) \ raced
             q == [IdleReq EXCEPT !.op = "revoke", !.pc = "write", !.todo = todo, !.found = list.of,
                                  !.known = known]
  <2>1. todo \in SUBSET Record /\ known \in SUBSET Record /\ list.of \in SUBSET Record
    BY Constants DEF TypeOK
  <2>2. req' = [req EXCEPT ![r] = q] /\ ops' = ops + 1
    BY <1>5 DEF RevokeByGrantId, Begin
  <2> HIDE DEF todo, known
  <2>3. q \in Request
    BY <2>1, Constants DEF Request
  <2> HIDE DEF q
  <2>4. req' \in [Req -> Request] /\ ops' \in Nat
    BY <2>2, <2>3 DEF TypeOK
  <2> QED BY <1>5, <2>4 DEF RevokeByGrantId, TypeOK, store, history
<1>6. CASE RevokeListed(r)
  <2>1. req' \in [Req -> Request] /\ list' \in ListRec /\ (backend # "redis" => list' = NoList)
    BY <1>6, Requests, Constants DEF RevokeListed
  <2>2. revoked' \subseteq Record
    BY <1>0, <1>6 DEF RevokeListed, Request
  <2> QED BY <1>6, <2>1, <2>2, Drops DEF RevokeListed, TypeOK, ItemRec, ListRec
<1> QED BY <1>1, <1>2, <1>3, <1>4, <1>5, <1>6 DEF UseStep

LEMMA DoneOf ==
    ASSUME NEW S, NEW F \in Done(S)
    PROVE  F \in SUBSET S
BY DEF Done

LEMMA SessionTypes ==
    ASSUME TypeOK, NEW r \in Req, SessionStep(r)
    PROVE  TypeOK'
<1>0. /\ req[r] \in Request /\ ops \in Nat /\ revoked \subseteq Record /\ out \subseteq Record
      /\ req \in [Req -> Request]
  BY DEF TypeOK
<1>1. ASSUME NEW op \in {"sessions", "each"}, NEW S \in SUBSET Record, NEW F \in SUBSET S,
             Begin(r, [IdleReq EXCEPT !.op = op, !.pc = "write", !.found = F, !.known = S]), Overlook(S \ F)
      PROVE  req' \in [Req -> Request] /\ ops' \in Nat /\ left' \subseteq Record
  <2> DEFINE q == [IdleReq EXCEPT !.op = op, !.pc = "write", !.found = F, !.known = S]
  <2>1. q \in Request
    BY Constants DEF Request
  <2>2. req' = [req EXCEPT ![r] = q] /\ ops' = ops + 1
    BY <1>1 DEF Begin
  <2>3. left' \subseteq Record
    BY <1>1 DEF Overlook, TypeOK
  <2> HIDE DEF q
  <2> QED BY <2>1, <2>2, <2>3 DEF TypeOK
<1>2. ASSUME NEW S, RevokeSessions(r, S) PROVE TypeOK'
  <2> DEFINE T == S \cap Present
  <2>0. T \in SUBSET Record
    BY DEF Present
  <2>1. PICK F \in Done(T) :
            IF backend = "redis"
            THEN /\ Begin(r, [IdleReq EXCEPT !.op = "sessions", !.pc = "write", !.found = F, !.known = T])
                 /\ Overlook(T \ F)
                 /\ UNCHANGED <<item, used, out>>
            ELSE /\ Remove(T, F)
                 /\ out' = out \cup T /\ ops' = ops + 1 /\ UNCHANGED req
    BY <1>2 DEF RevokeSessions
  <2>2. /\ UNCHANGED <<backend, area, list, born, client, now, secrets, revoked, raced, gone, shown,
                       outdated>>
    BY <1>2 DEF RevokeSessions
  <2> HIDE DEF T
  <2>3. F \in SUBSET T
    BY DoneOf
  <2>4. CASE backend = "redis"
    <3>1. req' \in [Req -> Request] /\ ops' \in Nat /\ left' \subseteq Record
      BY <1>1, <2>0, <2>1, <2>3, <2>4
    <3> QED BY <2>1, <2>2, <2>4, <3>1 DEF TypeOK
  <2>5. CASE backend # "redis"
    <3>1. out' \subseteq Record /\ ops' \in Nat /\ req' \in [Req -> Request]
      BY <1>0, <2>0, <2>1, <2>5
    <3> QED BY <1>0, <2>0, <2>1, <2>2, <2>5, <3>1, Removed
  <2> QED BY <2>4, <2>5
<1>3. ASSUME NEW op \in {"sessions", "each"}, ListSessions(r, op) PROVE TypeOK'
  <2> DEFINE T == Sessions \cap Present
  <2>1. T \in SUBSET Record
    BY DEF Present
  <2>2. PICK F \in Done(T) :
            /\ Begin(r, [IdleReq EXCEPT !.op = op, !.pc = "write", !.found = F, !.known = T])
            /\ Overlook(T \ F)
    BY <1>3 DEF ListSessions
  <2> HIDE DEF T
  <2>3. F \in SUBSET T
    BY DoneOf
  <2>4. req' \in [Req -> Request] /\ ops' \in Nat /\ left' \subseteq Record
    BY <1>1, <2>1, <2>2, <2>3
  <2> QED BY <1>3, <2>4 DEF ListSessions, TypeOK, store
<1>4. CASE DeleteListed(r)
  <2>1. req' \in [Req -> Request] /\ out' \subseteq Record
    BY <1>0, <1>4, Requests DEF DeleteListed, Request
  <2>2. PICK D : Remove(req[r].found, D)
    BY <1>4 DEF DeleteListed
  <2>3. req[r].found \in SUBSET Record
    BY <1>0 DEF Request
  <2> QED BY <1>0, <1>4, <2>1, <2>2, <2>3, Removed DEF DeleteListed
<1>5. ASSUME NEW s \in Record, RevokeNext(r, s) PROVE TypeOK'
  <2>1. req[r].found \ {s} \in SUBSET Record /\ req[r].known \subseteq Record
    BY <1>0 DEF Request
  <2>2. ASSUME req' = [req EXCEPT ![r].found = @ \ {s}] PROVE req' \in [Req -> Request]
    <3>1. req' = [req EXCEPT ![r] = [req[r] EXCEPT !.found = req[r].found \ {s}]]
      BY <2>2 DEF TypeOK
    <3>2. [req[r] EXCEPT !.found = req[r].found \ {s}] \in Request
      BY <1>0, <2>1, Retyped
    <3> QED BY <3>1, <3>2 DEF TypeOK
  <2>3. req' \in [Req -> Request] /\ out' \subseteq Record
    BY <1>0, <1>5, <2>1, <2>2, Requests DEF RevokeNext
  <2>4. PICK D : Remove({s}, D)
    BY <1>5 DEF RevokeNext
  <2> QED BY <1>0, <1>5, <2>3, <2>4, Removed DEF RevokeNext
<1> QED BY <1>2, <1>3, <1>4, <1>5 DEF SessionStep

\* One of the calls of a logout is done, or has failed.
Others(r) == \A q \in Req : q # r => req'[q] = req[q]
Continues(r, todo, found) ==
    /\ req'[r].op = req[r].op /\ req'[r].known = req[r].known
    /\ req'[r].todo = todo /\ req'[r].found = found /\ out' = out

LEMMA AdvancedOn ==
    ASSUME TypeOK, NEW r \in Req, NEW todo \in SUBSET Record, NEW found \in SUBSET Record,
           Advance(r, todo, found, req[r].failed)
    PROVE  /\ req' \in [Req -> Request] /\ out' \subseteq Record /\ Others(r)
           /\ \/ /\ todo \cup found = {} /\ req'[r] = IdleReq
                 /\ out' = out \/ (~req[r].failed /\ out' = out \cup req[r].known)
              \/ Continues(r, todo, found) /\ req'[r].failed = req[r].failed
<1>0. req \in [Req -> Request] /\ out \subseteq Record /\ req[r] \in Request /\ req[r].known \subseteq Record
  BY DEF TypeOK, Request
<1>1. CASE todo \cup found = {}
  <2>1. req' = [req EXCEPT ![r] = IdleReq] /\ out' = IF req[r].failed THEN out ELSE out \cup req[r].known
    BY <1>1 DEF Advance, End
  <2> QED BY <1>0, <1>1, <2>1, Constants DEF Others
<1>2. CASE todo \cup found # {}
  <2> DEFINE q == [req[r] EXCEPT !.todo = todo, !.found = found, !.failed = req[r].failed]
  <2>1. req' = [req EXCEPT ![r] = q] /\ out' = out
    BY <1>0, <1>2 DEF Advance
  <2>2. /\ q \in Request /\ q.op = req[r].op /\ q.known = req[r].known
        /\ q.todo = todo /\ q.found = found /\ q.failed = req[r].failed
    BY <1>0 DEF Request
  <2> HIDE DEF q
  <2> QED BY <1>0, <2>1, <2>2 DEF Others, Continues
<1> QED BY <1>1, <1>2

LEMMA AdvancedFailed ==
    ASSUME TypeOK, NEW r \in Req, NEW todo \in SUBSET Record, NEW found \in SUBSET Record,
           Advance(r, todo, found, TRUE)
    PROVE  /\ req' \in [Req -> Request] /\ out' \subseteq Record /\ Others(r) /\ out' = out
           /\ req'[r] = IdleReq \/ (Continues(r, todo, found) /\ req'[r].failed = TRUE)
<1>0. req \in [Req -> Request] /\ out \subseteq Record /\ req[r] \in Request
  BY DEF TypeOK
<1>1. CASE todo \cup found = {}
  BY <1>0, <1>1, Constants DEF Advance, End, Others
<1>2. CASE todo \cup found # {}
  <2> DEFINE q == [req[r] EXCEPT !.todo = todo, !.found = found, !.failed = TRUE]
  <2>1. req' = [req EXCEPT ![r] = q] /\ out' = out
    BY <1>0, <1>2 DEF Advance
  <2>2. /\ q \in Request /\ q.op = req[r].op /\ q.known = req[r].known
        /\ q.todo = todo /\ q.found = found /\ q.failed = TRUE
    BY <1>0 DEF Request
  <2> HIDE DEF q
  <2> QED BY <1>0, <2>1, <2>2 DEF Others, Continues
<1> QED BY <1>1, <1>2

\* The arguments the steps of a logout give it.
LEMMA AdvanceArguments ==
    ASSUME TypeOK, NEW r \in Req, NEW m \in Record
    PROVE  /\ req[r].todo \in SUBSET Record /\ req[r].found \in SUBSET Record
           /\ req[r].todo \ {m} \in SUBSET Record /\ req[r].found \ {m} \in SUBSET Record
           /\ req[r].found \ Sessions \in SUBSET Record
           /\ req[r].found \cap Sessions \in SUBSET Record
           /\ (IF m = "session" THEN req[r].found \ Sessions ELSE req[r].found) \in SUBSET Record
BY DEF TypeOK, Request

LEMMA LogoutTypes ==
    ASSUME TypeOK, NEW r \in Req, LogoutStep(r)
    PROVE  TypeOK'
<1>0. req[r] \in Request /\ ops \in Nat /\ revoked \subseteq Record
  BY DEF TypeOK
<1>1. CASE Logout(r)
  <2>0. PICK found \in Done(Sessions \cap Present) :
            /\ Begin(r, [IdleReq EXCEPT !.op = "logout", !.pc = "write", !.todo = LogoutCleans,
                                        !.found = found, !.known = Present])
            /\ Overlook((Sessions \cap Present) \ found)
    BY <1>1 DEF Logout
  <2> DEFINE q == [IdleReq EXCEPT !.op = "logout", !.pc = "write", !.todo = LogoutCleans, !.found = found,
                                  !.known = Present]
  <2>1. found \in SUBSET Record /\ Present \in SUBSET Record /\ LogoutCleans \in SUBSET Record
    BY DoneOf, Constants DEF Present
  <2>2. req' = [req EXCEPT ![r] = q] /\ ops' = ops + 1
    BY <2>0 DEF Begin
  <2>3. q \in Request
    BY <2>1, Constants DEF Request
  <2> HIDE DEF q
  <2>4. req' \in [Req -> Request] /\ ops' \in Nat
    BY <2>2, <2>3 DEF TypeOK
  <2>5. left' \subseteq Record
    BY <2>0, <2>1 DEF Overlook, TypeOK
  <2> QED BY <1>1, <2>4, <2>5 DEF Logout, TypeOK, store
<1>2. ASSUME NEW m \in Record, LogoutLook(r, m) PROVE TypeOK'
  <2> DEFINE there == {n \in {m} : Recognised(n) /\ Stored(n)}
             todo == req[r].todo \ {m}
  <2>1. PICK F \in SUBSET there :
            Advance(r, todo, req[r].found \cup F, req[r].failed) /\ Overlook(there \ F)
    BY <1>2 DEF LogoutLook
  <2>2. todo \in SUBSET Record /\ req[r].found \cup F \in SUBSET Record /\ there \in SUBSET Record
    BY AdvanceArguments
  <2> HIDE DEF there, todo
  <2>3. req' \in [Req -> Request] /\ out' \subseteq Record
    BY <2>1, <2>2, AdvancedOn
  <2>4. left' \subseteq Record
    BY <2>1, <2>2 DEF Overlook, TypeOK
  <2> QED BY <1>2, <2>3, <2>4 DEF LogoutLook, TypeOK, store
<1>3. ASSUME NEW m \in Record, LogoutDelete(r, m) PROVE TypeOK'
  <2>1. PICK S, D, todo, found : Remove(S, D) /\ Advance(r, todo, found, req[r].failed)
            /\ todo \in SUBSET Record /\ found \in SUBSET Record /\ S \in SUBSET Record
    BY <1>3, AdvanceArguments DEF LogoutDelete, Drop
  <2>2. req' \in [Req -> Request] /\ out' \subseteq Record
    BY <2>1, AdvancedOn
  <2> QED BY <1>0, <1>3, <2>1, <2>2, Removed DEF LogoutDelete
<1>4. ASSUME NEW m \in Record, LogoutFails(r, m) PROVE TypeOK'
  <2> DEFINE found == IF m = "session" THEN req[r].found \ Sessions ELSE req[r].found
             todo == req[r].todo \ {m}
  <2>1. Advance(r, todo, found, TRUE)
    BY <1>4 DEF LogoutFails
  <2>2. todo \in SUBSET Record /\ found \in SUBSET Record
    BY AdvanceArguments
  <2> HIDE DEF found, todo
  <2>3. req' \in [Req -> Request] /\ out' \subseteq Record
    BY <2>1, <2>2, AdvancedFailed
  <2> QED BY <1>4, <2>3 DEF LogoutFails, TypeOK, store
<1> QED BY <1>1, <1>2, <1>3, <1>4 DEF LogoutStep

LEMMA ClientTypes ==
    ASSUME TypeOK, NEW r \in Req, ClientStep(r)
    PROVE  TypeOK'
<1>0. req[r] \in Request /\ ops \in Nat /\ secrets \in Nat
  BY DEF TypeOK
<1>1. CASE CreateClient(r)
  <2> DEFINE n == secrets + 1
  <2>0. n \in Nat
    BY <1>0
  <2>2. client' = [there |-> TRUE, secret |-> n, active |-> TRUE] /\ secrets' = n /\ shown' = n /\ gone' = FALSE
    BY <1>1 DEF CreateClient
  <2>3. ops' \in Nat
    BY <1>0, <1>1 DEF CreateClient
  <2> HIDE DEF n
  <2>1. client' \in ClientRecord /\ secrets' \in Nat /\ shown' \in Nat /\ ops' \in Nat /\ gone' \in BOOLEAN
    BY <2>0, <2>2, <2>3 DEF ClientRecord
  <2> QED BY <1>1, <2>1 DEF CreateClient, TypeOK, store
<1>2. CASE DeleteClient(r)
  BY <1>2 DEF DeleteClient, TypeOK, ClientRecord, store
<1>3. CASE FindClient(r)
  <2> DEFINE q == [req[r] EXCEPT !.pc = "write", !.cl = client]
  <2>1. q \in Request
    BY <1>0 DEF TypeOK, Request
  <2>2. req' = [req EXCEPT ![r] = q] \/ req' = [req EXCEPT ![r] = IdleReq]
    BY <1>3 DEF FindClient, End, TypeOK
  <2> HIDE DEF q
  <2>3. req' \in [Req -> Request]
    BY <2>1, <2>2, Constants DEF TypeOK
  <2> QED BY <1>3, <2>3 DEF FindClient, TypeOK, store, history
<1>4. CASE WriteClient(r)
  <2>1. req[r].cl \in ClientRecord /\ req[r].new \in Nat
    BY <1>0 DEF Request
  <2>2. Merged(r) \in ClientRecord
    BY <2>1 DEF Merged, ClientRecord
  <2>3. req' \in [Req -> Request]
    BY <1>4, Requests DEF WriteClient
  <2>4. client' \in ClientRecord /\ shown' \in Nat /\ outdated' \in BOOLEAN
    BY <1>4, <2>1, <2>2 DEF WriteClient, TypeOK
  <2> QED BY <1>4, <2>3, <2>4 DEF WriteClient, TypeOK, store
<1>5. ASSUME NEW op \in {"active", "secret"}, ChangeClient(r, op) PROVE TypeOK'
  <2> DEFINE q == [IdleReq EXCEPT !.op = op, !.pc = "find", !.new = secrets + 1]
  <2>1. req' = [req EXCEPT ![r] = q] /\ ops' = ops + 1 /\ secrets' = secrets + 1
    BY <1>5 DEF ChangeClient, Begin
  <2>2. q \in Request
    <3> DEFINE n == secrets + 1
    <3>1. n \in Nat
      BY <1>0
    <3> HIDE DEF n
    <3>2. [IdleReq EXCEPT !.op = op, !.pc = "find", !.new = n] \in Request
      BY <3>1, Constants DEF Request
    <3> QED BY <3>2 DEF n
  <2> HIDE DEF q
  <2>3. req' \in [Req -> Request] /\ ops' \in Nat /\ secrets' \in Nat
    BY <2>1, <2>2 DEF TypeOK
  <2> QED BY <1>5, <2>3 DEF ChangeClient, TypeOK, store, history
<1> QED BY <1>1, <1>2, <1>3, <1>4, <1>5 DEF ClientStep

LEMMA TickTypes ==
    ASSUME TypeOK, Tick
    PROVE  TypeOK'
<1>1. \E S : Drop(S)
  BY DEF Tick
<1>2. now' \in 0..MaxTime
  BY Constants DEF Tick, TypeOK
<1>3. list' \in ListRec /\ (backend # "redis" => list' = NoList)
  BY Constants DEF Tick, TypeOK, ListRec
<1>4. left' \subseteq Record
  BY <1>1, Drops
<1> QED BY <1>1, <1>2, <1>3, <1>4, Drops DEF Tick, TypeOK, ItemRec, ListRec

\* Every record, list and request of the adapters keeps its type, and no store but
\* Redis has a list of a grant's tokens.
THEOREM StoreTypes == Spec => []TypeOK
<1>1. Init => TypeOK
  <2> SUFFICES ASSUME Init PROVE TypeOK OBVIOUS
  <2>1. item \in [Record -> ItemRec]
    <3>1. PICK g \in 1..MaxLife :
              item = [m \in Record |->
                        IF m = "grant" THEN [st |-> "stored", exp |-> g, consumed |-> FALSE]
                        ELSE IF area = "account" /\ m # "device"
                        THEN [st |-> "stored", exp |-> MaxLife, consumed |-> FALSE] ELSE Absent]
      BY DEF Init
    <3> QED BY <3>1, Constants DEF ItemRec
  <2>2. list \in ListRec /\ (backend # "redis" => list = NoList) /\ born \subseteq Tokens
    BY Constants DEF Init, ListRec, Tokens
  <2>3. req \in [Req -> Request] /\ client \in ClientRecord /\ now \in 0..MaxTime
    BY Constants DEF Init, ClientRecord
  <2> QED BY <2>1, <2>2, <2>3 DEF Init, TypeOK, ItemRec, ListRec
<1>2. TypeOK /\ [Next]_vars => TypeOK'
  <2>1. TypeOK /\ UNCHANGED vars => TypeOK'
    BY DEF vars, TypeOK, store, history
  <2> QED BY <2>1, SaveTypes, UseTypes, SessionTypes, LogoutTypes, ClientTypes, TickTypes DEF Next
<1> QED BY <1>1, <1>2, PTL DEF Spec

-----------------------------------------------------------------------------
(* Consumed records and clients.                                           *)

\* The only steps that change a record, and the only ones that change the client.
LEMMA RecordSteps ==
    ASSUME TypeOK, [Next]_vars
    PROVE  /\ UNCHANGED backend
           /\ \/ UNCHANGED <<item, used>>
              \/ \E S, D : Remove(S, D)
              \/ \E r \in Req : Upsert(r) \/ Consume(r)
           /\ \/ UNCHANGED <<client, gone, shown, outdated>>
              \/ \E r \in Req : CreateClient(r) \/ DeleteClient(r) \/ WriteClient(r)
<1>1. CASE UNCHANGED vars
  BY <1>1 DEF vars, store, history
<1>2. CASE Tick
  BY <1>2 DEF Tick, Drop
<1>3. ASSUME NEW r \in Req, SaveStep(r)
      PROVE  /\ UNCHANGED backend /\ (UNCHANGED <<item, used>> \/ Upsert(r))
             /\ UNCHANGED <<client, gone, shown, outdated>>
  BY <1>3 DEF SaveStep, Load, Issue, AlignGrant, UpsertLook, Upsert, store, history
<1>4. ASSUME NEW r \in Req, UseStep(r)
      PROVE  /\ UNCHANGED backend /\ (UNCHANGED <<item, used>> \/ Consume(r) \/ \E S, D : Remove(S, D))
             /\ UNCHANGED <<client, gone, shown, outdated>>
  BY <1>4 DEF UseStep, Redeem, Destroy, RevokeModel, Consume, RevokeByGrantId, RevokeListed, Drop, store, history
<1>5. ASSUME NEW r \in Req, SessionStep(r)
      PROVE  /\ UNCHANGED backend /\ (UNCHANGED <<item, used>> \/ \E S, D : Remove(S, D))
             /\ UNCHANGED <<client, gone, shown, outdated>>
  BY <1>5 DEF SessionStep, RevokeSessions, ListSessions, DeleteListed, RevokeNext, store, history
<1>6. ASSUME NEW r \in Req, LogoutStep(r)
      PROVE  /\ UNCHANGED backend /\ (UNCHANGED <<item, used>> \/ \E S, D : Remove(S, D))
             /\ UNCHANGED <<client, gone, shown, outdated>>
  BY <1>6 DEF LogoutStep, Logout, LogoutLook, LogoutDelete, LogoutFails, Drop, store, history
<1>7. ASSUME NEW r \in Req, ClientStep(r)
      PROVE  /\ UNCHANGED <<backend, item, used>>
             /\ \/ UNCHANGED <<client, gone, shown, outdated>>
                \/ CreateClient(r) \/ DeleteClient(r) \/ WriteClient(r)
  BY <1>7 DEF ClientStep, CreateClient, DeleteClient, FindClient, WriteClient, ChangeClient, store, history
<1> QED BY <1>1, <1>2, <1>3, <1>4, <1>5, <1>6, <1>7 DEF Next

\* consume and upsert of the Redis and Prisma adapters: a save of a record that was
\* found before it was consumed never makes it usable again.
THEOREM ConsumedForGood == Spec => []ConsumedStays
<1>1. Init => ConsumedStays
  BY DEF Init, ConsumedStays
<1>2. TypeOK /\ ConsumedStays /\ [Next]_vars => ConsumedStays'
  <2> SUFFICES ASSUME TypeOK, ConsumedStays, [Next]_vars, backend' # "mongo"
               PROVE  \A m \in used' : item'[m].consumed
    BY DEF ConsumedStays
  <2>0. backend' = backend /\ \A m \in used : m \in Record /\ item[m].consumed
    BY RecordSteps DEF ConsumedStays, TypeOK
  <2>1. CASE UNCHANGED <<item, used>>
    BY <2>0, <2>1
  <2>2. ASSUME NEW S, NEW D, Remove(S, D) PROVE \A m \in used' : item'[m].consumed
    BY <2>0, <2>2, Removes
  <2>3. ASSUME NEW r \in Req, Upsert(r) PROVE \A m \in used' : item'[m].consumed
    <3>1. Written(r).consumed = (req[r].copy \/ item[req[r].on].consumed)
      BY <2>0 DEF Written
    <3>2. used' = used
      BY <2>3 DEF Upsert
    <3> QED BY <2>0, <2>3, <3>1, <3>2 DEF Upsert
  <2>4. ASSUME NEW r \in Req, Consume(r) PROVE \A m \in used' : item'[m].consumed
    <3> DEFINE m == req[r].on
    <3>0. m \in Record
      BY DEF TypeOK, Request
    <3>1. CASE item[m].st # "none"
      <4>1. item' = [item EXCEPT ![m].consumed = TRUE]
        BY <2>4, <3>1 DEF Consume
      <4>2. item'[m].consumed = TRUE /\ \A n \in Record \ {m} : item'[n] = item[n]
        BY <3>0, <4>1 DEF TypeOK
      <4>3. used' \subseteq used \cup {m}
        BY <2>4 DEF Consume
      <4> QED BY <2>0, <4>2, <4>3
    <3>2. CASE item[m].st = "none"
      <4>1. used' = used
        BY <2>4, <3>2 DEF Consume
      <4>2. \/ item' = [item EXCEPT ![m] = [st |-> "ghost", exp |-> Never, consumed |-> TRUE]]
            \/ item' = item
        BY <2>4, <3>2 DEF Consume
      <4> QED BY <2>0, <4>1, <4>2 DEF TypeOK
    <3> QED BY <3>1, <3>2
  <2> QED BY <2>1, <2>2, <2>3, <2>4, RecordSteps
<1> QED BY <1>1, <1>2, StoreTypes, PTL DEF Spec

\* updateClient of the MongoDB and Prisma services: an update that has read the
\* client writes nothing once it was deleted.
THEOREM DeletedForGood == Spec => []DeletedClientStays
<1>1. Init => DeletedClientStays
  BY DEF Init, DeletedClientStays
<1>2. TypeOK /\ DeletedClientStays /\ [Next]_vars => DeletedClientStays'
  <2> SUFFICES ASSUME TypeOK, DeletedClientStays, [Next]_vars PROVE DeletedClientStays' OBVIOUS
  <2>1. CASE UNCHANGED <<client, gone, shown, outdated>>
    BY <2>1, RecordSteps DEF DeletedClientStays
  <2>2. ASSUME NEW r \in Req, CreateClient(r) \/ DeleteClient(r) \/ WriteClient(r) PROVE DeletedClientStays'
    <3>1. backend' = backend
      BY RecordSteps
    <3>2. CASE CreateClient(r)
      BY <3>2 DEF CreateClient, DeletedClientStays
    <3>3. CASE DeleteClient(r)
      <4>1. client'.there = FALSE
        BY <3>3 DEF DeleteClient
      <4> QED BY <4>1 DEF DeletedClientStays
    <3>4. CASE WriteClient(r)
      BY <3>1, <3>4 DEF WriteClient, WriteHits, DeletedClientStays
    <3> QED BY <2>2, <3>2, <3>3, <3>4
  <2> QED BY <2>1, <2>2, RecordSteps
<1> QED BY <1>1, <1>2, StoreTypes, PTL DEF Spec

\* createClient and regenerateClientSecret: the secret on the administrator's screen
\* is the stored one, unless an update was written over a change it had not read.
THEOREM ShownSecretStored == Spec => []ShownSecretWorks
<1>1. Init => ShownSecretWorks
  BY DEF Init, ShownSecretWorks
<1>2. TypeOK /\ ShownSecretWorks /\ [Next]_vars => ShownSecretWorks'
  <2> SUFFICES ASSUME TypeOK, ShownSecretWorks, [Next]_vars PROVE ShownSecretWorks' OBVIOUS
  <2>1. CASE UNCHANGED <<client, gone, shown, outdated>>
    BY <2>1 DEF ShownSecretWorks
  <2>2. ASSUME NEW r \in Req, CreateClient(r) \/ DeleteClient(r) PROVE ShownSecretWorks'
    BY <2>2 DEF CreateClient, DeleteClient, ShownSecretWorks
  <2>3. ASSUME NEW r \in Req, WriteClient(r) PROVE ShownSecretWorks'
    <3>0. req[r].cl \in ClientRecord
      BY DEF TypeOK, Request
    <3>1. CASE req[r].op = "secret"
      <4>1. Merged(r).secret = req[r].new
        BY <3>0, <3>1 DEF Merged, ClientRecord
      <4> QED BY <2>3, <3>1, <4>1 DEF WriteClient, WriteHits, ShownSecretWorks
    <3>2. CASE req[r].op # "secret"
      <4>1. Merged(r).secret = req[r].cl.secret /\ Merged(r).there = req[r].cl.there
        BY <3>0, <3>2 DEF Merged, ClientRecord
      <4> QED BY <2>3, <3>2, <4>1 DEF WriteClient, ShownSecretWorks
    <3> QED BY <3>1, <3>2
  <2> QED BY <2>1, <2>2, <2>3, RecordSteps
<1> QED BY <1>1, <1>2, StoreTypes, PTL DEF Spec

-----------------------------------------------------------------------------
(* Revocations and logouts.                                                *)

\* The inductive invariant.
RemovalInv == Lifetimes /\ Forms /\ ListCovers /\ KnownPending /\ OutRemoved /\ GrantRevocationComplete

\* A step of one request that saves no record: what is left to show is about the
\* request itself and about what it has finished.
LEMMA Lesser ==
    ASSUME TypeOK, TypeOK', RemovalInv, NEW r \in Req, UNCHANGED <<backend, now, raced>>,
           \A m \in Record : item'[m].st = "stored" => item[m].st = "stored" /\ item'[m].exp = item[m].exp,
           \A m \in Record : m \in left /\ item'[m].st = "stored" => m \in left',
           \A q \in Req : q # r => req'[q] = req[q],
           list' = list \/ (list' = NoList /\ \A m \in Tokens \ raced : item'[m].st # "stored"),
           req'[r].op = "save" => req'[r].life \in 1..MaxLife /\ req'[r].at <= now,
           req'[r].op = "revoke" => list'.of \subseteq req'[r].found \cup raced,
           req'[r].failed => req'[r].op = "logout",
           req'[r].op = "revoke" /\ backend = "redis" => req'[r].todo = {},
           ~req'[r].failed => \A m \in req'[r].known :
               (req'[r].op = "logout" => LogoutRemoves(m)) =>
                   m \in Pending(r)' \cup Excused(r)' \/ item'[m].st # "stored",
           \A m \in out' : m \notin out /\ LogoutRemoves(m) => m \in left' \/ item'[m].st # "stored",
           \A m \in revoked' : m \notin revoked => item'[m].st # "stored"
    PROVE  RemovalInv'
<1>0. out' \subseteq Record /\ revoked' \subseteq Record /\ \A q \in Req : req[q].known \subseteq Record
  BY DEF TypeOK, Request
<1>1. \A m : LogoutRemoves(m)' <=> LogoutRemoves(m)
  BY DEF LogoutRemoves, Recognised
<1>2. Lifetimes'
  BY DEF RemovalInv, Lifetimes
<1>2a. Forms'
  BY DEF RemovalInv, Forms
<1>3. ListCovers'
  <2>1. NoList.of = {}
    BY Constants
  <2>2. CASE list' = list
    <3>1. \A m \in Tokens \ raced : item'[m].st = "stored" => item[m].st = "stored" /\ item'[m].exp = item[m].exp
      BY Constants
    <3> QED BY <2>2, <3>1 DEF RemovalInv, ListCovers
  <2>3. CASE list' = NoList /\ \A m \in Tokens \ raced : item'[m].st # "stored"
    BY <2>1, <2>3 DEF ListCovers
  <2> QED BY <2>2, <2>3
<1>4. KnownPending'
  <2> SUFFICES ASSUME NEW q \in Req, ~req'[q].failed, NEW m \in req'[q].known,
                      req'[q].op = "logout" => LogoutRemoves(m)
               PROVE  m \in Pending(q)' \cup Excused(q)' \/ item'[m].st # "stored"
    BY <1>1 DEF KnownPending
  <2>1. CASE q = r
    BY <2>1
  <2>2. CASE q # r
    <3>1. req'[q] = req[q] /\ m \in Record
      BY <1>0, <2>2
    <3>2. Pending(q)' = Pending(q) /\ (item'[m].st = "stored" /\ m \in Excused(q) => m \in Excused(q)')
      BY <3>1 DEF Pending, Excused
    <3>3. m \in Pending(q) \cup Excused(q) \/ item[m].st # "stored"
      BY <3>1 DEF RemovalInv, KnownPending
    <3> QED BY <3>1, <3>2, <3>3
  <2> QED BY <2>1, <2>2
<1>5. OutRemoved'
  BY <1>0, <1>1 DEF RemovalInv, OutRemoved
<1>6. GrantRevocationComplete'
  BY <1>0 DEF RemovalInv, GrantRevocationComplete
<1> QED BY <1>2, <1>2a, <1>3, <1>4, <1>5, <1>6 DEF RemovalInv

\* A step that starts a request, or goes on with one, and changes no record.
LEMMA Started ==
    ASSUME TypeOK, TypeOK', RemovalInv, NEW r \in Req,
           UNCHANGED <<backend, now, raced, item, list, revoked, out>>, left \subseteq left',
           \A q \in Req : q # r => req'[q] = req[q],
           req'[r].op = "save" => req'[r].life \in 1..MaxLife /\ req'[r].at <= now,
           req'[r].op = "revoke" => list.of \subseteq req'[r].found \cup raced,
           req'[r].failed => req'[r].op = "logout",
           req'[r].op = "revoke" /\ backend = "redis" => req'[r].todo = {},
           \A m \in req'[r].known :
               (req'[r].op = "logout" => LogoutRemoves(m)) =>
                   m \in Pending(r)' \cup Excused(r)' \/ item[m].st # "stored"
    PROVE  RemovalInv'
BY Lesser

LEMMA SaveKeeps ==
    ASSUME TypeOK, TypeOK', RemovalInv, NEW r \in Req, SaveStep(r), ~Upsert(r)
    PROVE  RemovalInv'
<1>0. req \in [Req -> Request] /\ now \in Nat
  BY Constants DEF TypeOK
<1>1. ASSUME NEW m \in Record, Load(r, m) PROVE RemovalInv'
  <2> DEFINE life == IF m \in Sessions THEN MaxLife ELSE item[m].exp - now
  <2>1. life \in 1..MaxLife
    BY <1>0, <1>1, Constants, StoreAssumption DEF Load, Stored, TypeOK, RemovalInv, Lifetimes
  <2> DEFINE q == [IdleReq EXCEPT !.op = "save", !.pc = "loaded", !.on = m, !.at = now, !.life = life,
                                  !.copy = SeesConsumed(m)]
  <2>2. req' = [req EXCEPT ![r] = q]
    BY <1>1 DEF Load, Begin
  <2> HIDE DEF life
  <2>3. q.op = "save" /\ q.life = life /\ q.at = now /\ q.known = {} /\ q.failed = FALSE
    BY DEF IdleReq
  <2> HIDE DEF q
  <2>4. req'[r] = q /\ \A p \in Req : p # r => req'[p] = req[p]
    BY <1>0, <2>2
  <2> QED BY <1>0, <1>1, <2>1, <2>3, <2>4, Started DEF Load, store, history
<1>2. ASSUME NEW m \in Record, NEW life \in 1..MaxLife, Issue(r, m, life) PROVE RemovalInv'
  <2> DEFINE q == [IdleReq EXCEPT !.op = "save", !.pc = "loaded", !.on = m, !.life = life, !.at = now]
  <2>1. req' = [req EXCEPT ![r] = q]
    BY <1>2 DEF Issue, Begin
  <2>2. q.op = "save" /\ q.life = life /\ q.at = now /\ q.known = {} /\ q.failed = FALSE
    BY DEF IdleReq
  <2> HIDE DEF q
  <2>3. req'[r] = q /\ \A p \in Req : p # r => req'[p] = req[p]
    BY <1>0, <2>1
  <2> QED BY <1>0, <1>2, <2>2, <2>3, Started DEF Issue, history
<1>3. CASE AlignGrant(r)
  <2> DEFINE life == item["session"].exp - now
  <2>1. life \in 1..MaxLife
    BY <1>0, <1>3, Constants DEF AlignGrant, Stored, TypeOK, RemovalInv, Lifetimes
  <2> DEFINE q == [IdleReq EXCEPT !.op = "save", !.pc = "loaded", !.on = "grant", !.at = now, !.life = life]
  <2>2. req' = [req EXCEPT ![r] = q]
    BY <1>3 DEF AlignGrant, Begin
  <2> HIDE DEF life
  <2>3. q.op = "save" /\ q.life = life /\ q.at = now /\ q.known = {} /\ q.failed = FALSE
    BY DEF IdleReq
  <2> HIDE DEF q
  <2>4. req'[r] = q /\ \A p \in Req : p # r => req'[p] = req[p]
    BY <1>0, <2>2
  <2> QED BY <1>0, <1>3, <2>1, <2>3, <2>4, Started DEF AlignGrant, store, history
<1>4. CASE UpsertLook(r)
  <2> DEFINE there == (item[req[r].on].st = "stored")
             q == [req[r] EXCEPT !.pc = "write", !.ttl = list.exp, !.at = now, !.there = there]
  <2>1. req' = [req EXCEPT ![r] = q]
    BY <1>0, <1>4 DEF UpsertLook
  <2> HIDE DEF there
  <2>2. q.op = "save" /\ q.life = req[r].life /\ q.at = now
    BY <1>0, <1>4 DEF UpsertLook, Request
  <2>3. req[r].life \in 1..MaxLife
    BY <1>4 DEF UpsertLook, RemovalInv, Lifetimes
  <2> HIDE DEF q
  <2>4. req'[r] = q /\ \A p \in Req : p # r => req'[p] = req[p]
    BY <1>0, <2>1
  <2>6. q.failed = req[r].failed /\ req[r].failed = FALSE
    BY <1>0, <1>4 DEF q, UpsertLook, RemovalInv, Forms, Request
  <2>5. Pending(r)' = Record /\ req'[r].known \subseteq Record
    BY <2>2, <2>4 DEF Pending, TypeOK, Request
  <2> QED BY <1>0, <1>4, <2>2, <2>3, <2>4, <2>5, <2>6, Started DEF UpsertLook, store, history
<1> QED BY <1>1, <1>2, <1>3, <1>4 DEF SaveStep

\* The list after a save by Redis, when what was read of it still holds.
LEMMA FreshList ==
    ASSUME TypeOK, Lifetimes, NEW r \in Req, req[r].op = "save", req[r].at = now, req[r].ttl = list.exp
    PROVE  /\ ListWith(r).of = list.of \cup {req[r].on}
           /\ now + req[r].life <= ListWith(r).exp
           /\ ListWith(r).exp # Never
           /\ list.exp \notin {0, Never} => list.exp <= ListWith(r).exp
<1>1. /\ now \in Nat /\ now <= MaxTime /\ list.exp \in Nat /\ req[r].life \in 1..MaxLife
      /\ MaxLife \in Nat /\ MaxTime \in Nat /\ Never = MaxTime + MaxLife + 1
  BY Constants DEF TypeOK, Lifetimes, Never
<1> DEFINE ttl == IF list.exp \in {0, Never} THEN 0 ELSE list.exp - now
<1>2. /\ ListWith(r).of = list.of \cup {req[r].on}
      /\ ListWith(r).exp = IF req[r].life > ttl THEN now + req[r].life
                           ELSE IF list.exp = 0 THEN Never ELSE list.exp
  BY DEF ListWith
<1>3. CASE list.exp \in {0, Never}
  BY <1>1, <1>2, <1>3
<1>4. CASE list.exp \notin {0, Never}
  BY <1>1, <1>2, <1>4
<1> QED BY <1>2, <1>3, <1>4

\* upsert: only the saved record becomes stored, and the revocations and logouts under
\* way are no longer responsible for it.
LEMMA UpsertKeeps ==
    ASSUME TypeOK, TypeOK', RemovalInv, NEW r \in Req, Upsert(r)
    PROVE  RemovalInv'
<1> DEFINE m == req[r].on
           saved == {n \in {m} : WriteApplies(r)}
<1>0. /\ now \in Nat /\ req[r] \in Request /\ m \in Record /\ req[r].op = "save" /\ req[r].at <= now
      /\ req[r].life \in 1..MaxLife /\ req[r].at \in Nat
      /\ MaxLife \in Nat /\ UNCHANGED <<backend, now>>
  BY Constants DEF TypeOK, Request, Upsert, RemovalInv, Lifetimes
<1>1. /\ item' = [n \in Record |-> IF n \in saved THEN Written(r) ELSE item[n]]
      /\ revoked' = revoked \ saved /\ out' = out \ saved /\ left' = left \ saved
      /\ req' = [q \in Req |-> IF q = r THEN IdleReq ELSE [req[q] EXCEPT !.known = @ \ saved]]
  BY DEF Upsert
<1>2. /\ \A n \in Record : n \notin saved => item'[n] = item[n]
      /\ \A n \in saved : item'[n].exp = (IF backend = "redis" THEN now ELSE req[r].at) + req[r].life
  BY <1>0, <1>1 DEF Written
<1>3. saved \subseteq {m} /\ (backend = "redis" => saved = {m})
  BY DEF WriteApplies
<1> HIDE DEF saved
<1>4. /\ req'[r] = IdleReq
      /\ \A q \in Req : q # r => /\ req'[q].op = req[q].op /\ req'[q].life = req[q].life
                               /\ req'[q].at = req[q].at /\ req'[q].found = req[q].found
                               /\ req'[q].todo = req[q].todo /\ req'[q].failed = req[q].failed
                               /\ req'[q].known = req[q].known \ saved
  <2>1. ASSUME NEW q \in Req, q # r
        PROVE  req'[q] = [req[q] EXCEPT !.known = req[q].known \ saved] /\ req[q] \in Request
    BY <1>1, <2>1 DEF TypeOK
  <2> QED BY <1>1, <2>1 DEF Request
<1>5. IdleReq.op = "none" /\ IdleReq.known = {}
  BY IdleFields
<1>6. Lifetimes'
  <2>1. \A q \in Req : req'[q].op = "save" => req'[q].life \in 1..MaxLife /\ req'[q].at <= now'
    BY <1>0, <1>4, <1>5 DEF RemovalInv, Lifetimes
  <2>2. ASSUME NEW n \in Record, item'[n].st = "stored"
        PROVE  item'[n].exp <= now' + MaxLife /\ (backend' = "redis" => item'[n].exp > now')
    <3>1. CASE n \in saved
      BY <1>0, <1>2, <3>1
    <3>2. CASE n \notin saved
      BY <1>0, <1>2, <2>2, <3>2 DEF RemovalInv, Lifetimes
    <3> QED BY <3>1, <3>2
  <2> QED BY <2>1, <2>2 DEF Lifetimes
<1>7. ListCovers'
  <2> SUFFICES ASSUME backend = "redis" PROVE ListCovers'
    BY <1>0 DEF ListCovers
  <2>0. /\ saved = {m} /\ raced' = raced \cup Lost(r)
        /\ list' = IF m \in Tokens THEN ListWith(r) ELSE list
    BY <1>3 DEF Upsert
  <2>1. \A q \in Req : req'[q].op = "revoke" => req[q].op = "revoke" /\ req'[q].found = req[q].found
    BY <1>4, <1>5
  <2>2. CASE m \notin Tokens
    <3>1. list' = list /\ raced' = raced
      BY <2>0, <2>2 DEF Lost
    <3> QED BY <1>0, <1>2, <2>0, <2>1, <2>2, <3>1, Constants DEF RemovalInv, ListCovers
  <2>3. CASE m \in Tokens /\ (req[r].ttl # list.exp \/ req[r].at # now)
    <3>1. list.of \cup {m} \subseteq raced' /\ raced \subseteq raced'
      BY <2>0, <2>3 DEF Lost
    <3>2. list'.of = list.of \cup {m}
      BY <2>0, <2>3 DEF ListWith
    <3>3. \A n \in Tokens \ raced' : item'[n].st # "stored"
      <4> SUFFICES ASSUME NEW n \in Tokens, n \notin raced', item'[n].st = "stored" PROVE FALSE OBVIOUS
      <4>1. n \notin saved /\ item'[n] = item[n]
        BY <1>2, <2>0, <3>1, Constants
      <4> QED BY <3>1, <4>1 DEF RemovalInv, ListCovers
    <3> QED BY <3>1, <3>2, <3>3 DEF ListCovers
  <2>4. CASE m \in Tokens /\ req[r].ttl = list.exp /\ req[r].at = now
    <3>1. /\ list'.of = list.of \cup {m} /\ now + req[r].life <= list'.exp /\ list'.exp # Never
          /\ list.exp \notin {0, Never} => list.exp <= list'.exp
      BY <1>0, <2>0, <2>4, FreshList DEF RemovalInv
    <3>2. ASSUME NEW n \in Tokens \ raced', item'[n].st = "stored"
          PROVE  n \in list'.of /\ item'[n].exp <= list'.exp
      <4>1. CASE n = m
        BY <1>2, <2>0, <3>1, <4>1
      <4>2. CASE n # m
        <5>1. item'[n] = item[n] /\ n \notin raced /\ n \in Record
          BY <1>2, <2>0, <3>2, <4>2, Constants
        <5>2. n \in list.of /\ item[n].exp <= list.exp /\ item[n].exp > now /\ list.exp # Never
          BY <3>2, <5>1 DEF RemovalInv, ListCovers, Lifetimes
        <5>3. list.exp \in Nat /\ item[n].exp \in Nat /\ list'.exp \in Nat
          BY <5>1 DEF TypeOK
        <5> QED BY <1>0, <3>1, <5>1, <5>2, <5>3
      <4> QED BY <4>1, <4>2
    <3>3. ASSUME NEW q \in Req, req'[q].op = "revoke" PROVE list'.of \subseteq req'[q].found \cup raced'
      <4>1. m \in Lost(r)
        BY <2>1, <2>4, <3>3 DEF Lost
      <4> QED BY <2>0, <2>1, <3>1, <3>3, <4>1 DEF RemovalInv, ListCovers
    <3> QED BY <3>1, <3>2, <3>3 DEF ListCovers
  <2> QED BY <2>2, <2>3, <2>4
<1>8. \A n : LogoutRemoves(n)' <=> LogoutRemoves(n)
  BY <1>0 DEF LogoutRemoves, Recognised
<1>9. KnownPending'
  <2> SUFFICES ASSUME NEW q \in Req, ~req'[q].failed, NEW n \in req'[q].known,
                      req'[q].op = "logout" => LogoutRemoves(n)
               PROVE  n \in Pending(q)' \cup Excused(q)' \/ item'[n].st # "stored"
    BY <1>8 DEF KnownPending
  <2>1. q # r /\ n \notin saved /\ n \in req[q].known /\ n \in Record
    BY <1>4, <1>5 DEF TypeOK, Request
  <2>2. n \in Pending(q) \cup Excused(q) \/ item[n].st # "stored"
    BY <1>4, <2>1 DEF RemovalInv, KnownPending
  <2>3. Pending(q)' = Pending(q) /\ (n \in Excused(q) => n \in Excused(q)')
    BY <1>0, <1>1, <1>4, <2>1 DEF Pending, Excused
  <2> QED BY <1>1, <1>2, <2>1, <2>2, <2>3
<1>10. OutRemoved' /\ GrantRevocationComplete'
  BY <1>1, <1>2, <1>8 DEF TypeOK, RemovalInv, OutRemoved, GrantRevocationComplete
<1>11. Forms'
  BY <1>0, <1>4, <1>5, IdleFields DEF RemovalInv, Forms
<1> QED BY <1>6, <1>7, <1>9, <1>10, <1>11 DEF RemovalInv

\* What a removal leaves.
LEMMA RemoveLess ==
    ASSUME TypeOK, NEW S, NEW D, Remove(S, D)
    PROVE  /\ \A m \in Record : item'[m].st = "stored" => item[m].st = "stored" /\ item'[m].exp = item[m].exp
           /\ \A m \in Record : item'[m].st = "stored" => m \notin D
           /\ \A m \in Record : m \in left /\ item'[m].st = "stored" => m \in left'
           /\ \A m \in Record : m \in S /\ item'[m].st = "stored" => m \in left'
BY Removes

LEMMA DropLess ==
    ASSUME TypeOK, NEW S, Drop(S)
    PROVE  /\ \A m \in Record : item'[m].st = "stored" => item[m].st = "stored" /\ item'[m].exp = item[m].exp
           /\ \A m \in Record : item'[m].st = "stored" => m \notin S
           /\ \A m \in Record : m \in left /\ item'[m].st = "stored" => m \in left'
BY RemoveLess DEF Drop

LEMMA UseKeeps ==
    ASSUME TypeOK, TypeOK', RemovalInv, NEW r \in Req, UseStep(r)
    PROVE  RemovalInv'
<1>0. req \in [Req -> Request] /\ req[r] \in Request /\ req[r].known \subseteq Record
  BY DEF TypeOK, Request
<1>1. End(r) => /\ \A q \in Req : q # r => req'[q] = req[q]
               /\ req'[r].op = "none" /\ req'[r].known = {} /\ req'[r].failed = FALSE
  BY <1>0, IdleFields DEF End
<1>2. ASSUME NEW m \in Record, Redeem(r, m) PROVE RemovalInv'
  <2> DEFINE q == [IdleReq EXCEPT !.op = "consume", !.pc = "write", !.on = m]
  <2>1. req' = [req EXCEPT ![r] = q]
    BY <1>2 DEF Redeem, Begin
  <2>2. q.op = "consume" /\ q.known = {} /\ q.failed = FALSE
    BY DEF IdleReq
  <2> HIDE DEF q
  <2>3. req'[r] = q /\ \A p \in Req : p # r => req'[p] = req[p]
    BY <1>0, <2>1
  <2> QED BY <1>2, <2>2, <2>3, Started DEF Redeem, store, history
<1>3. ASSUME NEW m \in Record, Destroy(r, m) PROVE RemovalInv'
  <2>1. /\ \A n \in Record : item'[n].st = "stored" => item[n].st = "stored" /\ item'[n].exp = item[n].exp
        /\ \A n \in Record : n \in left /\ item'[n].st = "stored" => n \in left'
    BY <1>3, DropLess DEF Destroy
  <2>2. req[r].op = "revoke" => list.of \subseteq req[r].found \cup raced
    BY <1>3 DEF Destroy, RemovalInv, ListCovers, TypeOK, NoList
  <2>3. req[r].op = "save" => req[r].life \in 1..MaxLife /\ req[r].at <= now
    BY DEF RemovalInv, Lifetimes
  <2>4. req' = req /\ UNCHANGED <<backend, now, raced, list, revoked, out>>
    BY <1>3 DEF Destroy
  <2>5. Pending(r)' = Pending(r)
    BY <2>4 DEF Pending
  <2>6. ~req[r].failed => \A n \in req[r].known :
            (req[r].op = "logout" => LogoutRemoves(n)) => n \in Pending(r) \cup Excused(r)' \/ item'[n].st # "stored"
    BY <1>0, <2>1, <2>4 DEF RemovalInv, KnownPending, Excused
  <2>7. (req[r].failed => req[r].op = "logout") /\ (req[r].op = "revoke" /\ backend = "redis" => req[r].todo = {})
    BY DEF RemovalInv, Forms
  <2> QED BY <2>1, <2>2, <2>3, <2>4, <2>5, <2>6, <2>7, Lesser
<1>4. ASSUME NEW m \in Record, RevokeModel(r, m) PROVE RemovalInv'
  <2>1. /\ \A n \in Record : item'[n].st = "stored" => item[n].st = "stored" /\ item'[n].exp = item[n].exp
        /\ \A n \in Record : item'[n].st = "stored" => n # m
        /\ \A n \in Record : n \in left /\ item'[n].st = "stored" => n \in left'
    BY <1>4, DropLess DEF RevokeModel
  <2>2. /\ UNCHANGED <<backend, now, raced, list, out>> /\ req[r].op = "revoke" /\ m \in req[r].todo
    BY <1>4 DEF RevokeModel
  <2>3. backend # "redis" /\ ~req[r].failed
    BY <2>2 DEF RemovalInv, Forms
  <2>4. \A n \in req[r].known : n \in req[r].todo \/ item[n].st # "stored"
    BY <2>2, <2>3 DEF RemovalInv, KnownPending, Pending, Excused
  <2>5. CASE req[r].todo = {m}
    <3>1. End(r) /\ revoked' = revoked \cup req[r].known
      BY <1>4, <2>5 DEF RevokeModel
    <3>2. \A n \in req[r].known : item'[n].st # "stored"
      BY <1>0, <2>1, <2>4, <2>5
    <3> QED BY <1>1, <2>1, <2>2, <3>1, <3>2, Lesser
  <2>6. CASE req[r].todo # {m}
    <3> DEFINE todo == req[r].todo \ {m}
               q == [req[r] EXCEPT !.todo = todo]
    <3>1. req' = [req EXCEPT ![r] = q] /\ revoked' = revoked
      BY <1>0, <1>4, <2>6 DEF RevokeModel
    <3>2. todo = req[r].todo \ {m}
      OBVIOUS
    <3> HIDE DEF todo
    <3>3. q.op = "revoke" /\ q.known = req[r].known /\ q.todo = todo /\ q.failed = req[r].failed /\ q.found = req[r].found
      BY <1>0, <2>2 DEF Request
    <3> HIDE DEF q
    <3>4. req'[r] = q /\ \A p \in Req : p # r => req'[p] = req[p]
      BY <1>0, <3>1
    <3>5. Pending(r)' = todo
      BY <2>2, <2>3, <3>3, <3>4 DEF Pending
    <3>6. \A n \in req'[r].known : n \in Pending(r)' \/ item'[n].st # "stored"
      BY <1>0, <2>1, <2>4, <3>2, <3>3, <3>4, <3>5
    <3>7. list.of \subseteq req'[r].found \cup raced
      BY <2>3, Constants DEF TypeOK
    <3> QED BY <2>1, <2>2, <2>3, <3>1, <3>3, <3>4, <3>6, <3>7, Lesser
  <2> QED BY <2>5, <2>6
<1>5. CASE Consume(r)
  <2> DEFINE m == req[r].on
  <2>0. m \in Record
    BY <1>0 DEF Request
  <2>1. \A n \in Record : item'[n].st = "stored" => item[n].st = "stored" /\ item'[n].exp = item[n].exp
    <3>1. \/ item[m].st # "none" /\ item' = [item EXCEPT ![m].consumed = TRUE]
          \/ item' = [item EXCEPT ![m] = [st |-> "ghost", exp |-> Never, consumed |-> TRUE]]
          \/ item' = item
      BY <1>5 DEF Consume
    <3> QED BY <2>0, <3>1 DEF TypeOK
  <2> QED BY <1>1, <1>5, <2>1, Lesser DEF Consume
<1>6. CASE RevokeByGrantId(r)
  <2> DEFINE todo == IF backend = "redis" THEN {} ELSE Tokens
             known == (Present \cap Tokens) \ raced
             q == [IdleReq EXCEPT !.op = "revoke", !.pc = "write", !.todo = todo, !.found = list.of,
                                  !.known = known]
  <2>1. req' = [req EXCEPT ![r] = q]
    BY <1>6 DEF RevokeByGrantId, Begin
  <2>2. \A n \in known : n \in IF backend = "redis" THEN list.of ELSE todo
    BY DEF Present, Stored, RemovalInv, ListCovers
  <2>3. backend = "redis" => todo = {}
    OBVIOUS
  <2> HIDE DEF todo, known
  <2>4. /\ q.op = "revoke" /\ q.todo = todo /\ q.found = list.of /\ q.known = known /\ q.failed = FALSE
    BY DEF IdleReq
  <2> HIDE DEF q
  <2>5. req'[r] = q /\ \A p \in Req : p # r => req'[p] = req[p]
    BY <1>0, <2>1
  <2>6. UNCHANGED <<backend, now, raced, item, list, revoked, out, left>>
    BY <1>6 DEF RevokeByGrantId, store, history
  <2>7. Pending(r)' = IF backend = "redis" THEN list.of ELSE todo
    BY <2>4, <2>5, <2>6 DEF Pending
  <2> QED BY <2>2, <2>3, <2>4, <2>5, <2>6, <2>7, Started
<1>7. CASE RevokeListed(r)
  <2>1. /\ \A n \in Record : item'[n].st = "stored" => item[n].st = "stored" /\ item'[n].exp = item[n].exp
        /\ \A n \in Record : item'[n].st = "stored" => n \notin req[r].found
        /\ \A n \in Record : n \in left /\ item'[n].st = "stored" => n \in left'
    BY <1>7, DropLess DEF RevokeListed
  <2>2. /\ UNCHANGED <<backend, now, raced, out>> /\ req[r].op = "revoke" /\ backend = "redis"
        /\ list' = NoList /\ revoked' = revoked \cup req[r].known /\ End(r)
    BY <1>7 DEF RevokeListed
  <2>3. \A n \in Tokens \ raced : item'[n].st # "stored"
    BY <2>1, <2>2, Constants DEF RemovalInv, ListCovers
  <2>4. \A n \in req[r].known : item'[n].st # "stored"
    BY <1>0, <2>1, <2>2 DEF RemovalInv, Forms, KnownPending, Pending, Excused
  <2> QED BY <1>1, <2>1, <2>2, <2>3, <2>4, Lesser
<1> QED BY <1>2, <1>3, <1>4, <1>5, <1>6, <1>7 DEF UseStep

LEMMA SessionKeeps ==
    ASSUME TypeOK, TypeOK', RemovalInv, NEW r \in Req, SessionStep(r)
    PROVE  RemovalInv'
<1>0. req \in [Req -> Request] /\ req[r] \in Request /\ req[r].known \subseteq Record
  BY DEF TypeOK, Request
<1>1. End(r) => /\ \A q \in Req : q # r => req'[q] = req[q]
               /\ req'[r].op = "none" /\ req'[r].known = {} /\ req'[r].failed = FALSE
  BY <1>0, IdleFields DEF End
<1>2. ASSUME NEW op \in {"sessions", "each"}, NEW S, NEW F,
             Begin(r, [IdleReq EXCEPT !.op = op, !.pc = "write", !.found = F, !.known = S]),
             Overlook(S \ F), UNCHANGED <<backend, now, raced, item, list, revoked, out>>
      PROVE  RemovalInv'
  <2> DEFINE q == [IdleReq EXCEPT !.op = op, !.pc = "write", !.found = F, !.known = S]
  <2>1. req' = [req EXCEPT ![r] = q] /\ left' = left \cup (S \ F)
    BY <1>2 DEF Begin, Overlook
  <2>2. q.op = op /\ q.found = F /\ q.known = S /\ q.failed = FALSE
    BY DEF IdleReq
  <2> HIDE DEF q
  <2>3. req'[r] = q /\ \A p \in Req : p # r => req'[p] = req[p]
    BY <1>0, <2>1
  <2>4. Pending(r)' = F /\ Excused(r)' = left'
    BY <2>2, <2>3 DEF Pending, Excused
  <2> QED BY <1>2, <2>1, <2>2, <2>3, <2>4, Started
<1>3. ASSUME NEW S, RevokeSessions(r, S) PROVE RemovalInv'
  <2> DEFINE T == S \cap Present
  <2>0. T = S \cap Present
    OBVIOUS
  <2>1. UNCHANGED <<backend, now, raced, list, revoked>>
    BY <1>3 DEF RevokeSessions
  <2>2. CASE backend = "redis"
    <3>1. PICK F : /\ Begin(r, [IdleReq EXCEPT !.op = "sessions", !.pc = "write", !.found = F, !.known = T])
                   /\ Overlook(T \ F) /\ UNCHANGED <<item, used, out>>
      BY <1>3, <2>2 DEF RevokeSessions
    <3> HIDE DEF T
    <3> QED BY <1>2, <2>1, <3>1
  <2>3. CASE backend # "redis"
    <3>1. PICK F : Remove(T, F) /\ out' = out \cup T /\ req' = req
      BY <1>3, <2>3 DEF RevokeSessions
    <3> HIDE DEF T
    <3>2. /\ \A n \in Record : item'[n].st = "stored" => item[n].st = "stored" /\ item'[n].exp = item[n].exp
          /\ \A n \in Record : n \in left /\ item'[n].st = "stored" => n \in left'
          /\ \A n \in Record : n \in T /\ item'[n].st = "stored" => n \in left'
      BY <3>1, RemoveLess
    <3>3. \A n \in out' : n \notin out => n \in left' \/ item'[n].st # "stored"
      BY <2>0, <3>1, <3>2 DEF Present
    <3>4. Pending(r)' = Pending(r)
      BY <2>1, <3>1 DEF Pending
    <3>5. ~req[r].failed => \A n \in req[r].known :
              (req[r].op = "logout" => LogoutRemoves(n)) =>
                  n \in Pending(r) \cup Excused(r)' \/ item'[n].st # "stored"
      BY <1>0, <3>1, <3>2 DEF RemovalInv, KnownPending, Excused
    <3>6. /\ req[r].op = "save" => req[r].life \in 1..MaxLife /\ req[r].at <= now
          /\ req[r].op = "revoke" => list.of \subseteq req[r].found \cup raced
          /\ req[r].failed => req[r].op = "logout"
          /\ req[r].op = "revoke" /\ backend = "redis" => req[r].todo = {}
      BY <2>3, Constants DEF RemovalInv, Lifetimes, Forms, TypeOK
    <3> QED BY <2>1, <3>1, <3>2, <3>3, <3>4, <3>5, <3>6, Lesser
  <2> QED BY <2>2, <2>3
<1>4. ASSUME NEW op \in {"sessions", "each"}, ListSessions(r, op) PROVE RemovalInv'
  <2> DEFINE T == Sessions \cap Present
  <2>1. PICK F : /\ Begin(r, [IdleReq EXCEPT !.op = op, !.pc = "write", !.found = F, !.known = T])
                 /\ Overlook(T \ F)
    BY <1>4 DEF ListSessions
  <2>2. UNCHANGED <<backend, now, raced, item, list, revoked, out>>
    BY <1>4 DEF ListSessions, store
  <2> HIDE DEF T
  <2> QED BY <1>2, <2>1, <2>2
<1>5. CASE DeleteListed(r)
  <2>0. PICK D : Remove(req[r].found, D)
    BY <1>5 DEF DeleteListed
  <2>1. /\ \A n \in Record : item'[n].st = "stored" => item[n].st = "stored" /\ item'[n].exp = item[n].exp
        /\ \A n \in Record : n \in left /\ item'[n].st = "stored" => n \in left'
        /\ \A n \in Record : n \in req[r].found /\ item'[n].st = "stored" => n \in left'
    BY <2>0, RemoveLess
  <2>2. /\ UNCHANGED <<backend, now, raced, list, revoked>> /\ req[r].op = "sessions"
        /\ out' = out \cup req[r].known /\ End(r)
    BY <1>5 DEF DeleteListed
  <2>3. \A n \in req[r].known : n \in left' \/ item'[n].st # "stored"
    BY <1>0, <2>1, <2>2 DEF RemovalInv, Forms, KnownPending, Pending, Excused
  <2> QED BY <1>1, <2>1, <2>2, <2>3, Lesser
<1>6. ASSUME NEW s \in Record, RevokeNext(r, s) PROVE RemovalInv'
  <2>0. PICK D : Remove({s}, D)
    BY <1>6 DEF RevokeNext
  <2>1. /\ \A n \in Record : item'[n].st = "stored" => item[n].st = "stored" /\ item'[n].exp = item[n].exp
        /\ \A n \in Record : n \in left /\ item'[n].st = "stored" => n \in left'
        /\ item'[s].st = "stored" => s \in left'
    BY <2>0, RemoveLess
  <2>2. UNCHANGED <<backend, now, raced, list, revoked>> /\ req[r].op = "each"
    BY <1>6 DEF RevokeNext
  <2>3. ~req[r].failed
    BY <2>2 DEF RemovalInv, Forms
  <2>4. \A n \in req[r].known : n \in req[r].found \cup left \/ item[n].st # "stored"
    BY <2>2, <2>3 DEF RemovalInv, KnownPending, Pending, Excused
  <2>5. CASE req[r].found = {s}
    <3>1. End(r) /\ out' = out \cup req[r].known
      BY <1>6, <2>5 DEF RevokeNext
    <3>2. \A n \in req[r].known : n \in left' \/ item'[n].st # "stored"
      BY <1>0, <2>1, <2>4, <2>5
    <3> QED BY <1>1, <2>1, <2>2, <3>1, <3>2, Lesser
  <2>6. CASE req[r].found # {s}
    <3> DEFINE found == req[r].found \ {s}
               q == [req[r] EXCEPT !.found = found]
    <3>1. req' = [req EXCEPT ![r] = q] /\ out' = out
      BY <1>0, <1>6, <2>6 DEF RevokeNext
    <3>2. found = req[r].found \ {s}
      OBVIOUS
    <3> HIDE DEF found
    <3>3. q.op = "each" /\ q.known = req[r].known /\ q.found = found /\ q.failed = req[r].failed
      BY <1>0, <2>2 DEF Request
    <3> HIDE DEF q
    <3>4. req'[r] = q /\ \A p \in Req : p # r => req'[p] = req[p]
      BY <1>0, <3>1
    <3>5. Pending(r)' = found /\ Excused(r)' = left'
      BY <3>3, <3>4 DEF Pending, Excused
    <3>6. \A n \in req'[r].known : n \in Pending(r)' \cup Excused(r)' \/ item'[n].st # "stored"
      BY <1>0, <2>1, <2>4, <3>2, <3>3, <3>4, <3>5
    <3> QED BY <2>1, <2>2, <2>3, <3>1, <3>3, <3>4, <3>6, Lesser
  <2> QED BY <2>5, <2>6
<1> QED BY <1>3, <1>4, <1>5, <1>6 DEF SessionStep

\* What a logout has to remove when its calls left are todo and found.
Due(m, todo, found) ==
    IF m \in Sessions THEN "session" \in todo /\ m \in found
    ELSE m \in todo \/ (backend = "redis" /\ m \in found)

LEMMA LogoutPending ==
    ASSUME TypeOK, NEW r \in Req, req[r].op = "logout", NEW m \in Record
    PROVE  m \in Pending(r) <=> Due(m, req[r].todo, req[r].found)
BY DEF Pending, Due

\* One of the calls of a logout is done: what it leaves pending covers what is still
\* stored of what the logout has to remove.
LEMMA AdvanceKeeps ==
    ASSUME TypeOK, TypeOK', RemovalInv, NEW r \in Req, req[r].op = "logout",
           NEW todo \in SUBSET Record, NEW found \in SUBSET Record,
           Advance(r, todo, found, req[r].failed), UNCHANGED <<backend, now, raced, list, revoked>>,
           \A m \in Record : item'[m].st = "stored" => item[m].st = "stored" /\ item'[m].exp = item[m].exp,
           \A m \in Record : m \in left /\ item'[m].st = "stored" => m \in left',
           \A m \in Record : LogoutRemoves(m) /\ item'[m].st = "stored" /\ m \in Pending(r) =>
               Due(m, todo, found) \/ m \in left'
    PROVE  RemovalInv'
<1>1. ASSUME ~req[r].failed, NEW m \in req[r].known, LogoutRemoves(m), item'[m].st = "stored"
      PROVE  Due(m, todo, found) \/ m \in left'
  <2>1. m \in Record
    BY DEF TypeOK, Request
  <2>2. m \in Pending(r) \/ m \in left'
    BY <1>1, <2>1 DEF RemovalInv, KnownPending, Excused
  <2> QED BY <1>1, <2>1, <2>2
<1>2. \A q \in Req : q # r => req'[q] = req[q]
  BY AdvancedOn DEF Others
<1>3. CASE /\ todo \cup found = {} /\ req'[r] = IdleReq
           /\ out' = out \/ (~req[r].failed /\ out' = out \cup req[r].known)
  <2>1. \A m \in out' : m \notin out /\ LogoutRemoves(m) => m \in left' \/ item'[m].st # "stored"
    BY <1>1, <1>3 DEF Due
  <2> QED BY <1>2, <1>3, <2>1, IdleFields, Lesser
<1>4. CASE Continues(r, todo, found) /\ req'[r].failed = req[r].failed
  <2>0. req'[r].op = "logout"
    BY <1>4 DEF Continues
  <2>1. ASSUME ~req'[r].failed, NEW m \in req'[r].known, LogoutRemoves(m), item'[m].st = "stored"
        PROVE  m \in Pending(r)' \cup Excused(r)'
    <3>1. (Due(m, todo, found) \/ m \in left') /\ req'[r].todo = todo /\ req'[r].found = found
      BY <1>1, <1>4, <2>1 DEF Continues
    <3> QED BY <2>0, <3>1 DEF Pending, Due, Excused
  <2>2. out' = out
    BY <1>4 DEF Continues
  <2> QED BY <1>2, <2>0, <2>1, <2>2, Lesser
<1> QED BY <1>3, <1>4, AdvancedOn

\* A call that failed: the logout will not report success.
LEMMA FailureKeeps ==
    ASSUME TypeOK, TypeOK', RemovalInv, NEW r \in Req, req[r].op = "logout",
           NEW todo \in SUBSET Record, NEW found \in SUBSET Record,
           Advance(r, todo, found, TRUE), UNCHANGED <<backend, now, raced, item, list, revoked, left>>
    PROVE  RemovalInv'
<1>1. (\A q \in Req : q # r => req'[q] = req[q]) /\ out' = out
  BY AdvancedFailed DEF Others
<1>2. CASE req'[r] = IdleReq
  BY <1>1, <1>2, IdleFields, Lesser
<1>3. CASE Continues(r, todo, found) /\ req'[r].failed = TRUE
  <2>1. req'[r].op = "logout"
    BY <1>3 DEF Continues
  <2> QED BY <1>1, <1>3, <2>1, Lesser
<1> QED BY <1>2, <1>3, AdvancedFailed

LEMMA LogoutKeeps ==
    ASSUME TypeOK, TypeOK', RemovalInv, NEW r \in Req, LogoutStep(r)
    PROVE  RemovalInv'
<1>0. req \in [Req -> Request]
  BY DEF TypeOK
<1>1. CASE Logout(r)
  <2>0. PICK found : /\ Begin(r, [IdleReq EXCEPT !.op = "logout", !.pc = "write", !.todo = LogoutCleans,
                                                 !.found = found, !.known = Present])
                     /\ Overlook((Sessions \cap Present) \ found)
    BY <1>1 DEF Logout
  <2> DEFINE q == [IdleReq EXCEPT !.op = "logout", !.pc = "write", !.todo = LogoutCleans, !.found = found,
                                  !.known = Present]
  <2>1. req' = [req EXCEPT ![r] = q] /\ left' = left \cup ((Sessions \cap Present) \ found)
    BY <2>0 DEF Begin, Overlook
  <2>3. /\ q.op = "logout" /\ q.todo = LogoutCleans /\ q.found = found /\ q.known = Present
        /\ q.failed = FALSE
    BY DEF IdleReq
  <2> HIDE DEF q
  <2>4. req'[r] = q /\ \A p \in Req : p # r => req'[p] = req[p]
    BY <1>0, <2>1
  <2>5. UNCHANGED <<backend, now, raced, item, list, revoked, out>>
    BY <1>1 DEF Logout, store
  <2>6. "session" \in LogoutCleans
    BY DEF LogoutCleans
  <2>7. ASSUME NEW m \in Present, LogoutRemoves(m) PROVE m \in Pending(r)' \cup Excused(r)'
    <3>1. CASE m \in Sessions
      BY <2>1, <2>3, <2>4, <2>6, <3>1 DEF Pending, Excused
    <3>2. CASE m \notin Sessions
      BY <2>3, <2>4, <2>7, <3>2 DEF Pending, LogoutRemoves
    <3> QED BY <3>1, <3>2
  <2> QED BY <2>1, <2>3, <2>4, <2>5, <2>7, Started
<1>2. ASSUME NEW m \in Record, LogoutLook(r, m) PROVE RemovalInv'
  <2> DEFINE there == {n \in {m} : Recognised(n) /\ Stored(n)}
             todo == req[r].todo \ {m}
  <2>0. PICK F \in SUBSET there :
            Advance(r, todo, req[r].found \cup F, req[r].failed) /\ Overlook(there \ F)
    BY <1>2 DEF LogoutLook
  <2> DEFINE found == req[r].found \cup F
  <2>1. /\ req[r].op = "logout" /\ backend = "redis" /\ left' = left \cup (there \ F)
        /\ m # "session" /\ UNCHANGED <<backend, now, raced, item, list, revoked>>
    BY <1>2, <2>0 DEF LogoutLook, Overlook, store
  <2>2. todo \in SUBSET Record /\ found \in SUBSET Record
    BY AdvanceArguments
  <2>3. ASSUME NEW n \in Record, LogoutRemoves(n), item[n].st = "stored", n \in Pending(r)
        PROVE  Due(n, todo, found) \/ n \in left'
    <3>1. CASE n \in Sessions
      BY <2>1, <2>3, <3>1, LogoutPending DEF Due
    <3>2. CASE n \notin Sessions
      <4>1. Recognised(n) /\ Stored(n)
        BY <2>1, <2>3, <3>2 DEF LogoutRemoves, Stored, RemovalInv, Lifetimes
      <4> QED BY <2>1, <2>3, <3>2, <4>1, LogoutPending DEF Due
    <3> QED BY <3>1, <3>2
  <2> HIDE DEF found, todo, there
  <2>4. Advance(r, todo, found, req[r].failed)
    BY <2>0 DEF found
  <2> QED BY <2>1, <2>2, <2>3, <2>4, AdvanceKeeps
<1>3. ASSUME NEW m \in Record, LogoutDelete(r, m) PROVE RemovalInv'
  <2>1. req[r].op = "logout" /\ UNCHANGED <<backend, now, raced, list, revoked>>
    BY <1>3 DEF LogoutDelete
  <2>2. ASSUME NEW S, NEW D, Remove(S, D), NEW todo \in SUBSET Record, NEW found \in SUBSET Record,
               Advance(r, todo, found, req[r].failed),
               \A n \in Record : LogoutRemoves(n) /\ n \notin S /\ n \in Pending(r) =>
                   Due(n, todo, found)
        PROVE  RemovalInv'
    <3>1. /\ \A n \in Record : item'[n].st = "stored" => item[n].st = "stored" /\ item'[n].exp = item[n].exp
          /\ \A n \in Record : n \in left /\ item'[n].st = "stored" => n \in left'
          /\ \A n \in Record : n \in S /\ item'[n].st = "stored" => n \in left'
      BY <2>2, RemoveLess
    <3> QED BY <2>1, <2>2, <3>1, AdvanceKeeps
  <2>3. /\ req[r].todo \ {m} \in SUBSET Record /\ req[r].found \ Sessions \in SUBSET Record
        /\ req[r].found \ {m} \in SUBSET Record /\ req[r].todo \in SUBSET Record
        /\ req[r].found \in SUBSET Record
    BY AdvanceArguments
  <2>4. CASE m = "session" /\ (\E D : Remove(req[r].found \cap Sessions, D))
             /\ Advance(r, req[r].todo \ {m}, req[r].found \ Sessions, req[r].failed)
    <3> DEFINE todo == req[r].todo \ {m}
               found == req[r].found \ Sessions
               S == req[r].found \cap Sessions
    <3>1. ASSUME NEW n \in Record, n \notin S, n \in Pending(r)
          PROVE  Due(n, todo, found)
      BY <2>1, <2>4, <3>1, LogoutPending DEF Due, Sessions
    <3>2. /\ todo \in SUBSET Record /\ found \in SUBSET Record
          /\ (\E D : Remove(S, D)) /\ Advance(r, todo, found, req[r].failed)
      BY <2>3, <2>4
    <3> HIDE DEF todo, found, S
    <3> QED BY <2>2, <3>1, <3>2
  <2>5. CASE backend = "redis" /\ m \in req[r].found \ Sessions /\ (\E D : Remove({m}, D))
             /\ Advance(r, req[r].todo, req[r].found \ {m}, req[r].failed)
    <3> DEFINE todo == req[r].todo
               found == req[r].found \ {m}
    <3>1. ASSUME NEW n \in Record, n \notin {m}, n \in Pending(r)
          PROVE  Due(n, todo, found)
      BY <2>1, <2>5, <3>1, LogoutPending DEF Due
    <3>2. todo \in SUBSET Record /\ found \in SUBSET Record /\ Advance(r, todo, found, req[r].failed)
      BY <2>3, <2>5
    <3> HIDE DEF todo, found
    <3> QED BY <2>2, <2>5, <3>1, <3>2
  <2>6. CASE backend # "redis" /\ m \in req[r].todo \ {"session"} /\ Drop({n \in {m} : Recognised(n)})
             /\ Advance(r, req[r].todo \ {m}, req[r].found, req[r].failed)
    <3> DEFINE todo == req[r].todo \ {m}
               found == req[r].found
               S == {n \in {m} : Recognised(n)}
    <3>1. ASSUME NEW n \in Record, LogoutRemoves(n), n \notin S, n \in Pending(r)
          PROVE  Due(n, todo, found)
      BY <2>1, <2>6, <3>1, LogoutPending DEF Due, LogoutRemoves
    <3>2. /\ todo \in SUBSET Record /\ found \in SUBSET Record
          /\ Remove(S, S) /\ Advance(r, todo, found, req[r].failed)
      BY <2>3, <2>6 DEF Drop
    <3> HIDE DEF todo, found, S
    <3> QED BY <2>2, <3>1, <3>2
  <2> QED BY <1>3, <2>4, <2>5, <2>6 DEF LogoutDelete
<1>4. ASSUME NEW m \in Record, LogoutFails(r, m) PROVE RemovalInv'
  <2> DEFINE found == IF m = "session" THEN req[r].found \ Sessions ELSE req[r].found
             todo == req[r].todo \ {m}
  <2>1. /\ Advance(r, todo, found, TRUE) /\ req[r].op = "logout"
        /\ UNCHANGED <<backend, now, raced, item, list, revoked, left>>
    BY <1>4 DEF LogoutFails, store
  <2>2. todo \in SUBSET Record /\ found \in SUBSET Record
    BY AdvanceArguments
  <2> HIDE DEF found, todo
  <2> QED BY <2>1, <2>2, FailureKeeps
<1> QED BY <1>1, <1>2, <1>3, <1>4 DEF LogoutStep

LEMMA ClientKeeps ==
    ASSUME TypeOK, TypeOK', RemovalInv, NEW r \in Req, ClientStep(r)
    PROVE  RemovalInv'
<1>0. req \in [Req -> Request] /\ req[r] \in Request
  BY DEF TypeOK
<1>1. UNCHANGED <<backend, now, raced, item, list, revoked, out, left>>
  BY DEF ClientStep, CreateClient, DeleteClient, FindClient, WriteClient, ChangeClient, store, history
<1>2. CASE req' = req
  <2>1. \A m : LogoutRemoves(m)' <=> LogoutRemoves(m)
    BY <1>1 DEF LogoutRemoves, Recognised
  <2>2. \A q \in Req : Pending(q)' = Pending(q) /\ Excused(q)' = Excused(q)
    BY <1>1, <1>2 DEF Pending, Excused
  <2> QED BY <1>1, <1>2, <2>1, <2>2
      DEF RemovalInv, Lifetimes, Forms, ListCovers, KnownPending, OutRemoved, GrantRevocationComplete
<1>3. CASE req' = [req EXCEPT ![r] = IdleReq]
  BY <1>0, <1>1, <1>3, IdleFields, Started
<1>4. ASSUME NEW op \in {"active", "secret"}, ChangeClient(r, op) PROVE RemovalInv'
  <2> DEFINE q == [IdleReq EXCEPT !.op = op, !.pc = "find", !.new = secrets + 1]
  <2>1. req' = [req EXCEPT ![r] = q]
    BY <1>4 DEF ChangeClient, Begin
  <2>2. q.op = op /\ q.known = {} /\ q.failed = FALSE
    BY DEF IdleReq
  <2> HIDE DEF q
  <2> QED BY <1>0, <1>1, <2>1, <2>2, Started
<1>5. CASE FindClient(r) /\ client.there
  <2> DEFINE q == [req[r] EXCEPT !.pc = "write", !.cl = client]
  <2>1. req' = [req EXCEPT ![r] = q]
    BY <1>0, <1>5 DEF FindClient
  <2>2. /\ q.op = req[r].op /\ q.life = req[r].life /\ q.at = req[r].at /\ q.todo = req[r].todo
        /\ q.found = req[r].found /\ q.known = req[r].known /\ q.failed = req[r].failed
    BY <1>0 DEF Request
  <2> HIDE DEF q
  <2>3. req'[r] = q /\ \A p \in Req : p # r => req'[p] = req[p]
    BY <1>0, <2>1
  <2>4. Pending(r)' = Pending(r) /\ Excused(r)' = Excused(r)
    BY <1>1, <2>2, <2>3 DEF Pending, Excused
  <2>5. ~req'[r].failed => \A m \in req'[r].known :
            (req'[r].op = "logout" => LogoutRemoves(m)) =>
                m \in Pending(r)' \cup Excused(r)' \/ item[m].st # "stored"
    BY <2>2, <2>3, <2>4 DEF RemovalInv, KnownPending
  <2>6. /\ req'[r].op = "save" => req'[r].life \in 1..MaxLife /\ req'[r].at <= now
        /\ req'[r].failed => req'[r].op = "logout"
        /\ req'[r].op = "revoke" /\ backend = "redis" => req'[r].todo = {}
        /\ req'[r].op = "revoke" => list.of \subseteq req'[r].found \cup raced
    <3>1. /\ req[r].op = "save" => req[r].life \in 1..MaxLife /\ req[r].at <= now
          /\ req[r].failed => req[r].op = "logout"
          /\ req[r].op = "revoke" /\ backend = "redis" => req[r].todo = {}
      BY DEF RemovalInv, Lifetimes, Forms
    <3>2. req[r].op = "revoke" => list.of \subseteq req[r].found \cup raced
      BY Constants DEF RemovalInv, ListCovers, TypeOK
    <3> QED BY <2>2, <2>3, <3>1, <3>2
  <2> QED BY <1>1, <2>3, <2>5, <2>6, Lesser
<1> QED BY <1>2, <1>3, <1>4, <1>5 DEF ClientStep, CreateClient, DeleteClient, FindClient, WriteClient, End

LEMMA TickKeeps ==
    ASSUME TypeOK, TypeOK', RemovalInv, Tick
    PROVE  RemovalInv'
<1> DEFINE dead == {m \in Record : item[m].exp <= now + 1}
<1>1. /\ UNCHANGED <<backend, raced, revoked, out, req>> /\ now' = now + 1 /\ Drop(dead)
      /\ list' = IF list.exp <= now + 1 THEN NoList ELSE list
  BY DEF Tick
<1>2. \A m \in Record : item'[m].st = "stored" =>
          item[m].st = "stored" /\ item'[m] = item[m] /\ item[m].exp > now + 1
  <2>1. \A m \in Record : m \notin dead => item[m].exp > now + 1
    BY Constants DEF TypeOK
  <2> HIDE DEF dead
  <2> QED BY <1>1, <2>1, Drops
<1>2a. \A m \in Record : m \in left /\ item'[m].st = "stored" => m \in left'
  <2> HIDE DEF dead
  <2> QED BY <1>1, DropLess
<1> HIDE DEF dead
<1>3. /\ now \in Nat /\ MaxLife \in Nat /\ \A m \in Record : item[m].exp \in Nat
      /\ \A q \in Req : req[q].at \in Nat
  BY Constants DEF TypeOK, Request
<1>4. Lifetimes'
  BY <1>1, <1>2, <1>3 DEF RemovalInv, Lifetimes
<1>5. ListCovers'
  <2>1. CASE list.exp <= now + 1
    <3>1. backend = "redis" => \A m \in Tokens \ raced : item'[m].st # "stored"
      BY <1>2, <1>3, <2>1, Constants DEF RemovalInv, ListCovers, TypeOK
    <3> QED BY <1>1, <2>1, <3>1, Constants DEF ListCovers
  <2>2. CASE ~(list.exp <= now + 1)
    <3>1. list' = list
      BY <1>1, <2>2
    <3> QED BY <1>1, <1>2, <3>1, Constants DEF RemovalInv, ListCovers
  <2> QED BY <2>1, <2>2
<1>6. \A m : LogoutRemoves(m)' <=> LogoutRemoves(m)
  BY <1>1 DEF LogoutRemoves, Recognised
<1>7. \A q \in Req : Pending(q)' = Pending(q) /\ req[q].known \subseteq Record
  BY <1>1 DEF Pending, TypeOK, Request
<1>8. KnownPending' /\ Forms'
  <2>1. \A q \in Req, m \in Record : m \in Excused(q) /\ item'[m].st = "stored" => m \in Excused(q)'
    BY <1>1, <1>2a DEF Excused
  <2> QED BY <1>1, <1>2, <1>6, <1>7, <2>1 DEF RemovalInv, KnownPending, Forms
<1>9. OutRemoved' /\ GrantRevocationComplete'
  BY <1>1, <1>2, <1>2a, <1>6 DEF RemovalInv, OutRemoved, GrantRevocationComplete, TypeOK
<1> QED BY <1>4, <1>5, <1>8, <1>9 DEF RemovalInv

LEMMA StillKeeps ==
    ASSUME RemovalInv, UNCHANGED vars
    PROVE  RemovalInv'
<1>1. UNCHANGED <<backend, now, raced, item, list, revoked, out, left, req>>
  BY DEF vars, store, history
<1>2. \A m : LogoutRemoves(m)' <=> LogoutRemoves(m)
  BY <1>1 DEF LogoutRemoves, Recognised
<1>3. \A q \in Req : Pending(q)' = Pending(q) /\ Excused(q)' = Excused(q)
  BY <1>1 DEF Pending, Excused
<1> QED BY <1>1, <1>2, <1>3
    DEF RemovalInv, Lifetimes, Forms, ListCovers, KnownPending, OutRemoved, GrantRevocationComplete

LEMMA RemovalStep ==
    ASSUME TypeOK, TypeOK', RemovalInv, [Next]_vars
    PROVE  RemovalInv'
<1>1. ASSUME NEW r \in Req, SaveStep(r) PROVE RemovalInv'
  BY <1>1, SaveKeeps, UpsertKeeps
<1> QED BY <1>1, UseKeeps, SessionKeeps, LogoutKeeps, ClientKeeps, TickKeeps, StillKeeps DEF Next

LEMMA RemovalInit ==
    ASSUME Init
    PROVE  RemovalInv
<1>1. PICK g \in 1..MaxLife :
          item = [m \in Record |->
                    IF m = "grant" THEN [st |-> "stored", exp |-> g, consumed |-> FALSE]
                    ELSE IF area = "account" /\ m # "device"
                    THEN [st |-> "stored", exp |-> MaxLife, consumed |-> FALSE] ELSE Absent]
  BY DEF Init
<1>2. \A m \in Record : item[m].st = "stored" =>
          /\ item[m].exp \in 1..MaxLife
          /\ m # "grant" => area = "account" /\ m # "device" /\ item[m].exp = MaxLife
  BY <1>1, Constants, StoreAssumption
<1>3. Lifetimes /\ Forms
  BY <1>2, IdleFields, Constants DEF Init, Lifetimes, Forms
<1>4. ListCovers
  <2>1. ASSUME backend = "redis", NEW m \in Tokens, item[m].st = "stored"
        PROVE  m \in list.of /\ item[m].exp <= list.exp
    <3>1. area = "account" /\ m \in {"access", "refresh"} /\ item[m].exp = MaxLife
      BY <1>2, <2>1, Constants DEF Tokens
    <3>2. list = [of |-> {"access", "refresh"}, exp |-> MaxLife]
      BY <2>1, <3>1 DEF Init
    <3> QED BY <3>1, <3>2, Constants
  <2>2. list.exp # Never
    BY Constants, StoreAssumption DEF Init, Never
  <2>3. \A r \in Req : req[r].op # "revoke"
    BY IdleFields DEF Init
  <2> QED BY <2>1, <2>2, <2>3 DEF ListCovers
<1>5. KnownPending /\ OutRemoved /\ GrantRevocationComplete
  BY IdleFields DEF Init, KnownPending, OutRemoved, GrantRevocationComplete
<1> QED BY <1>3, <1>4, <1>5 DEF RemovalInv

LEMMA Removal == Spec => []RemovalInv
BY RemovalInit, RemovalStep, StoreTypes, PTL DEF Spec

\* revokeByGrantId of the adapters: every token of the grant that was stored when the
\* revocation began is gone when it ends.  ListCovers says why the list of Redis
\* names them all and outlives them; KnownPending why cleaning the models one by one
\* is enough in the other stores.
THEOREM RevocationRemovesTokens == Spec => []GrantRevocationComplete
BY Removal, PTL DEF RemovalInv

\* logoutOIDC and the session pages: what the account had is of no use any more, but for
\* what was saved again and what a read or a deletion passed over in silence.
THEOREM LogoutEndsUse == Spec => []LogoutUnusable
<1>1. TypeOK /\ RemovalInv => LogoutUnusable
  <2> SUFFICES ASSUME TypeOK, RemovalInv, NEW m \in out, Usable(m)
               PROVE  /\ m \in left \/ ~LogoutRemoves(m)
                      /\ m \in Tokens => "grant" \in left \/ "grant" \notin out
    BY DEF LogoutUnusable
  <2>1. m \in Record /\ item[m].st = "stored"
    BY DEF TypeOK, Usable, Stored
  <2>2. m \in left \/ ~LogoutRemoves(m)
    BY <2>1 DEF RemovalInv, OutRemoved
  <2>3. LogoutRemoves("grant")
    BY DEF LogoutRemoves, LogoutCleans, Recognised, Consumable
  <2>4. m \in Tokens => "grant" \in left \/ "grant" \notin out
    BY <2>3 DEF Usable, Stored, RemovalInv, OutRemoved
  <2> QED BY <2>2, <2>4
<1> QED BY <1>1, Removal, StoreTypes, PTL

=============================================================================
