----------------------------- MODULE KeyRotation -----------------------------
(***************************************************************************)
(* Rotation, promotion and retirement of one tenant's signing keys, as run *)
(* concurrently by the admin panel, the Management API and the BullMQ      *)
(* worker (DBKeyStore and its callers).                                    *)
(*                                                                         *)
(* A handler is one request or job in flight.  Each await on the database  *)
(* or on Redis ends a step, so between two steps of a handler any other    *)
(* handler, in the same process or in another, may run; and the process    *)
(* may crash.  The in-memory rotation guard belongs to a process.          *)
(***************************************************************************)
EXTENDS JwksKeys

CONSTANTS
    Handler,        \* requests and jobs that can be in flight at once
    Proc,           \* operating-system processes: web servers and workers
    WorkerProc,     \* those that run background jobs
    ProcOf,         \* the process a handler runs in
    CanCrash,       \* the processes that may die
    MaxJob,         \* bound: job slots of the background-tasks queue
    Attempts,       \* DEFAULT_JOB_OPTIONS.attempts
    DelayedPromotion,\* promotion_delay_ms > 0
    Operation       \* the entry points this deployment uses

ASSUME RotationAssumption ==
    /\ WorkerProc \subseteq Proc
    /\ ProcOf \in [Handler -> Proc]
    /\ CanCrash \subseteq Proc
    /\ MaxJob \in Nat /\ Attempts \in Nat \ {0}
    /\ DelayedPromotion \in BOOLEAN
    /\ Operation \subseteq {"initialize", "admin", "api", "retireExpired", "retireKey", "cron"}

VARIABLES
    keys,           \* the jwks_keys rows of the tenant
    batches,        \* key sets generated so far; names the next one
    now,            \* wall clock
    op,             \* op[h]: what handler h is doing
    lastRotationAt, \* lastRotationAtByTenant of each process: {} or {t}
    jobs            \* the background-tasks queue

vars == <<keys, batches, now, op, lastRotationAt, jobs>>

Job == 1..MaxJob
NoJob == 0
NoKid == <<>>

OpKind == {"none", "initialize", "admin", "api", "worker", "retireKey"}
Pc == {"idle", "insertInitial", "guard", "insert", "demote", "publishRotated",
       "schedule", "promote", "publishPromoted", "publishApi", "retire",
       "retireCheck", "retireByKid"}

IdleOp == [kind |-> "none", pc |-> "idle", batch |-> 0, kid |-> NoKid, job |-> NoJob]
NoBullJob == [kind |-> "none", left |-> 0, running |-> FALSE]

Idle(h) == op[h].pc = "idle"
OnWorker(h) == ProcOf[h] \in WorkerProc

\* Bound: a rotation starts only while a batch number is left for it.
BatchLeft ==
    batches + Cardinality({h \in Handler : op[h].pc \in {"insertInitial", "guard", "insert"}})
        < MaxBatch

\* guardRapidRotation throws.
RapidRotation(p) == \E t \in lastRotationAt[p] : now < t + MinRotationInterval

\* BullMQ: a failed attempt is retried until none is left.  External: the
\* queue keeps the job, the code only sets attempts.
FailedJob(q, j) ==
    IF j = NoJob THEN q
    ELSE [q EXCEPT ![j] = IF q[j].left <= 1 THEN NoBullJob
                          ELSE [q[j] EXCEPT !.left = q[j].left - 1, !.running = FALSE]]

FinishedJob(q, j) == IF j = NoJob THEN q ELSE [q EXCEPT ![j] = NoBullJob]

GoTo(h, pc) == op' = [op EXCEPT ![h].pc = pc]

Return(h) ==
    /\ op' = [op EXCEPT ![h] = IdleOp]
    /\ jobs' = FinishedJob(jobs, op[h].job)

Throw(h) ==
    /\ op' = [op EXCEPT ![h] = IdleOp]
    /\ jobs' = FailedJob(jobs, op[h].job)

Init ==
    /\ keys = EmptyTable
    /\ batches = 0
    /\ now = 0
    /\ op = [h \in Handler |-> IdleOp]
    /\ lastRotationAt = [p \in Proc |-> {}]
    /\ jobs = [j \in Job |-> NoBullJob]

-----------------------------------------------------------------------------
(* DBKeyStore.initialize, run by provider creation and worker start-up.    *)

\* countCurrent = 0; otherwise initialize returns and nothing changes.
StartInitialize(h) ==
    /\ "initialize" \in Operation
    /\ Idle(h) /\ BatchLeft
    /\ Current(keys) = {}
    /\ op' = [op EXCEPT ![h] = [IdleOp EXCEPT !.kind = "initialize", !.pc = "insertInitial"]]
    /\ UNCHANGED <<keys, batches, now, lastRotationAt, jobs>>

\* insertInitial: a unique violation means another process was first.
InsertInitial(h) ==
    /\ op[h].pc = "insertInitial"
    /\ batches < MaxBatch
    /\ LET t == InsertBatch(keys, batches + 1, TRUE, now) IN
       \/ /\ UniqueIndexHolds(t)
          /\ keys' = t
          /\ batches' = batches + 1
       \/ /\ ~UniqueIndexHolds(t)
          /\ UNCHANGED <<keys, batches>>
    /\ Return(h)
    /\ UNCHANGED <<now, lastRotationAt>>

-----------------------------------------------------------------------------
(* DBKeyStore.rotate and promoteKeys, and the three callers around them.   *)

\* POST /admin/jwks/rotate and POST /api/v1/jwks/rotate: the guard is checked
\* before the first await.
StartRotate(h, kind) ==
    /\ kind \in Operation
    /\ Idle(h) /\ ~OnWorker(h) /\ BatchLeft
    /\ ~RapidRotation(ProcOf[h])
    /\ op' = [op EXCEPT ![h] = [IdleOp EXCEPT !.kind = kind, !.pc = "insert"]]
    /\ UNCHANGED <<keys, batches, now, lastRotationAt, jobs>>

\* generateAndStoreKeys(tenant, false)
Insert(h) ==
    /\ op[h].pc = "insert"
    /\ batches < MaxBatch
    /\ keys' = InsertBatch(keys, batches + 1, FALSE, now)
    /\ batches' = batches + 1
    /\ op' = [op EXCEPT ![h].pc = "demote", ![h].batch = batches + 1]
    /\ UNCHANGED <<now, lastRotationAt, jobs>>

\* markPromotedActiveExpiring, then the guard is armed.  The API controller
\* promotes at once; the others announce phase 1 first.
Demote(h) ==
    /\ op[h].pc = "demote"
    /\ keys' = MarkPromotedActiveExpiring(keys, now)
    /\ lastRotationAt' = [lastRotationAt EXCEPT ![ProcOf[h]] = {now}]
    /\ GoTo(h, IF op[h].kind = "api" THEN "promote" ELSE "publishRotated")
    /\ UNCHANGED <<batches, now, jobs>>

\* onRotated / publishJwksEvent('rotated')
PublishRotated(h) ==
    /\ op[h].pc = "publishRotated"
    /\ GoTo(h, IF op[h].kind = "worker" /\ DelayedPromotion THEN "schedule" ELSE "promote")
    /\ UNCHANGED <<keys, batches, now, lastRotationAt, jobs>>

\* Mutant: the promotion job inherits the attempts its rotation had left.
ScheduleInherits(h) ==
    /\ op[h].pc = "schedule"
    /\ op' = [op EXCEPT ![h] = IdleOp]
    /\ jobs' = [jobs EXCEPT ![op[h].job] =
                    [kind |-> "promote", left |-> Attempts + @.left, running |-> FALSE]]
    /\ UNCHANGED <<keys, batches, now, lastRotationAt>>

\* scheduleDelayedPromotion, and the rotation job completes: the promotion job
\* takes over its slot.
Schedule(h) ==
    /\ op[h].pc = "schedule"
    /\ op' = [op EXCEPT ![h] = IdleOp]
    /\ jobs' = [jobs EXCEPT ![op[h].job] =
                    [kind |-> "promote", left |-> Attempts, running |-> FALSE]]
    /\ UNCHANGED <<keys, batches, now, lastRotationAt>>

\* Mutant: a refused promotion is requeued without spending an attempt.
PromoteForever(h) ==
    /\ op[h].pc = "promote"
    /\ \/ /\ UniqueIndexHolds(PromoteUnpromotedActive(keys))
          /\ keys' = PromoteUnpromotedActive(keys)
          /\ GoTo(h, IF op[h].kind = "api" THEN "publishApi" ELSE "publishPromoted")
          /\ UNCHANGED jobs
       \/ /\ ~UniqueIndexHolds(PromoteUnpromotedActive(keys))
          /\ op' = [op EXCEPT ![h] = IdleOp]
          /\ jobs' = IF op[h].job = NoJob THEN jobs
                     ELSE [jobs EXCEPT ![op[h].job].running = FALSE]
          /\ UNCHANGED keys
    /\ UNCHANGED <<batches, now, lastRotationAt>>

\* promoteUnpromotedActive: the statement fails as a whole on the unique index.
Promote(h) ==
    /\ op[h].pc = "promote"
    /\ \/ /\ UniqueIndexHolds(PromoteUnpromotedActive(keys))
          /\ keys' = PromoteUnpromotedActive(keys)
          /\ GoTo(h, IF op[h].kind = "api" THEN "publishApi" ELSE "publishPromoted")
          /\ UNCHANGED jobs
       \/ /\ ~UniqueIndexHolds(PromoteUnpromotedActive(keys))
          /\ Throw(h)
          /\ UNCHANGED keys
    /\ UNCHANGED <<batches, now, lastRotationAt>>

\* onPromoted / publishJwksEvent('promoted')
PublishPromoted(h) ==
    /\ op[h].pc = "publishPromoted"
    /\ GoTo(h, "retire")
    /\ UNCHANGED <<keys, batches, now, lastRotationAt, jobs>>

\* The API controller publishes on the bare channel 'jwks:rotated'.
PublishApi(h) ==
    /\ op[h].pc = "publishApi"
    /\ Return(h)
    /\ UNCHANGED <<keys, batches, now, lastRotationAt>>

\* retireExpiredKeys at the end of a rotation or promotion.
Retire(h) ==
    /\ op[h].pc = "retire"
    /\ keys' = RetireExpired(keys, now)
    /\ Return(h)
    /\ UNCHANGED <<batches, now, lastRotationAt>>

\* POST /admin/jwks/retire-expired, POST /api/v1/jwks/retire-expired
RetireExpiredNow(h) ==
    /\ "retireExpired" \in Operation
    /\ Idle(h) /\ ~OnWorker(h)
    /\ keys' = RetireExpired(keys, now)
    /\ UNCHANGED <<batches, now, op, lastRotationAt, jobs>>

-----------------------------------------------------------------------------
(* DELETE /api/v1/jwks/:kid: the controller checks, retireKey checks again  *)
(* on a fresh read, and only then is the row updated.                      *)

StartRetireKey(h, k) ==
    /\ "retireKey" \in Operation
    /\ Idle(h) /\ ~OnWorker(h)
    /\ keys[k].status \in {"active", "expiring"}
    /\ ~IsLastPromotedActive(keys, k)
    /\ op' = [op EXCEPT ![h] = [IdleOp EXCEPT !.kind = "retireKey", !.pc = "retireCheck", !.kid = k]]
    /\ UNCHANGED <<keys, batches, now, lastRotationAt, jobs>>

RetireCheck(h) ==
    /\ op[h].pc = "retireCheck"
    /\ op' = [op EXCEPT ![h] =
                IF keys[op[h].kid].status = "retired" \/ IsLastPromotedActive(keys, op[h].kid)
                THEN IdleOp ELSE [op[h] EXCEPT !.pc = "retireByKid"]]
    /\ UNCHANGED <<keys, batches, now, lastRotationAt, jobs>>

RetireApply(h) ==
    /\ op[h].pc = "retireByKid"
    /\ keys' = RetireByKid(keys, op[h].kid)
    /\ op' = [op EXCEPT ![h] = IdleOp]
    /\ UNCHANGED <<batches, now, lastRotationAt, jobs>>

-----------------------------------------------------------------------------
(* The worker: jwksRotationHandler and the queue around it.                *)

\* The periodic schedule enqueues a rotation check.
CronFires(j) ==
    /\ "cron" \in Operation
    /\ jobs[j].kind = "none"
    /\ jobs' = [jobs EXCEPT ![j] = [kind |-> "rotate", left |-> Attempts, running |-> FALSE]]
    /\ UNCHANGED <<keys, batches, now, op, lastRotationAt>>

\* Full rotation: needsRotation() decides on a first read.
TakeRotationJob(h, j) ==
    /\ Idle(h) /\ OnWorker(h)
    /\ jobs[j].kind = "rotate" /\ ~jobs[j].running
    /\ IF NeedsRotation(keys, now)
       THEN /\ BatchLeft
            /\ op' = [op EXCEPT ![h] = [IdleOp EXCEPT !.kind = "worker", !.pc = "guard", !.job = j]]
            /\ jobs' = [jobs EXCEPT ![j].running = TRUE]
       ELSE /\ jobs' = FinishedJob(jobs, j)
            /\ UNCHANGED op
    /\ UNCHANGED <<keys, batches, now, lastRotationAt>>

\* handlePromotionPhase
TakePromotionJob(h, j) ==
    /\ Idle(h) /\ OnWorker(h)
    /\ jobs[j].kind = "promote" /\ ~jobs[j].running
    /\ op' = [op EXCEPT ![h] = [IdleOp EXCEPT !.kind = "worker", !.pc = "promote", !.job = j]]
    /\ jobs' = [jobs EXCEPT ![j].running = TRUE]
    /\ UNCHANGED <<keys, batches, now, lastRotationAt>>

\* rotate() starts after the awaits of needsRotation and reportProgress.
WorkerGuard(h) ==
    /\ op[h].pc = "guard"
    /\ \/ /\ RapidRotation(ProcOf[h])
          /\ Throw(h)
       \/ /\ ~RapidRotation(ProcOf[h])
          /\ GoTo(h, "insert")
          /\ UNCHANGED jobs
    /\ UNCHANGED <<keys, batches, now, lastRotationAt>>

-----------------------------------------------------------------------------
(* The environment.                                                        *)

\* A process dies: its requests vanish, its rotation guard is forgotten, and
\* the queue counts a stalled job as a failed attempt.
Crash(p) ==
    /\ p \in CanCrash
    /\ \/ lastRotationAt[p] # {}
       \/ \E h \in Handler : ProcOf[h] = p /\ ~Idle(h)
    /\ op' = [h \in Handler |-> IF ProcOf[h] = p THEN IdleOp ELSE op[h]]
    /\ lastRotationAt' = [lastRotationAt EXCEPT ![p] = {}]
    /\ jobs' = [j \in Job |->
                    IF \E h \in Handler : ProcOf[h] = p /\ op[h].job = j
                    THEN FailedJob(jobs, j)[j] ELSE jobs[j]]
    /\ UNCHANGED <<keys, batches, now>>

Tick ==
    /\ now < MaxTime
    /\ now' = now + 1
    /\ UNCHANGED <<keys, batches, op, lastRotationAt, jobs>>

\* Everything a handler does once it has started, but for announcing.
SilentStep(h) ==
    \/ InsertInitial(h) \/ WorkerGuard(h) \/ Insert(h) \/ Demote(h) \/ Schedule(h)
    \/ Promote(h) \/ PublishApi(h) \/ Retire(h) \/ RetireCheck(h) \/ RetireApply(h)

Announce(h) == PublishRotated(h) \/ PublishPromoted(h)

TakeJob(h) == \E j \in Job : TakeRotationJob(h, j) \/ TakePromotionJob(h, j)

Arrival(h) ==
    \/ StartInitialize(h)
    \/ \E kind \in {"admin", "api"} : StartRotate(h, kind)
    \/ RetireExpiredNow(h)
    \/ \E k \in Kid : StartRetireKey(h, k)
    \/ TakeJob(h)

Environment ==
    \/ \E j \in Job : CronFires(j)
    \/ \E p \in Proc : Crash(p)
    \/ Tick

QuietStep == Environment \/ \E h \in Handler : SilentStep(h) \/ Arrival(h)

Next == QuietStep \/ \E h \in Handler : Announce(h)

Spec == Init /\ [][Next]_vars

\* A process that does not crash finishes its awaits, and the queue hands jobs
\* out in the order they became due, so a waiting job is not passed over for
\* ever; nothing forces requests, cron ticks, crashes or the clock.
Fairness ==
    \A h \in Handler :
        /\ WF_vars(SilentStep(h) \/ Announce(h))
        /\ \A j \in Job : SF_vars(TakePromotionJob(h, j))

FairSpec == Spec /\ Fairness

-----------------------------------------------------------------------------
(* Properties.                                                             *)

\* The state the handlers keep has its type.
TypeOK ==
    /\ keys \in [Kid -> Row]
    /\ batches \in 0..MaxBatch
    /\ now \in Time
    /\ op \in [Handler -> [kind: OpKind, pc: Pc, batch: 0..MaxBatch,
                           kid: Kid \cup {NoKid}, job: Job \cup {NoJob}]]
    /\ lastRotationAt \in [Proc -> SUBSET Time]
    /\ jobs \in [Job -> [kind: {"none", "rotate", "promote"},
                         left: 0..Attempts, running: BOOLEAN]]

\* An operator has retired some key by its kid: the only way to a retired row
\* that is not promoted.
RetiredByKid == \E k \in Kid : keys[k].status = "retired" /\ ~keys[k].promoted

\* "Generate first so a crash leaves both old and new keys usable; demoting
\* first could leave the provider without an active signing key"
\* (db-key-store.ts rotate).  Once the first key set is stored, every algorithm
\* has an active key in every state: whatever rotations, promotions and sweeps
\* overlap and wherever a process dies, unless an operator retired keys by kid.
ActiveKeyAvailable ==
    (batches > 0 /\ ~RetiredByKid) =>
        \A a \in Alg : \E k \in Kid : AlgOf(k) = a /\ IsActive(keys, k)

\* Someone may still run phase 2.
Promoting ==
    \/ \E h \in Handler : op[h].pc \in {"publishRotated", "schedule", "promote"}
    \/ \E j \in Job : jobs[j].kind = "promote"

\* Why demoting is safe between the two awaits of rotate: the batch a rotation
\* has just inserted is its own and still unpromoted, and a promotion running
\* at the same time cannot promote it, because a second active key of the
\* algorithm makes the unique index refuse (unless keys were retired by kid).
DemotionSafe ==
    /\ Promoting => batches > 0
    /\ \A k \in Kid : k[1] > batches => keys[k].status = "absent"
    /\ \A h \in Handler : op[h].pc = "demote" =>
        /\ op[h].batch \in 1..batches
        /\ \A i \in Handler : op[i].pc = "demote" /\ op[i].batch = op[h].batch => i = h
        /\ ~RetiredByKid => \A a \in Alg :
              /\ IsUnpromotedActive(keys, <<op[h].batch, a>>)
              /\ Promoting => \E k \in Kid : AlgOf(k) = a /\ IsActive(keys, k)
                                             /\ k[1] # op[h].batch

\* A promotion job is not retried for ever: with attempts spent by failures and
\* crashes it is done or given up (jobs/config.ts attempts, BullMQ retries).
PromotionJobsSettle ==
    \A j \in Job : jobs[j].kind = "promote" ~> jobs[j].kind # "promote"

\* A rotation once begun is finished: the keys of phase 1 do not stay
\* unpromoted.  "a delayed BullMQ job is scheduled for Phase 2 (survives
\* restarts)" (jwks-rotation.handler.ts).
RotationCompletes ==
    \A k \in Kid : IsUnpromotedActive(keys, k) ~> ~IsUnpromotedActive(keys, k)

\* The rows, read as the life of each key.
StageOf(r) ==
    CASE r.status = "active" -> IF r.promoted THEN "signing" ELSE "published"
      [] OTHER -> r.status

Lifecycle == INSTANCE KeyLifecycle WITH
    Key <- Kid, AlgOfKey <- AlgOf, Window <- Overlap,
    stage <- [k \in Kid |-> StageOf(keys[k])],
    since <- [k \in Kid |-> keys[k].rotated_at],
    clock <- now

\* The key store, its three callers and the operator's retirements implement
\* the key life cycle: one-way, one signer per algorithm, and a key that has
\* signed is not retired before the overlap window is over.
ImplementsLifecycle == Lifecycle!LSpec

\* Why: the unique index holds in every state, and a batch that is not generated
\* yet has no row.
OneSignerStored == UniqueIndexHolds(keys)
UnbornAbsent == \A k \in Kid : k[1] > batches => keys[k] = NoRow

\* Phase 2 "promote unpromoted active keys to signing priority"
\* (key-store.interface.ts promoteKeys) is never refused by the unique index.
PromotionNeverRefused ==
    \A h \in Handler : op[h].pc = "promote" =>
        UniqueIndexHolds(PromoteUnpromotedActive(keys))

\* "New keys are available for verification but NOT used for signing until
\* promoted." (key-store.interface.ts rotate): while a promoted key of the
\* algorithm is published, the key getJWKS lists first, which the provider
\* signs with, is not an unpromoted one.
UnpromotedNeverSigns ==
    \A a \in Alg, k \in Kid :
        (/\ k \in SigningCandidates(keys, a)
         /\ \E j \in Current(keys) : AlgOf(j) = a /\ keys[j].promoted)
            => keys[k].promoted

\* "Implementations must preserve at least one promoted active signing key."
\* (key-store.interface.ts retireKey): a retirement by kid does not take the
\* last one away.
RetireKeepsSigner ==
    [][(\E h \in Handler : RetireApply(h)) /\ (\E k \in Kid : IsPromotedActive(keys, k))
        => \E k \in Kid : IsPromotedActive(keys', k)]_vars
=============================================================================
