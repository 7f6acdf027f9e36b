-------------------------- MODULE KeyRotationProofs --------------------------
(***************************************************************************)
(* Proofs about KeyRotation for every set of algorithms, handlers and      *)
(* processes, every queue size and every bound.                            *)
(***************************************************************************)
EXTENDS KeyRotation, TLAPS

-----------------------------------------------------------------------------
(* Types of the table operators.                                           *)

\* A table of rows is what the table operators make of a table of rows.
LEMMA InsertBatchType ==
    ASSUME NEW t \in [Kid -> Row], NEW n \in Time, NEW b, NEW p \in BOOLEAN
    PROVE  InsertBatch(t, b, p, n) \in [Kid -> Row]
BY JwksAssumption DEF InsertBatch, Row, KeyStatus, Time

\* The same for the updates.
LEMMA TableTypes ==
    ASSUME NEW t \in [Kid -> Row], NEW n \in Time, NEW kid
    PROVE  /\ EmptyTable \in [Kid -> Row]
           /\ MarkPromotedActiveExpiring(t, n) \in [Kid -> Row]
           /\ PromoteUnpromotedActive(t) \in [Kid -> Row]
           /\ RetireExpired(t, n) \in [Kid -> Row]
           /\ RetireByKid(t, kid) \in [Kid -> Row]
<1>1. 0 \in Time
  BY JwksAssumption DEF Time
<1>2. EmptyTable \in [Kid -> Row]
  BY <1>1 DEF EmptyTable, NoRow, Row, KeyStatus
<1>4. MarkPromotedActiveExpiring(t, n) \in [Kid -> Row]
  BY DEF MarkPromotedActiveExpiring, Row, KeyStatus
<1>5. PromoteUnpromotedActive(t) \in [Kid -> Row]
  BY DEF PromoteUnpromotedActive, Row, KeyStatus
<1>6. RetireExpired(t, n) \in [Kid -> Row]
  BY DEF RetireExpired, Row, KeyStatus
<1>7. RetireByKid(t, kid) \in [Kid -> Row]
  BY DEF RetireByKid, Row, KeyStatus
<1> QED BY <1>2, <1>4, <1>5, <1>6, <1>7

OpType == [kind: OpKind, pc: Pc, batch: 0..MaxBatch, kid: Kid \cup {NoKid}, job: Job \cup {NoJob}]
JobType == [kind: {"none", "rotate", "promote"}, left: 0..Attempts, running: BOOLEAN]

\* A job that fails, stalls or finishes leaves a queue of jobs.
LEMMA QueueTypes ==
    ASSUME NEW q \in [Job -> JobType], NEW j \in Job \cup {NoJob}
    PROVE  /\ NoBullJob \in JobType
           /\ FailedJob(q, j) \in [Job -> JobType]
           /\ FinishedJob(q, j) \in [Job -> JobType]
<1>1. NoBullJob \in JobType
  BY RotationAssumption DEF NoBullJob, JobType
<1>2. ASSUME j # NoJob PROVE FailedJob(q, j) \in [Job -> JobType]
  <2>1. j \in Job /\ q[j] \in JobType
    BY <1>2 
  <2>2. CASE q[j].left <= 1
    BY <2>1, <2>2, <1>1, <1>2 DEF FailedJob
  <2>3. CASE ~(q[j].left <= 1)
    <3>1. q[j].left \in 0..Attempts /\ q[j].left - 1 \in 0..Attempts
      BY <2>1, <2>3, RotationAssumption DEF JobType
    <3>2. [q[j] EXCEPT !.left = q[j].left - 1, !.running = FALSE] \in JobType
      BY <2>1, <3>1 DEF JobType
    <3> QED BY <2>1, <2>3, <3>2, <1>2 DEF FailedJob
  <2> QED BY <2>2, <2>3
<1>3. FailedJob(q, j) \in [Job -> JobType]
  BY <1>2 DEF FailedJob
<1>4. FinishedJob(q, j) \in [Job -> JobType]
  BY <1>1 DEF FinishedJob
<1> QED BY <1>1, <1>3, <1>4

\* A handler at rest has the type of a handler.
LEMMA IdleOpType == IdleOp \in OpType
BY JwksAssumption DEF IdleOp, OpType, OpKind, Pc

\* Returning or throwing (the end of a request or of a BullMQ job) keeps the
\* types of the handlers and of the queue.
LEMMA ReturnType ==
    ASSUME TypeOK, NEW h \in Handler, Return(h) \/ Throw(h)
    PROVE  op' \in [Handler -> OpType] /\ jobs' \in [Job -> JobType]
<1>1. op[h].job \in Job \cup {NoJob}
  BY DEF TypeOK
<1>2. jobs \in [Job -> JobType] /\ op \in [Handler -> OpType]
  BY DEF TypeOK, JobType, OpType
<1> QED BY <1>1, <1>2, QueueTypes, IdleOpType DEF Return, Throw

\* Every reachable state of the key store, its callers and the queue has its
\* type, for all algorithms, handlers, processes and bounds.
THEOREM TypeInvariance == Spec => []TypeOK
<1>1. Init => TypeOK
  <2> SUFFICES ASSUME Init PROVE TypeOK OBVIOUS
  <2>1. keys \in [Kid -> Row]
    <3>1. 0 \in Time
      BY JwksAssumption DEF Time
    <3> QED BY <3>1 DEF Init, EmptyTable, NoRow, Row, KeyStatus
  <2>2. op \in [Handler -> OpType] BY IdleOpType DEF Init
  <2>3. jobs \in [Job -> JobType] BY RotationAssumption DEF Init, NoBullJob, JobType
  <2>4. batches \in 0..MaxBatch /\ now \in Time /\ lastRotationAt \in [Proc -> SUBSET Time]
    BY JwksAssumption DEF Init, Time
  <2> QED BY <2>1, <2>2, <2>3, <2>4 DEF TypeOK, OpType, JobType
<1>2. TypeOK /\ [Next]_vars => TypeOK'
  <2> SUFFICES ASSUME TypeOK, [Next]_vars PROVE TypeOK' OBVIOUS
  <2>0. /\ keys \in [Kid -> Row] /\ batches \in 0..MaxBatch /\ now \in Time
        /\ op \in [Handler -> OpType] /\ jobs \in [Job -> JobType]
        /\ lastRotationAt \in [Proc -> SUBSET Time]
        /\ MaxBatch \in Nat /\ MaxTime \in Nat
    BY JwksAssumption DEF TypeOK, OpType, JobType
  <2>1. ASSUME NEW h \in Handler, StartInitialize(h) PROVE TypeOK'
    BY <2>0, <2>1, IdleOpType DEF StartInitialize, TypeOK, OpType, JobType, OpKind, Pc
  <2>2. ASSUME NEW h \in Handler, InsertInitial(h) PROVE TypeOK'
    <3>0. InsertBatch(keys, batches + 1, TRUE, now) \in [Kid -> Row]
      BY <2>0, InsertBatchType
    <3>2. batches + 1 \in 0..MaxBatch
      BY <2>0, <2>2 DEF InsertInitial
    <3>1. keys' \in [Kid -> Row] /\ batches' \in 0..MaxBatch
      BY <2>0, <2>2, <3>0, <3>2 DEF InsertInitial
    <3> QED BY <2>0, <2>2, <3>1, ReturnType DEF InsertInitial, TypeOK, OpType, JobType
  <2>3. ASSUME NEW h \in Handler, NEW kind \in {"admin", "api"}, StartRotate(h, kind) PROVE TypeOK'
    BY <2>0, <2>3, IdleOpType DEF StartRotate, TypeOK, OpType, JobType, OpKind, Pc
  <2>4. ASSUME NEW h \in Handler, Insert(h) PROVE TypeOK'
    <3>0. InsertBatch(keys, batches + 1, FALSE, now) \in [Kid -> Row]
      BY <2>0, InsertBatchType
    <3>3. batches + 1 \in 0..MaxBatch
      BY <2>0, <2>4 DEF Insert
    <3>1. keys' \in [Kid -> Row] /\ batches' \in 0..MaxBatch
      BY <2>4, <3>0, <3>3 DEF Insert
    <3>4. [op[h] EXCEPT !.pc = "demote", !.batch = batches + 1] \in OpType
      BY <2>0, <3>3 DEF OpType, Pc
    <3>2. op' \in [Handler -> OpType]
      <4>1. op' = [op EXCEPT ![h] = [op[h] EXCEPT !.pc = "demote", !.batch = batches + 1]]
        BY <2>0, <2>4 DEF Insert
      <4> QED BY <2>0, <3>4, <4>1
    <3> QED BY <2>0, <2>4, <3>1, <3>2 DEF Insert, TypeOK, OpType, JobType
  <2>5. ASSUME NEW h \in Handler, Demote(h) PROVE TypeOK'
    <3>1. keys' \in [Kid -> Row]
      BY <2>0, <2>5, TableTypes DEF Demote
    <3>2. op' \in [Handler -> OpType]
      BY <2>0, <2>5 DEF Demote, GoTo, OpType, Pc
    <3>3. lastRotationAt' \in [Proc -> SUBSET Time]
      BY <2>0, <2>5, RotationAssumption DEF Demote
    <3> QED BY <2>0, <2>5, <3>1, <3>2, <3>3 DEF Demote, TypeOK, OpType, JobType
  <2>6. ASSUME NEW h \in Handler, PublishRotated(h) PROVE TypeOK'
    BY <2>0, <2>6 DEF PublishRotated, GoTo, TypeOK, OpType, JobType, Pc
  <2>7. ASSUME NEW h \in Handler, Schedule(h) PROVE TypeOK'
    <3>1. [kind |-> "promote", left |-> Attempts, running |-> FALSE] \in JobType
      BY RotationAssumption DEF JobType
    <3> QED BY <2>0, <2>7, <3>1, IdleOpType DEF Schedule, TypeOK, OpType, JobType
  <2>8. ASSUME NEW h \in Handler, Promote(h) PROVE TypeOK'
    <3>1. keys' \in [Kid -> Row]
      BY <2>0, <2>8, TableTypes DEF Promote
    <3>2. op' \in [Handler -> OpType] /\ jobs' \in [Job -> JobType]
      <4>1. CASE Throw(h) BY <4>1, ReturnType
      <4>2. CASE ~Throw(h)
        BY <2>0, <2>8, <4>2 DEF Promote, GoTo, OpType, Pc
      <4> QED BY <4>1, <4>2
    <3> QED BY <2>0, <2>8, <3>1, <3>2 DEF Promote, TypeOK, OpType, JobType
  <2>9. ASSUME NEW h \in Handler, PublishPromoted(h) PROVE TypeOK'
    BY <2>0, <2>9 DEF PublishPromoted, GoTo, TypeOK, OpType, JobType, Pc
  <2>10. ASSUME NEW h \in Handler, PublishApi(h) PROVE TypeOK'
    BY <2>0, <2>10, ReturnType DEF PublishApi, TypeOK, OpType, JobType
  <2>11. ASSUME NEW h \in Handler, Retire(h) PROVE TypeOK'
    BY <2>0, <2>11, ReturnType, TableTypes DEF Retire, TypeOK, OpType, JobType
  <2>12. ASSUME NEW h \in Handler, RetireExpiredNow(h) PROVE TypeOK'
    BY <2>0, <2>12, TableTypes DEF RetireExpiredNow, TypeOK, OpType, JobType
  <2>13. ASSUME NEW h \in Handler, NEW k \in Kid, StartRetireKey(h, k) PROVE TypeOK'
    BY <2>0, <2>13, IdleOpType DEF StartRetireKey, TypeOK, OpType, JobType, OpKind, Pc
  <2>14. ASSUME NEW h \in Handler, RetireCheck(h) PROVE TypeOK'
    <3>1. [op[h] EXCEPT !.pc = "retireByKid"] \in OpType
      BY <2>0 DEF OpType, Pc
    <3>2. op' \in [Handler -> OpType]
      BY <2>0, <2>14, <3>1, IdleOpType DEF RetireCheck
    <3> QED BY <2>0, <2>14, <3>2 DEF RetireCheck, TypeOK, OpType, JobType
  <2>15. ASSUME NEW h \in Handler, RetireApply(h) PROVE TypeOK'
    BY <2>0, <2>15, IdleOpType, TableTypes DEF RetireApply, TypeOK, OpType, JobType
  <2>16. ASSUME NEW h \in Handler, NEW j \in Job, TakeRotationJob(h, j) PROVE TypeOK'
    <3>0. [IdleOp EXCEPT !.kind = "worker", !.pc = "guard", !.job = j] \in OpType
      BY IdleOpType DEF OpType, OpKind, Pc
    <3>1. op' \in [Handler -> OpType]
      BY <2>0, <2>16, <3>0 DEF TakeRotationJob
    <3>2. jobs' \in [Job -> JobType]
      <4>1. CASE NeedsRotation(keys, now)
        BY <2>0, <2>16, <4>1 DEF TakeRotationJob, JobType
      <4>2. CASE ~NeedsRotation(keys, now)
        BY <2>0, <2>16, <4>2, QueueTypes DEF TakeRotationJob
      <4> QED BY <4>1, <4>2
    <3> QED BY <2>0, <2>16, <3>1, <3>2 DEF TakeRotationJob, TypeOK, OpType, JobType
  <2>17. ASSUME NEW h \in Handler, NEW j \in Job, TakePromotionJob(h, j) PROVE TypeOK'
    <3>1. op' \in [Handler -> OpType]
      BY <2>0, <2>17, IdleOpType DEF TakePromotionJob, OpType, OpKind, Pc
    <3>2. jobs' \in [Job -> JobType]
      BY <2>0, <2>17 DEF TakePromotionJob, JobType
    <3> QED BY <2>0, <2>17, <3>1, <3>2 DEF TakePromotionJob, TypeOK, OpType, JobType
  <2>18. ASSUME NEW h \in Handler, WorkerGuard(h) PROVE TypeOK'
    <3>1. op' \in [Handler -> OpType] /\ jobs' \in [Job -> JobType]
      <4>1. CASE Throw(h) BY <4>1, ReturnType
      <4>2. CASE ~Throw(h)
        BY <2>0, <2>18, <4>2 DEF WorkerGuard, GoTo, OpType, Pc
      <4> QED BY <4>1, <4>2
    <3> QED BY <2>0, <2>18, <3>1 DEF WorkerGuard, TypeOK, OpType, JobType
  <2>19. ASSUME NEW j \in Job, CronFires(j) PROVE TypeOK'
    <3>1. [kind |-> "rotate", left |-> Attempts, running |-> FALSE] \in JobType
      BY RotationAssumption DEF JobType
    <3> QED BY <2>0, <2>19, <3>1 DEF CronFires, TypeOK, OpType, JobType
  <2>20. ASSUME NEW p \in Proc, Crash(p) PROVE TypeOK'
    <3>1. op' \in [Handler -> OpType]
      BY <2>0, <2>20, IdleOpType DEF Crash
    <3>2. \A j \in Job : FailedJob(jobs, j)[j] \in JobType
      BY <2>0, QueueTypes
    <3>3. jobs' \in [Job -> JobType]
      BY <2>0, <2>20, <3>2 DEF Crash
    <3> QED BY <2>0, <2>20, <3>1, <3>3 DEF Crash, TypeOK, OpType, JobType
  <2>21. ASSUME Tick PROVE TypeOK'
    BY <2>0, <2>21 DEF Tick, TypeOK, OpType, JobType, Time
  <2>22. CASE UNCHANGED vars
    BY <2>22 DEF vars, TypeOK
  <2> QED
    BY <2>1, <2>2, <2>3, <2>4, <2>5, <2>6, <2>7, <2>8, <2>9, <2>10, <2>11, <2>12, <2>13,
       <2>14, <2>15, <2>16, <2>17, <2>18, <2>19, <2>20, <2>21, <2>22
    DEF Next, QuietStep, Environment, SilentStep, Announce, Arrival, TakeJob
<1> QED BY <1>1, <1>2, PTL DEF Spec

-----------------------------------------------------------------------------
(* ActiveKeyAvailable is not inductive: a demotion is harmless only because *)
(* of what DemotionSafe says of the batch inserted just before it.          *)

IInv == TypeOK /\ ActiveKeyAvailable /\ DemotionSafe

\* A step that inserts nothing and touches no active row (unless it retires a
\* key by kid), starts no demotion and no new promotion, keeps the invariant.
LEMMA Frame ==
    ASSUME TypeOK, ActiveKeyAvailable, DemotionSafe,
           batches' = batches,
           \A k \in Kid : keys[k].status = "absent" => keys'[k].status = "absent",
           \/ RetiredByKid'
           \/ /\ ~RetiredByKid
              /\ \A k \in Kid : keys[k].status = "active" =>
                    keys'[k].status = "active" /\ keys'[k].promoted = keys[k].promoted,
           \A h \in Handler : op'[h].pc = "demote" =>
                op[h].pc = "demote" /\ op'[h].batch = op[h].batch,
           Promoting' => Promoting
    PROVE  ActiveKeyAvailable' /\ DemotionSafe'
<1>1. ActiveKeyAvailable'
  BY DEF ActiveKeyAvailable, IsActive
<1>2. (Promoting => batches > 0)'
  BY DEF DemotionSafe
<1>3. (\A k \in Kid : k[1] > batches => keys[k].status = "absent")'
  BY DEF DemotionSafe
<1>4. ASSUME NEW h \in Handler, op'[h].pc = "demote"
      PROVE  /\ op'[h].batch \in 1..batches'
             /\ \A i \in Handler : op'[i].pc = "demote" /\ op'[i].batch = op'[h].batch => i = h
  BY <1>4 DEF DemotionSafe
<1>5. ASSUME NEW h \in Handler, op'[h].pc = "demote", ~RetiredByKid', NEW a \in Alg
      PROVE  /\ IsUnpromotedActive(keys', <<op'[h].batch, a>>)
             /\ Promoting' => \E k \in Kid : AlgOf(k) = a /\ IsActive(keys', k)
                                             /\ k[1] # op'[h].batch
  <2>1. op[h].pc = "demote" /\ op'[h].batch = op[h].batch /\ ~RetiredByKid
    BY <1>5
  <2>2. <<op[h].batch, a>> \in Kid
    <3>1. op[h].batch \in 1..batches /\ batches \in 0..MaxBatch
      BY <2>1 DEF DemotionSafe, TypeOK
    <3> QED BY <3>1, JwksAssumption DEF Kid, Batch
  <2>3. IsUnpromotedActive(keys, <<op[h].batch, a>>)
    BY <2>1 DEF DemotionSafe
  <2>4. Promoting => \E k \in Kid : AlgOf(k) = a /\ IsActive(keys, k) /\ k[1] # op[h].batch
    BY <2>1 DEF DemotionSafe
  <2> QED BY <1>5, <2>1, <2>2, <2>3, <2>4 DEF IsUnpromotedActive, IsActive
<1> QED BY <1>1, <1>2, <1>3, <1>4, <1>5 DEF DemotionSafe

\* Jobs that end, fail or stall create no promotion.
LEMMA QueueKinds ==
    ASSUME NEW q \in [Job -> JobType], NEW i \in Job \cup {NoJob}, NEW j \in Job
    PROVE  /\ FailedJob(q, i)[j].kind = "promote" => q[j].kind = "promote"
           /\ FinishedJob(q, i)[j].kind = "promote" => q[j].kind = "promote"
BY DEF FailedJob, FinishedJob, NoBullJob, JobType

\* Phase 2 adds a promotion of rows, which a table with a unique signer per
\* algorithm admits only when no second active row is there.
LEMMA PromoteFacts ==
    ASSUME NEW t \in [Kid -> Row], NEW k \in Kid
    PROVE  LET u == PromoteUnpromotedActive(t) IN
           /\ u[k].status = t[k].status
           /\ IsActive(t, k) => u[k].promoted
           /\ ~IsActive(t, k) => u[k] = t[k]
BY DEF PromoteUnpromotedActive, IsUnpromotedActive, IsActive, Row

\* Between insert and demote no promotion can succeed, unless keys were
\* retired by kid.
LEMMA PromotionExcludesDemotion ==
    ASSUME IInv, Promoting, ~RetiredByKid, NEW h \in Handler, op[h].pc = "demote",
           UniqueIndexHolds(PromoteUnpromotedActive(keys))
    PROVE  FALSE
<1>1. PICK a \in Alg : TRUE
  BY JwksAssumption
<1>2. <<op[h].batch, a>> \in Kid /\ IsActive(keys, <<op[h].batch, a>>)
  <2>1. op[h].batch \in 1..batches /\ batches \in 0..MaxBatch
    BY DEF IInv, DemotionSafe, TypeOK
  <2>2. <<op[h].batch, a>> \in Kid
    BY <2>1, JwksAssumption DEF Kid, Batch
  <2> QED BY <2>2 DEF IInv, DemotionSafe, IsUnpromotedActive
<1>3. PICK k \in Kid : AlgOf(k) = a /\ IsActive(keys, k) /\ k[1] # op[h].batch
  BY DEF IInv, DemotionSafe
<1>4. keys \in [Kid -> Row]
  BY DEF IInv, TypeOK
<1> DEFINE j == <<op[h].batch, a>>
           u == PromoteUnpromotedActive(keys)
<1>5. u[k].status = "active" /\ u[k].promoted /\ u[j].status = "active" /\ u[j].promoted
  BY <1>2, <1>3, <1>4, PromoteFacts DEF IsActive
<1>6. AlgOf(j) = AlgOf(k) /\ j # k
  BY <1>2, <1>3 DEF AlgOf
<1>7. \A x, y \in Kid : (AlgOf(x) = AlgOf(y) /\ IsPromotedActive(u, x) /\ IsPromotedActive(u, y)) => x = y
  BY DEF UniqueIndexHolds
<1> HIDE DEF j, u
<1>8. j \in Kid
  BY <1>2 DEF j
<1> QED BY <1>3, <1>5, <1>6, <1>7, <1>8 DEF IsPromotedActive, IsActive

\* A retirement of expired rows leaves active and absent rows alone.
LEMMA RetireExpiredFacts ==
    ASSUME NEW t \in [Kid -> Row], NEW n, NEW k \in Kid
    PROVE  LET u == RetireExpired(t, n) IN
           /\ u[k].promoted = t[k].promoted
           /\ t[k].status # "expiring" => u[k].status = t[k].status
BY DEF RetireExpired, Row

\* A new batch changes no row that exists, and its rows are active.
LEMMA InsertFacts ==
    ASSUME NEW t \in [Kid -> Row], NEW n, NEW p, NEW b, NEW k \in Kid
    PROVE  LET u == InsertBatch(t, b, p, n) IN
           /\ k[1] # b => u[k] = t[k]
           /\ k[1] = b => u[k].status = "active" /\ u[k].promoted = p
BY DEF InsertBatch

\* Demotion touches the promoted active rows only.
LEMMA DemoteFacts ==
    ASSUME NEW t \in [Kid -> Row], NEW n, NEW k \in Kid
    PROVE  LET u == MarkPromotedActiveExpiring(t, n) IN
           /\ ~IsPromotedActive(t, k) => u[k] = t[k]
           /\ IsPromotedActive(t, k) => u[k].status = "expiring"
BY DEF MarkPromotedActiveExpiring, Row

\* Inserting the next batch: what the old rows keep and the new rows add.
LEMMA NextBatch ==
    ASSUME IInv, batches < MaxBatch, NEW p \in BOOLEAN,
           keys' = InsertBatch(keys, batches + 1, p, now), batches' = batches + 1
    PROVE  /\ \A k \in Kid : keys[k].status # "absent" => keys'[k] = keys[k] /\ k[1] <= batches
           /\ \A k \in Kid : k[1] > batches' => keys'[k].status = "absent"
           /\ \A a \in Alg : /\ <<batches', a>> \in Kid
                             /\ keys'[<<batches', a>>].status = "active"
                             /\ keys'[<<batches', a>>].promoted = p
           /\ RetiredByKid => RetiredByKid'
<1>1. keys \in [Kid -> Row] /\ batches \in 0..MaxBatch /\ MaxBatch \in Nat
  BY JwksAssumption DEF IInv, TypeOK
<1>2. \A k \in Kid : k[1] \in Nat
  BY <1>1 DEF Kid, Batch
<1>3. \A k \in Kid : k[1] > batches => keys[k].status = "absent"
  BY DEF IInv, DemotionSafe
<1>4. \A k \in Kid : keys[k].status # "absent" => keys'[k] = keys[k] /\ k[1] <= batches
  BY <1>1, <1>2, <1>3, InsertFacts
<1>5. \A k \in Kid : k[1] > batches' => keys'[k].status = "absent"
  BY <1>1, <1>2, <1>3, InsertFacts
<1>6. \A a \in Alg : <<batches', a>> \in Kid
  BY <1>1 DEF Kid, Batch
<1>7. \A a \in Alg : keys'[<<batches', a>>].status = "active" /\ keys'[<<batches', a>>].promoted = p
  BY <1>1, <1>6, InsertFacts
<1>8. RetiredByKid => RetiredByKid'
  BY <1>4 DEF RetiredByKid
<1> QED BY <1>4, <1>5, <1>6, <1>7, <1>8

\* insertInitial keeps the invariant: the first batch is active, and there is
\* no earlier batch whose demotion could be under way.
LEMMA InsertInitialKeeps ==
    ASSUME IInv, NEW h \in Handler, InsertInitial(h)
    PROVE  ActiveKeyAvailable' /\ DemotionSafe'
<1>1. /\ op \in [Handler -> OpType] /\ jobs \in [Job -> JobType] /\ op[h].job \in Job \cup {NoJob}
      /\ batches \in 0..MaxBatch /\ MaxBatch \in Nat
  BY JwksAssumption DEF IInv, TypeOK, OpType, JobType
<1>2. \A i \in Handler : op'[i].pc = "demote" => op[i].pc = "demote" /\ op'[i].batch = op[i].batch
  BY <1>1 DEF InsertInitial, Return, IdleOp
<1>3. Promoting' => Promoting
  <2>1. \A i \in Handler : op'[i].pc \in {"publishRotated", "schedule", "promote"} => op[i].pc = op'[i].pc
    BY <1>1 DEF InsertInitial, Return, IdleOp
  <2>2. \A j \in Job : jobs'[j].kind = "promote" => jobs[j].kind = "promote"
    BY <1>1, QueueKinds DEF InsertInitial, Return
  <2> QED BY <2>1, <2>2 DEF Promoting
<1>4. CASE UNCHANGED <<keys, batches>>
  BY <1>2, <1>3, <1>4, Frame DEF IInv, RetiredByKid
<1>5. CASE keys' = InsertBatch(keys, batches + 1, TRUE, now) /\ batches' = batches + 1
  <2>1. batches < MaxBatch
    BY DEF InsertInitial
  <2>2. /\ \A k \in Kid : keys[k].status # "absent" => keys'[k] = keys[k] /\ k[1] <= batches
        /\ \A k \in Kid : k[1] > batches' => keys'[k].status = "absent"
        /\ \A a \in Alg : <<batches', a>> \in Kid /\ keys'[<<batches', a>>].status = "active"
        /\ RetiredByKid => RetiredByKid'
    BY <1>5, <2>1, NextBatch
  <2>3. ActiveKeyAvailable'
    BY <2>2 DEF ActiveKeyAvailable, AlgOf, IsActive
  <2>4. ASSUME NEW i \in Handler, op'[i].pc = "demote"
        PROVE  /\ op'[i].batch \in 1..batches'
               /\ \A x \in Handler : op'[x].pc = "demote" /\ op'[x].batch = op'[i].batch => x = i
    BY <1>1, <1>2, <1>5, <2>4 DEF IInv, DemotionSafe
  <2>5. ASSUME NEW i \in Handler, op'[i].pc = "demote", ~RetiredByKid', NEW a \in Alg
        PROVE  /\ IsUnpromotedActive(keys', <<op'[i].batch, a>>)
               /\ Promoting' => \E k \in Kid : AlgOf(k) = a /\ IsActive(keys', k)
                                               /\ k[1] # op'[i].batch
    <3>1. op[i].pc = "demote" /\ op'[i].batch = op[i].batch /\ ~RetiredByKid
      BY <1>2, <2>2, <2>5
    <3>2. op[i].batch \in 1..batches
      BY <3>1 DEF IInv, DemotionSafe
    <3>3. <<op[i].batch, a>> \in Kid
      BY <1>1, <3>2 DEF Kid, Batch
    <3>4. IsUnpromotedActive(keys, <<op[i].batch, a>>)
      BY <3>1 DEF IInv, DemotionSafe
    <3>5. Promoting => \E k \in Kid : AlgOf(k) = a /\ IsActive(keys, k) /\ k[1] # op[i].batch
      BY <3>1 DEF IInv, DemotionSafe
    <3> QED BY <1>3, <2>2, <3>1, <3>3, <3>4, <3>5 DEF IsUnpromotedActive, IsActive
  <2>6. (Promoting => batches > 0)'
    BY <1>1, <1>5
  <2> QED BY <2>2, <2>3, <2>4, <2>5, <2>6 DEF DemotionSafe
<1> QED BY <1>4, <1>5 DEF InsertInitial

\* insertMany keeps the invariant: the new batch is active and unpromoted, the
\* older batches are untouched, so its handler may demote.
LEMMA InsertKeeps ==
    ASSUME IInv, NEW h \in Handler, Insert(h)
    PROVE  ActiveKeyAvailable' /\ DemotionSafe'
<1>1. /\ op \in [Handler -> OpType] /\ batches \in 0..MaxBatch /\ MaxBatch \in Nat
  BY JwksAssumption DEF IInv, TypeOK, OpType
<1>2. /\ op'[h].pc = "demote" /\ op'[h].batch = batches'
      /\ \A i \in Handler : i # h => op'[i] = op[i]
  BY <1>1 DEF Insert, OpType
<1>3. Promoting' => Promoting
  BY <1>2 DEF Promoting, Insert
<1>4. batches < MaxBatch /\ batches' = batches + 1
  BY DEF Insert
<1>5. /\ \A k \in Kid : keys[k].status # "absent" => keys'[k] = keys[k] /\ k[1] <= batches
      /\ \A k \in Kid : k[1] > batches' => keys'[k].status = "absent"
      /\ \A a \in Alg : /\ <<batches', a>> \in Kid
                        /\ keys'[<<batches', a>>].status = "active"
                        /\ keys'[<<batches', a>>].promoted = FALSE
      /\ RetiredByKid => RetiredByKid'
  BY NextBatch DEF Insert
<1>6. ActiveKeyAvailable'
  BY <1>5 DEF ActiveKeyAvailable, AlgOf, IsActive
<1>7. ASSUME NEW i \in Handler, op'[i].pc = "demote"
      PROVE  /\ op'[i].batch \in 1..batches'
             /\ \A x \in Handler : op'[x].pc = "demote" /\ op'[x].batch = op'[i].batch => x = i
  <2>1. \A x \in Handler : x # h /\ op'[x].pc = "demote" => op'[x].batch \in 1..batches
    BY <1>2 DEF IInv, DemotionSafe
  <2>2. \A x, y \in Handler : x # h /\ y # h /\ op'[x].pc = "demote" /\ op'[y].pc = "demote"
            /\ op'[x].batch = op'[y].batch => x = y
    BY <1>2 DEF IInv, DemotionSafe
  <2> QED BY <1>1, <1>2, <1>4, <1>7, <2>1, <2>2
<1>8. ASSUME NEW i \in Handler, op'[i].pc = "demote", ~RetiredByKid', NEW a \in Alg
      PROVE  /\ IsUnpromotedActive(keys', <<op'[i].batch, a>>)
             /\ Promoting' => \E k \in Kid : AlgOf(k) = a /\ IsActive(keys', k)
                                             /\ k[1] # op'[i].batch
  <2>1. CASE i = h
    <3>1. IsUnpromotedActive(keys', <<op'[i].batch, a>>)
      BY <1>2, <1>5, <2>1 DEF IsUnpromotedActive, IsActive
    <3>2. Promoting => \E k \in Kid : AlgOf(k) = a /\ IsActive(keys, k)
      BY <1>5, <1>8 DEF IInv, DemotionSafe, ActiveKeyAvailable
    <3>3. \A k \in Kid : IsActive(keys, k) => IsActive(keys', k) /\ k[1] # batches'
      <4>1. \A k \in Kid : k[1] \in Nat
        BY <1>1 DEF Kid, Batch
      <4> QED BY <1>1, <1>4, <1>5, <4>1 DEF IsActive
    <3> QED BY <1>2, <1>3, <2>1, <3>1, <3>2, <3>3
  <2>2. CASE i # h
    <3>1. op[i].pc = "demote" /\ op'[i].batch = op[i].batch /\ ~RetiredByKid
      BY <1>2, <1>5, <1>8, <2>2
    <3>2. op[i].batch \in 1..batches
      BY <3>1 DEF IInv, DemotionSafe
    <3>3. <<op[i].batch, a>> \in Kid
      BY <1>1, <3>2 DEF Kid, Batch
    <3>4. IsUnpromotedActive(keys, <<op[i].batch, a>>)
      BY <3>1 DEF IInv, DemotionSafe
    <3>5. Promoting => \E k \in Kid : AlgOf(k) = a /\ IsActive(keys, k) /\ k[1] # op[i].batch
      BY <3>1 DEF IInv, DemotionSafe
    <3> QED BY <1>3, <1>5, <3>1, <3>3, <3>4, <3>5 DEF IsUnpromotedActive, IsActive
  <2> QED BY <2>1, <2>2
<1>9. (Promoting => batches > 0)'
  BY <1>1, <1>4
<1> QED BY <1>5, <1>6, <1>7, <1>8, <1>9 DEF DemotionSafe

\* markPromotedActiveExpiring keeps the invariant: the unpromoted batch of the
\* demoting handler stays active.
LEMMA DemoteKeeps ==
    ASSUME IInv, NEW h \in Handler, Demote(h)
    PROVE  ActiveKeyAvailable' /\ DemotionSafe'
<1>1. /\ op \in [Handler -> OpType] /\ keys \in [Kid -> Row]
      /\ batches \in 0..MaxBatch /\ MaxBatch \in Nat
  BY JwksAssumption DEF IInv, TypeOK, OpType
<1>2. /\ op[h].pc = "demote" /\ batches' = batches
      /\ keys' = MarkPromotedActiveExpiring(keys, now)
      /\ op'[h].pc # "demote" /\ \A i \in Handler : i # h => op'[i] = op[i]
  BY <1>1 DEF Demote, GoTo, OpType
<1>3. /\ op[h].batch \in 1..batches
      /\ \A i \in Handler : i # h /\ op[i].pc = "demote" => op[i].batch # op[h].batch
  BY <1>2 DEF IInv, DemotionSafe
<1>4. \A k \in Kid : ~IsPromotedActive(keys, k) => keys'[k] = keys[k]
  BY <1>1, <1>2, DemoteFacts
<1>5. RetiredByKid => RetiredByKid'
  BY <1>4 DEF RetiredByKid, IsPromotedActive, IsActive
<1>6. ASSUME ~RetiredByKid', NEW a \in Alg, NEW i \in Handler, op[i].pc = "demote"
      PROVE  /\ <<op[i].batch, a>> \in Kid
             /\ IsUnpromotedActive(keys', <<op[i].batch, a>>)
  <2>1. op[i].batch \in 1..batches
    BY <1>6 DEF IInv, DemotionSafe
  <2>2. <<op[i].batch, a>> \in Kid
    BY <1>1, <2>1 DEF Kid, Batch
  <2>3. IsUnpromotedActive(keys, <<op[i].batch, a>>)
    BY <1>5, <1>6 DEF IInv, DemotionSafe
  <2> QED BY <1>4, <2>2, <2>3 DEF IsUnpromotedActive, IsPromotedActive, IsActive
<1>7. ActiveKeyAvailable'
  <2> SUFFICES ASSUME ~RetiredByKid', NEW a \in Alg
               PROVE  \E k \in Kid : AlgOf(k) = a /\ IsActive(keys', k)
    BY DEF ActiveKeyAvailable
  <2> QED BY <1>2, <1>6 DEF AlgOf, IsUnpromotedActive
<1>8. (\A k \in Kid : k[1] > batches => keys[k].status = "absent")'
  BY <1>2, <1>4 DEF IInv, DemotionSafe, IsPromotedActive, IsActive
<1>9. ASSUME NEW i \in Handler, op'[i].pc = "demote"
      PROVE  /\ op'[i].batch \in 1..batches'
             /\ \A x \in Handler : op'[x].pc = "demote" /\ op'[x].batch = op'[i].batch => x = i
  BY <1>2, <1>9 DEF IInv, DemotionSafe
<1>10. ASSUME NEW i \in Handler, op'[i].pc = "demote", ~RetiredByKid', NEW a \in Alg
       PROVE  /\ IsUnpromotedActive(keys', <<op'[i].batch, a>>)
              /\ \E k \in Kid : AlgOf(k) = a /\ IsActive(keys', k) /\ k[1] # op'[i].batch
  <2>1. i # h /\ op'[i] = op[i] /\ op[i].batch # op[h].batch
    BY <1>2, <1>3, <1>10
  <2>2. <<op[h].batch, a>> \in Kid /\ IsActive(keys', <<op[h].batch, a>>)
    BY <1>2, <1>6, <1>10 DEF IsUnpromotedActive
  <2> QED BY <1>6, <1>10, <2>1, <2>2 DEF AlgOf
<1>11. (Promoting => batches > 0)'
  BY <1>1, <1>2, <1>3
<1> QED BY <1>7, <1>8, <1>9, <1>10, <1>11 DEF DemotionSafe

\* promoteUnpromotedActive keeps the invariant: it fails on the unique index,
\* or no handler stands between insert and demote.
LEMMA PromoteKeeps ==
    ASSUME IInv, NEW h \in Handler, Promote(h)
    PROVE  ActiveKeyAvailable' /\ DemotionSafe'
<1>1. /\ op \in [Handler -> OpType] /\ jobs \in [Job -> JobType] /\ op[h].job \in Job \cup {NoJob}
      /\ keys \in [Kid -> Row]
  BY DEF IInv, TypeOK, OpType, JobType
<1>2. \A i \in Handler : op'[i].pc = "demote" => op[i].pc = "demote" /\ op'[i].batch = op[i].batch
  BY <1>1 DEF Promote, Throw, GoTo, IdleOp, OpType
<1>3. Promoting /\ batches' = batches
  BY DEF Promoting, Promote
<1>4. CASE keys' = keys
  BY <1>2, <1>3, <1>4, Frame DEF IInv, RetiredByKid
<1>5. CASE UniqueIndexHolds(PromoteUnpromotedActive(keys)) /\ keys' = PromoteUnpromotedActive(keys)
  <2>1. \A k \in Kid : /\ keys'[k].status = keys[k].status
                       /\ ~IsActive(keys, k) => keys'[k] = keys[k]
    BY <1>1, <1>5, PromoteFacts
  <2>2. RetiredByKid => RetiredByKid'
    BY <2>1 DEF RetiredByKid, IsActive
  <2>3. ActiveKeyAvailable'
    BY <1>3, <2>1, <2>2 DEF IInv, ActiveKeyAvailable, IsActive
  <2>4. ~RetiredByKid' => \A i \in Handler : op'[i].pc # "demote"
    BY <1>2, <1>3, <1>5, <2>2, PromotionExcludesDemotion
  <2>5. (\A k \in Kid : k[1] > batches => keys[k].status = "absent")'
    BY <1>3, <2>1 DEF IInv, DemotionSafe
  <2>6. ASSUME NEW i \in Handler, op'[i].pc = "demote"
        PROVE  /\ op'[i].batch \in 1..batches'
               /\ \A x \in Handler : op'[x].pc = "demote" /\ op'[x].batch = op'[i].batch => x = i
    BY <1>2, <1>3, <2>6 DEF IInv, DemotionSafe
  <2>7. (Promoting => batches > 0)'
    BY <1>3 DEF IInv, DemotionSafe
  <2> QED BY <2>3, <2>4, <2>5, <2>6, <2>7 DEF DemotionSafe
<1> QED BY <1>4, <1>5 DEF Promote

\* A step that writes no key and starts no demotion or promotion keeps the
\* invariant.
LEMMA QuietKeeps ==
    ASSUME IInv, UNCHANGED <<keys, batches>>,
           \A h \in Handler : op'[h].pc = "demote" =>
                op[h].pc = "demote" /\ op'[h].batch = op[h].batch,
           Promoting' => Promoting
    PROVE  ActiveKeyAvailable' /\ DemotionSafe'
BY Frame DEF IInv, RetiredByKid

\* retireExpired keeps the invariant: it only moves expiring rows.
LEMMA SweepKeeps ==
    ASSUME IInv, keys' = RetireExpired(keys, now), batches' = batches,
           \A h \in Handler : op'[h].pc = "demote" =>
                op[h].pc = "demote" /\ op'[h].batch = op[h].batch,
           Promoting' => Promoting
    PROVE  ActiveKeyAvailable' /\ DemotionSafe'
<1>1. \A k \in Kid : /\ keys'[k].promoted = keys[k].promoted
                     /\ keys[k].status # "expiring" => keys'[k].status = keys[k].status
  BY RetireExpiredFacts DEF IInv, TypeOK
<1>2. RetiredByKid => RetiredByKid'
  BY <1>1 DEF RetiredByKid
<1> QED BY <1>1, <1>2, Frame DEF IInv

\* Once the first key set is stored, every algorithm has an active key in every
\* state, however rotations, promotions, sweeps and crashes interleave, unless
\* an operator retires keys by kid (db-key-store.ts rotate: generate first).
THEOREM ActiveKeyAlways == Spec => [](ActiveKeyAvailable /\ DemotionSafe)
<1>1. Init => ActiveKeyAvailable /\ DemotionSafe
  BY DEF Init, ActiveKeyAvailable, DemotionSafe, Promoting, IdleOp, NoBullJob, EmptyTable, NoRow
<1>2. TypeOK /\ ActiveKeyAvailable /\ DemotionSafe /\ [Next]_vars
        => ActiveKeyAvailable' /\ DemotionSafe'
  <2> SUFFICES ASSUME IInv, [Next]_vars PROVE ActiveKeyAvailable' /\ DemotionSafe'
    BY DEF IInv
  <2>0. /\ op \in [Handler -> OpType] /\ jobs \in [Job -> JobType] /\ keys \in [Kid -> Row]
        /\ \A h \in Handler : op[h].job \in Job \cup {NoJob}
    BY DEF IInv, TypeOK, OpType, JobType
  <2>1. ASSUME NEW h \in Handler, StartInitialize(h) PROVE ActiveKeyAvailable' /\ DemotionSafe'
    BY <2>0, <2>1, QuietKeeps DEF StartInitialize, Promoting, IdleOp, OpType
  <2>3. ASSUME NEW h \in Handler, NEW kind \in {"admin", "api"}, StartRotate(h, kind)
        PROVE ActiveKeyAvailable' /\ DemotionSafe'
    BY <2>0, <2>3, QuietKeeps DEF StartRotate, Promoting, IdleOp, OpType
  <2>6. ASSUME NEW h \in Handler, PublishRotated(h) PROVE ActiveKeyAvailable' /\ DemotionSafe'
    BY <2>0, <2>6, QuietKeeps DEF PublishRotated, GoTo, Promoting, OpType
  <2>7. ASSUME NEW h \in Handler, Schedule(h) PROVE ActiveKeyAvailable' /\ DemotionSafe'
    BY <2>0, <2>7, QuietKeeps DEF Schedule, Promoting, IdleOp, OpType
  <2>9. ASSUME NEW h \in Handler, PublishPromoted(h) PROVE ActiveKeyAvailable' /\ DemotionSafe'
    BY <2>0, <2>9, QuietKeeps DEF PublishPromoted, GoTo, Promoting, OpType
  <2>a. ASSUME NEW h \in Handler, Return(h) \/ Throw(h)
        PROVE  /\ \A i \in Handler : op'[i].pc = "demote" =>
                      op[i].pc = "demote" /\ op'[i].batch = op[i].batch
               /\ Promoting' => Promoting
    <3>1. op' = [op EXCEPT ![h] = IdleOp]
      BY <2>a DEF Return, Throw
    <3>2. \A j \in Job : jobs'[j].kind = "promote" => jobs[j].kind = "promote"
      BY <2>0, <2>a, QueueKinds DEF Return, Throw
    <3> QED BY <2>0, <3>1, <3>2 DEF Promoting, IdleOp
  <2>10. ASSUME NEW h \in Handler, PublishApi(h) PROVE ActiveKeyAvailable' /\ DemotionSafe'
    BY <2>10, <2>a, QuietKeeps DEF PublishApi
  <2>11. ASSUME NEW h \in Handler, Retire(h) PROVE ActiveKeyAvailable' /\ DemotionSafe'
    BY <2>11, <2>a, SweepKeeps DEF Retire
  <2>12. ASSUME NEW h \in Handler, RetireExpiredNow(h) PROVE ActiveKeyAvailable' /\ DemotionSafe'
    BY <2>12, SweepKeeps DEF RetireExpiredNow, Promoting
  <2>13. ASSUME NEW h \in Handler, NEW k \in Kid, StartRetireKey(h, k)
         PROVE ActiveKeyAvailable' /\ DemotionSafe'
    BY <2>0, <2>13, QuietKeeps DEF StartRetireKey, Promoting, IdleOp, OpType
  <2>14. ASSUME NEW h \in Handler, RetireCheck(h) PROVE ActiveKeyAvailable' /\ DemotionSafe'
    <3>1. op'[h].pc \in {"idle", "retireByKid"} /\ \A i \in Handler : i # h => op'[i] = op[i]
      BY <2>0, <2>14 DEF RetireCheck, IdleOp, OpType
    <3> QED BY <2>0, <2>14, <3>1, QuietKeeps DEF RetireCheck, Promoting
  <2>15. ASSUME NEW h \in Handler, RetireApply(h) PROVE ActiveKeyAvailable' /\ DemotionSafe'
    <3>1. op' = [op EXCEPT ![h] = IdleOp] /\ keys' = RetireByKid(keys, op[h].kid) /\ UNCHANGED <<batches, jobs>>
      BY <2>15 DEF RetireApply
    <3>2. CASE keys' = keys
      BY <2>0, <3>1, <3>2, QuietKeeps DEF Promoting, IdleOp
    <3>3. CASE keys' # keys
      <4>1. PICK k \in Kid : k = op[h].kid /\ keys[k].status # "absent"
        <5>1. op[h].kid \in Kid
          <6>1. ASSUME op[h].kid \notin Kid PROVE keys' = keys
            BY <2>0, <3>1, <6>1 DEF RetireByKid
          <6> QED BY <3>3, <6>1
        <5> QED BY <3>1, <3>3, <5>1 DEF RetireByKid
      <4>2. keys' = [keys EXCEPT ![k].status = "retired", ![k].promoted = FALSE]
        BY <3>1, <3>3, <4>1 DEF RetireByKid
      <4>3. RetiredByKid'
        BY <2>0, <4>1, <4>2 DEF RetiredByKid, Row
      <4>4. \A i \in Kid : keys[i].status = "absent" => keys'[i].status = "absent"
        BY <2>0, <4>1, <4>2 DEF Row
      <4> QED BY <2>0, <3>1, <4>3, <4>4, Frame DEF Promoting, IdleOp, IInv
    <3> QED BY <3>2, <3>3
  <2>16. ASSUME NEW h \in Handler, NEW j \in Job, TakeRotationJob(h, j)
         PROVE ActiveKeyAvailable' /\ DemotionSafe'
    <3>1. \A i \in Job : jobs'[i].kind = "promote" => jobs[i].kind = "promote"
      <4>1. CASE jobs' = FinishedJob(jobs, j)
        BY <2>0, <4>1, QueueKinds
      <4>2. CASE jobs' = [jobs EXCEPT ![j].running = TRUE]
        BY <2>0, <4>2 DEF JobType
      <4> QED BY <2>16, <4>1, <4>2 DEF TakeRotationJob
    <3>2. \A i \in Handler : op'[i] = op[i] \/ op'[i].pc = "guard"
      BY <2>0, <2>16 DEF TakeRotationJob, IdleOp
    <3> QED BY <2>0, <2>16, <3>1, <3>2, QuietKeeps DEF TakeRotationJob, Promoting
  <2>17. ASSUME NEW h \in Handler, NEW j \in Job, TakePromotionJob(h, j)
         PROVE ActiveKeyAvailable' /\ DemotionSafe'
    BY <2>0, <2>17, QuietKeeps DEF TakePromotionJob, Promoting, IdleOp
  <2>18. ASSUME NEW h \in Handler, WorkerGuard(h) PROVE ActiveKeyAvailable' /\ DemotionSafe'
    <3>1. CASE Throw(h)
      BY <2>18, <2>a, <3>1, QuietKeeps DEF WorkerGuard
    <3>2. CASE GoTo(h, "insert") /\ UNCHANGED jobs
      BY <2>0, <2>18, <3>2, QuietKeeps DEF WorkerGuard, GoTo, Promoting, OpType
    <3> QED BY <2>18, <3>1, <3>2 DEF WorkerGuard
  <2>19. ASSUME NEW j \in Job, CronFires(j) PROVE ActiveKeyAvailable' /\ DemotionSafe'
    BY <2>0, <2>19, QuietKeeps DEF CronFires, Promoting, JobType
  <2>20. ASSUME NEW p \in Proc, Crash(p) PROVE ActiveKeyAvailable' /\ DemotionSafe'
    <3>1. \A j \in Job : jobs'[j].kind = "promote" => jobs[j].kind = "promote"
      BY <2>0, <2>20, QueueKinds DEF Crash
    <3> QED BY <2>0, <2>20, <3>1, QuietKeeps DEF Crash, Promoting, IdleOp
  <2>21. ASSUME Tick PROVE ActiveKeyAvailable' /\ DemotionSafe'
    BY <2>21, QuietKeeps DEF Tick, Promoting
  <2>22. CASE UNCHANGED vars
    BY <2>22, QuietKeeps DEF vars, Promoting
  <2> QED
    BY <2>1, <2>3, <2>6, <2>7, <2>9, <2>10, <2>11, <2>12, <2>13, <2>14, <2>15, <2>16, <2>17,
       <2>18, <2>19, <2>20, <2>21, <2>22, InsertInitialKeeps, InsertKeeps, DemoteKeeps, PromoteKeeps
    DEF Next, QuietStep, Environment, SilentStep, Announce, Arrival, TakeJob
<1> QED BY <1>1, <1>2, TypeInvariance, PTL DEF Spec

-----------------------------------------------------------------------------
(* The rows implement the life cycle of a key (KeyLifecycle).               *)

\* What one step may do to the rows and the clock: nothing, a tick, or one
\* statement of the repository.
Untouched == UNCHANGED <<keys, batches, now>>
Ticks == now' = now + 1 /\ UNCHANGED <<keys, batches>>
FirstBatch ==
    /\ batches < MaxBatch /\ batches' = batches + 1
    /\ keys' = InsertBatch(keys, batches + 1, TRUE, now)
    /\ UniqueIndexHolds(keys')
NextSet ==
    /\ batches < MaxBatch /\ batches' = batches + 1
    /\ keys' = InsertBatch(keys, batches + 1, FALSE, now)
Demotes == keys' = MarkPromotedActiveExpiring(keys, now) /\ batches' = batches
Promotes == keys' = PromoteUnpromotedActive(keys) /\ batches' = batches /\ UniqueIndexHolds(keys')
Sweeps == keys' = RetireExpired(keys, now) /\ batches' = batches
Revokes == \E k \in Kid : keys' = RetireByKid(keys, k) /\ batches' = batches

\* Whatever handler or process moves, the rows see one of these statements.
LEMMA OneStatement ==
    ASSUME TypeOK, [Next]_vars
    PROVE  \/ Untouched \/ Ticks
           \/ now' = now /\ (FirstBatch \/ NextSet \/ Demotes \/ Promotes \/ Sweeps \/ Revokes)
<1> DEFINE Goal == \/ Untouched \/ Ticks
                   \/ now' = now /\ (FirstBatch \/ NextSet \/ Demotes \/ Promotes \/ Sweeps \/ Revokes)
<1>1. ASSUME NEW h \in Handler, InsertInitial(h) PROVE Goal
  BY <1>1 DEF InsertInitial, FirstBatch, Untouched
<1>2. ASSUME NEW h \in Handler, Insert(h) PROVE Goal
  BY <1>2 DEF Insert, NextSet
<1>3. ASSUME NEW h \in Handler, Demote(h) PROVE Goal
  BY <1>3 DEF Demote, Demotes
<1>4. ASSUME NEW h \in Handler, Promote(h) PROVE Goal
  BY <1>4 DEF Promote, Promotes, Untouched
<1>5. ASSUME NEW h \in Handler, Retire(h) \/ RetireExpiredNow(h) PROVE Goal
  BY <1>5 DEF Retire, RetireExpiredNow, Sweeps
<1>6. ASSUME NEW h \in Handler, RetireApply(h) PROVE Goal
  <2>1. keys' = RetireByKid(keys, op[h].kid) /\ UNCHANGED <<batches, now>>
    BY <1>6 DEF RetireApply
  <2>2. CASE op[h].kid \in Kid
    BY <2>1, <2>2 DEF Revokes
  <2>3. CASE op[h].kid \notin Kid
    <3>1. keys \in [Kid -> Row]
      BY DEF TypeOK
    <3>2. keys' = keys
      BY <2>1, <2>3, <3>1 DEF RetireByKid
    <3> QED BY <2>1, <3>2 DEF Untouched
  <2> QED BY <2>2, <2>3
<1>7. ASSUME Tick PROVE Goal
  BY <1>7 DEF Tick, Ticks
<1>8. ASSUME NEW h \in Handler,
             \/ WorkerGuard(h) \/ Schedule(h) \/ PublishApi(h) \/ RetireCheck(h)
             \/ PublishRotated(h) \/ PublishPromoted(h)
      PROVE Goal
  BY <1>8 DEF WorkerGuard, Schedule, PublishApi, RetireCheck, PublishRotated, PublishPromoted, Untouched
<1>9. ASSUME NEW h \in Handler,
             \/ StartInitialize(h) \/ TakeJob(h)
             \/ \E kind \in {"admin", "api"} : StartRotate(h, kind)
             \/ \E k \in Kid : StartRetireKey(h, k)
      PROVE Goal
  BY <1>9 DEF StartInitialize, StartRotate, StartRetireKey, TakeJob, TakeRotationJob,
              TakePromotionJob, Untouched
<1>10. ASSUME (\E j \in Job : CronFires(j)) \/ (\E p \in Proc : Crash(p)) PROVE Goal
  BY <1>10 DEF CronFires, Crash, Untouched
<1>11. ASSUME UNCHANGED vars PROVE Goal
  BY <1>11 DEF vars, Untouched
<1> QED
  BY <1>1, <1>2, <1>3, <1>4, <1>5, <1>6, <1>7, <1>8, <1>9, <1>10, <1>11
  DEF Next, QuietStep, Environment, SilentStep, Announce, Arrival

\* A retirement by kid touches one row, which leaves the active ones.
LEMMA RevokeFacts ==
    ASSUME NEW t \in [Kid -> Row], NEW i \in Kid, NEW k \in Kid
    PROVE  LET u == RetireByKid(t, i) IN
           /\ k # i => u[k] = t[k]
           /\ t[k].status \in {"absent", "retired"} => u[k] = t[k]
           /\ t[i].status \notin {"absent", "retired"} => u[i].status = "retired"
           /\ u[k].rotated_at = t[k].rotated_at
BY DEF RetireByKid, Row

LifeInv == OneSignerStored /\ UnbornAbsent

\* The table starts empty, without signers.
LEMMA LifeInit == Init => LifeInv
BY DEF Init, LifeInv, OneSignerStored, UnbornAbsent, UniqueIndexHolds, IsPromotedActive, IsActive,
       EmptyTable, NoRow

\* A statement that gives no algorithm a new signer keeps the unique index.
LEMMA FewerSigners ==
    ASSUME UniqueIndexHolds(keys), \A k \in Kid : IsPromotedActive(keys', k) => IsPromotedActive(keys, k)
    PROVE  UniqueIndexHolds(keys')
BY DEF UniqueIndexHolds

\* Every statement keeps one signer per algorithm and writes only rows of key
\* sets that exist.
LEMMA LifeKept ==
    ASSUME TypeOK, LifeInv, [Next]_vars
    PROVE  LifeInv'
<1>0. keys \in [Kid -> Row] /\ batches \in 0..MaxBatch /\ MaxBatch \in Nat
  BY JwksAssumption DEF TypeOK
<1>1. CASE Untouched \/ Ticks
  BY <1>1 DEF Untouched, Ticks, LifeInv, OneSignerStored, UnbornAbsent, UniqueIndexHolds,
              IsPromotedActive, IsActive
<1>a. ASSUME \A k \in Kid : keys[k].status = "absent" => keys'[k] = keys[k]
      PROVE  \A k \in Kid : keys[k] = NoRow => keys'[k] = NoRow
  <2>1. NoRow.status = "absent"
    BY DEF NoRow
  <2> QED BY <1>a, <2>1
<1>2. ASSUME NEW p \in BOOLEAN, batches' = batches + 1, keys' = InsertBatch(keys, batches + 1, p, now)
      PROVE  UnbornAbsent'
  <2>1. \A k \in Kid : k[1] > batches + 1 => k[1] > batches /\ k[1] # batches + 1
    BY <1>0 DEF Kid, Batch
  <2> QED BY <1>0, <1>2, <2>1, InsertFacts DEF LifeInv, UnbornAbsent
<1>3. CASE FirstBatch
  BY <1>2, <1>3 DEF FirstBatch, LifeInv, OneSignerStored
<1>4. CASE NextSet
  <2>1. \A k \in Kid : IsPromotedActive(keys', k) => IsPromotedActive(keys, k)
    BY <1>0, <1>4 DEF NextSet, InsertBatch, IsPromotedActive, IsActive
  <2> QED BY <1>2, <1>4, <2>1, FewerSigners DEF NextSet, LifeInv, OneSignerStored
<1>5. CASE Demotes
  <2>1. \A k \in Kid : ~IsPromotedActive(keys', k)
    BY <1>0, <1>5, DemoteFacts DEF Demotes, IsPromotedActive, IsActive
  <2>2. \A k \in Kid : keys[k] = NoRow => keys'[k] = NoRow
    BY <1>0, <1>5, <1>a DEF Demotes, MarkPromotedActiveExpiring, IsPromotedActive, IsActive
  <2> QED BY <1>5, <2>1, <2>2 DEF Demotes, LifeInv, OneSignerStored, UnbornAbsent, UniqueIndexHolds
<1>6. CASE Promotes
  <2>1. \A k \in Kid : keys[k] = NoRow => keys'[k] = NoRow
    BY <1>0, <1>6, <1>a DEF Promotes, PromoteUnpromotedActive, IsUnpromotedActive, IsActive
  <2> QED BY <1>6, <2>1 DEF Promotes, LifeInv, OneSignerStored, UnbornAbsent
<1>7. CASE Sweeps
  <2>1. \A k \in Kid : IsPromotedActive(keys', k) => IsPromotedActive(keys, k)
    BY <1>0, <1>7 DEF Sweeps, RetireExpired, IsPromotedActive, IsActive, Row
  <2>2. \A k \in Kid : keys[k] = NoRow => keys'[k] = NoRow
    BY <1>0, <1>7, <1>a DEF Sweeps, RetireExpired
  <2> QED BY <1>7, <2>1, <2>2, FewerSigners DEF Sweeps, LifeInv, OneSignerStored, UnbornAbsent
<1>8. CASE Revokes
  <2>1. \A k \in Kid : IsPromotedActive(keys', k) => IsPromotedActive(keys, k)
    BY <1>0, <1>8, RevokeFacts DEF Revokes, IsPromotedActive, IsActive
  <2>2. \A k \in Kid : keys[k] = NoRow => keys'[k] = NoRow
    BY <1>0, <1>8, <1>a, RevokeFacts DEF Revokes
  <2> QED BY <1>8, <2>1, <2>2, FewerSigners DEF Revokes, LifeInv, OneSignerStored, UnbornAbsent
<1> QED BY <1>1, <1>3, <1>4, <1>5, <1>6, <1>7, <1>8, OneStatement

\* The abstract one-signer condition is the unique index, read over stages.
LEMMA SignersAreUnique ==
    ASSUME NEW t \in [Kid -> Row], UniqueIndexHolds(t)
    PROVE  Lifecycle!OneSigner([k \in Kid |-> StageOf(t[k])])
<1>1. \A k \in Kid : StageOf(t[k]) = "signing" => IsPromotedActive(t, k)
  BY DEF StageOf, IsPromotedActive, IsActive, Row, KeyStatus
<1> QED BY <1>1 DEF Lifecycle!OneSigner, UniqueIndexHolds

\* The stages of the rows that a statement left alone, and of those it moved.
LEMMA Moves ==
    ASSUME NEW S \in SUBSET Kid, NEW s,
           \A k \in Kid : StageOf(keys'[k]) = IF k \in S THEN s ELSE StageOf(keys[k])
    PROVE  [k \in Kid |-> StageOf(keys'[k])] = Lifecycle!Moved(S, s)
BY DEF Lifecycle!Moved

\* When a row stepped down changes only with the rows that step down.
LEMMA SinceKept ==
    ASSUME \A k \in Kid : keys'[k].rotated_at = keys[k].rotated_at
    PROVE  [k \in Kid |-> keys'[k].rotated_at] = [k \in Kid |-> keys[k].rotated_at]
OBVIOUS

\* One step of the key store is one step of the life cycle, or none.
LEMMA LifeStep ==
    ASSUME TypeOK, TypeOK', LifeInv, LifeInv', [Next]_vars
    PROVE  [Lifecycle!LNext]_(Lifecycle!lifecycle)
<1>0. /\ keys \in [Kid -> Row] /\ keys' \in [Kid -> Row]
      /\ batches \in 0..MaxBatch /\ MaxBatch \in Nat
  BY JwksAssumption DEF TypeOK
<1>a. Lifecycle!OneSigner([k \in Kid |-> StageOf(keys'[k])])
  BY <1>0, SignersAreUnique DEF LifeInv, OneSignerStored
<1>1. CASE Untouched
  BY <1>1 DEF Untouched, Lifecycle!lifecycle
<1>2. CASE Ticks
  BY <1>2 DEF Ticks, Lifecycle!LNext, Lifecycle!Pass
<1>3. ASSUME now' = now, NEW p \in BOOLEAN, batches' = batches + 1,
             keys' = InsertBatch(keys, batches + 1, p, now)
      PROVE  Lifecycle!LNext
  <2> DEFINE S == {k \in Kid : k[1] = batches + 1}
             s == IF p THEN "signing" ELSE "published"
  <2>1. \A k \in S : keys[k] = NoRow
    <3>1. batches + 1 > batches
      BY <1>0
    <3> QED BY <3>1 DEF LifeInv, UnbornAbsent
  <2>2. \A k \in S : StageOf(keys[k]) = "absent"
    BY <2>1 DEF StageOf, NoRow
  <2>3. \A k \in Kid : StageOf(keys'[k]) = IF k \in S THEN s ELSE StageOf(keys[k])
    BY <1>0, <1>3, InsertFacts DEF StageOf
  <2>4. \A k \in Kid : keys'[k].rotated_at = keys[k].rotated_at
    BY <1>3, <2>1 DEF InsertBatch, NoRow
  <2>5. Lifecycle!Generate(S, s)
    <3> HIDE DEF S, s
    <3>1. S \in SUBSET Kid
      BY DEF S
    <3> QED BY <1>3, <1>a, <2>2, <2>3, <2>4, <3>1, Moves, SinceKept DEF Lifecycle!Generate
  <2>6. S \in SUBSET Kid /\ s \in {"published", "signing"}
    OBVIOUS
  <2> QED BY <2>5, <2>6 DEF Lifecycle!LNext
<1>4. ASSUME now' = now, Demotes PROVE Lifecycle!LNext
  <2> DEFINE S == {k \in Kid : [i \in Kid |-> StageOf(keys[i])][k] = "signing"}
  <2>1. \A k \in Kid : k \in S <=> IsPromotedActive(keys, k)
    BY <1>0 DEF StageOf, IsPromotedActive, IsActive, Row, KeyStatus
  <2>2. \A k \in Kid : StageOf(keys'[k]) = IF k \in S THEN "expiring" ELSE StageOf(keys[k])
    BY <1>0, <1>4, <2>1, DemoteFacts DEF Demotes, StageOf
  <2>3. \A k \in Kid : keys'[k].rotated_at = IF k \in S THEN now ELSE keys[k].rotated_at
    BY <1>0, <1>4, <2>1 DEF Demotes, MarkPromotedActiveExpiring, Row
  <2>4. [k \in Kid |-> StageOf(keys'[k])] = Lifecycle!Moved(S, "expiring")
    <3>1. S \in SUBSET Kid
      OBVIOUS
    <3> HIDE DEF S
    <3> QED BY <2>2, <3>1, Moves
  <2>5. [k \in Kid |-> keys'[k].rotated_at]
           = [k \in Kid |-> IF k \in S THEN now ELSE [i \in Kid |-> keys[i].rotated_at][k]]
    BY <2>3
  <2>6. Lifecycle!StepDown
    BY <1>4, <2>4, <2>5 DEF Lifecycle!StepDown
  <2> QED BY <2>6 DEF Lifecycle!LNext
<1>5. ASSUME now' = now, Promotes PROVE Lifecycle!LNext
  <2> DEFINE S == {k \in Kid : [i \in Kid |-> StageOf(keys[i])][k] = "published"}
  <2>1. \A k \in Kid : k \in S <=> IsUnpromotedActive(keys, k)
    BY <1>0 DEF StageOf, IsUnpromotedActive, IsActive, Row, KeyStatus
  <2>2. \A k \in Kid : /\ k \in S => keys'[k].status = "active" /\ keys'[k].promoted
                       /\ k \notin S => keys'[k] = keys[k]
                       /\ keys'[k].rotated_at = keys[k].rotated_at
    BY <1>0, <1>5, <2>1 DEF Promotes, PromoteUnpromotedActive, IsUnpromotedActive, IsActive, Row
  <2>3. \A k \in Kid : StageOf(keys'[k]) = IF k \in S THEN "signing" ELSE StageOf(keys[k])
    BY <2>2 DEF StageOf
  <2>4. [k \in Kid |-> StageOf(keys'[k])] = Lifecycle!Moved(S, "signing")
    <3>1. S \in SUBSET Kid
      OBVIOUS
    <3> HIDE DEF S
    <3> QED BY <2>3, <3>1, Moves
  <2>5. Lifecycle!TakeOver
    BY <1>5, <1>a, <2>2, <2>4, SinceKept DEF Lifecycle!TakeOver
  <2> QED BY <2>5 DEF Lifecycle!LNext
<1>6. ASSUME now' = now, Sweeps PROVE Lifecycle!LNext
  <2> DEFINE S == {k \in Kid : keys[k].status = "expiring" /\ keys[k].rotated_at + Overlap < now}
  <2>1. \A k \in Kid : /\ k \in S => keys'[k].status = "retired"
                       /\ k \notin S => keys'[k] = keys[k]
                       /\ keys'[k].rotated_at = keys[k].rotated_at
    BY <1>0, <1>6 DEF Sweeps, RetireExpired, Row
  <2>2. \A k \in Kid : StageOf(keys'[k]) = IF k \in S THEN "retired" ELSE StageOf(keys[k])
    BY <2>1 DEF StageOf
  <2>3. \A k \in S : StageOf(keys[k]) = "expiring" /\ keys[k].rotated_at + Overlap < now
    BY DEF StageOf
  <2>4. S \in SUBSET Kid
    OBVIOUS
  <2>5. Lifecycle!Expire(S)
    <3> HIDE DEF S
    <3> QED BY <1>6, <2>1, <2>2, <2>3, <2>4, Moves, SinceKept DEF Lifecycle!Expire
  <2> QED BY <2>4, <2>5 DEF Lifecycle!LNext
<1>7. ASSUME now' = now, Revokes
      PROVE  Lifecycle!LNext \/ UNCHANGED Lifecycle!lifecycle
  <2>1. PICK i \in Kid : keys' = RetireByKid(keys, i)
    BY <1>7 DEF Revokes
  <2>2. CASE keys[i].status \in {"absent", "retired"}
    BY <1>7, <2>1, <2>2 DEF RetireByKid, Lifecycle!lifecycle
  <2>3. CASE keys[i].status \notin {"absent", "retired"}
    <3>1. \A k \in Kid : StageOf(keys'[k]) = IF k \in {i} THEN "retired" ELSE StageOf(keys[k])
      BY <1>0, <2>1, <2>3, RevokeFacts DEF StageOf
    <3>2. \A k \in Kid : keys'[k].rotated_at = keys[k].rotated_at
      BY <1>0, <2>1, RevokeFacts
    <3>3. StageOf(keys[i]) \in {"published", "signing", "expiring"}
      BY <1>0, <2>3 DEF StageOf, Row, KeyStatus
    <3>4. Lifecycle!Revoke(i)
      BY <1>7, <3>1, <3>2, <3>3, Moves, SinceKept DEF Lifecycle!Revoke
    <3> QED BY <3>4 DEF Lifecycle!LNext
  <2> QED BY <2>2, <2>3
<1> QED
  BY <1>1, <1>2, <1>3, <1>4, <1>5, <1>6, <1>7, OneStatement DEF FirstBatch, NextSet

\* The key store, its three callers and the retirements by kid implement the
\* life cycle of a key, for any handlers, processes, jobs and algorithms: a key
\* moves one way, one key signs per algorithm, and one that has signed stays
\* verifiable for the overlap window.
THEOREM KeysLiveTheirCycle == Spec => ImplementsLifecycle
<1>1. Init => LifeInv /\ Lifecycle!LInit
  <2>1. Init => Lifecycle!LInit
    BY DEF Init, EmptyTable, NoRow, StageOf, Lifecycle!LInit
  <2> QED BY <2>1, LifeInit
<1>2. TypeOK /\ LifeInv /\ [Next]_vars => LifeInv'
  BY LifeKept
<1>3. TypeOK /\ TypeOK' /\ LifeInv /\ LifeInv' /\ [Next]_vars => [Lifecycle!LNext]_(Lifecycle!lifecycle)
  BY LifeStep
<1> QED BY <1>1, <1>2, <1>3, TypeInvariance, PTL DEF Spec, ImplementsLifecycle, Lifecycle!LSpec
=============================================================================
