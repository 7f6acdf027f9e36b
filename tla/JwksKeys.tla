------------------------------ MODULE JwksKeys ------------------------------
(***************************************************************************)
(* The jwks_keys table of one tenant and the queries the DB-backed key     *)
(* store runs on it (src/oidc/key-store).  Every query filters on          *)
(* tenant_id, so the rows of one tenant evolve independently of the rest.  *)
(*                                                                         *)
(* A row is named by its kid.  generateAndStoreKeys makes one key pair per *)
(* configured algorithm, so a kid is a pair <<batch, alg>>: the number of  *)
(* the generation that made it and its algorithm.  The key material is     *)
(* left out; status, promoted, created_at and rotated_at are kept.  The    *)
(* writes are those of the SQL (Prisma) repository: one statement, atomic. *)
(***************************************************************************)
EXTENDS Naturals, FiniteSets

CONSTANTS
    Alg,                \* security.key_store.algorithms
    MaxBatch,           \* bound: how many times a key set is generated
    MaxTime,            \* bound: last tick of the clock
    Overlap,            \* security.key_store.overlap_window_seconds, in ticks
    MinRotationInterval,\* MIN_ROTATION_INTERVAL_MS, in ticks
    RotationInterval    \* security.key_store.rotation_interval_days, in ticks

ASSUME JwksAssumption ==
    /\ Alg # {} /\ IsFiniteSet(Alg)
    /\ MaxBatch \in Nat /\ MaxTime \in Nat
    /\ Overlap \in Nat /\ MinRotationInterval \in Nat /\ RotationInterval \in Nat

Batch == 1..MaxBatch
Time == 0..MaxTime
Kid == Batch \X Alg
AlgOf(k) == k[2]

\* "absent": the row has not been inserted.
KeyStatus == {"absent", "active", "expiring", "retired"}

Row == [status: KeyStatus, promoted: BOOLEAN, created_at: Time, rotated_at: Time]

NoRow == [status |-> "absent", promoted |-> FALSE, created_at |-> 0, rotated_at |-> 0]

EmptyTable == [k \in Kid |-> NoRow]

-----------------------------------------------------------------------------
(* What a query sees.                                                      *)

IsActive(t, k) == t[k].status = "active"
IsCurrent(t, k) == t[k].status \in {"active", "expiring"}
IsPromotedActive(t, k) == IsActive(t, k) /\ t[k].promoted
IsUnpromotedActive(t, k) == IsActive(t, k) /\ ~t[k].promoted

\* countCurrent / findCurrent
Current(t) == {k \in Kid : IsCurrent(t, k)}

\* The row findNewestActive returns; rows of one batch share created_at.
NewestActive(t) ==
    CHOOSE k \in Kid : /\ IsActive(t, k)
                       /\ \A j \in Kid : IsActive(t, j) => t[j].created_at <= t[k].created_at

NeedsRotation(t, now) ==
    \/ \A k \in Kid : ~IsActive(t, k)
    \/ now >= t[NewestActive(t)].created_at + RotationInterval

\* sortByPromotionGroup: 0 signs first, 2 last.
PromotionGroup(t, k) ==
    IF IsPromotedActive(t, k) THEN 0 ELSE IF IsActive(t, k) THEN 1 ELSE 2

\* k precedes j, or ties with it, in the order getJWKS returns.
SortsBefore(t, k, j) ==
    \/ PromotionGroup(t, k) < PromotionGroup(t, j)
    \/ /\ PromotionGroup(t, k) = PromotionGroup(t, j)
       /\ t[k].created_at >= t[j].created_at

\* node-oidc-provider signs with the first key of the algorithm: the keys that
\* may come first (several, when created_at ties).
SigningCandidates(t, a) ==
    {k \in Current(t) : AlgOf(k) = a
        /\ \A j \in Current(t) : AlgOf(j) = a => SortsBefore(t, k, j)}

\* The guard of retireKey: k is the last promoted active key.
IsLastPromotedActive(t, k) ==
    /\ IsPromotedActive(t, k)
    /\ \A j \in Kid : j # k => ~IsPromotedActive(t, j)

-----------------------------------------------------------------------------
(* What a statement writes.                                                *)

\* Mutant: the migration that adds the index is missing.
NoUniqueIndex(t) == t = t

\* The partial unique index on (tenant_id, alg) WHERE active AND promoted.
UniqueIndexHolds(t) ==
    \A j, k \in Kid :
        (AlgOf(j) = AlgOf(k) /\ IsPromotedActive(t, j) /\ IsPromotedActive(t, k)) => j = k

\* generateAndStoreKeys + insertMany: batch b, one row per algorithm.
InsertBatch(t, b, promoted, now) ==
    [k \in Kid |-> IF k[1] = b
                   THEN [status |-> "active", promoted |-> promoted,
                         created_at |-> now, rotated_at |-> 0]
                   ELSE t[k]]

\* Mutant: the filter on promoted is missing.
MarkActiveExpiring(t, now) ==
    [k \in Kid |-> IF IsActive(t, k)
                   THEN [t[k] EXCEPT !.status = "expiring", !.rotated_at = now]
                   ELSE t[k]]

MarkPromotedActiveExpiring(t, now) ==
    [k \in Kid |-> IF IsPromotedActive(t, k)
                   THEN [t[k] EXCEPT !.status = "expiring", !.rotated_at = now]
                   ELSE t[k]]

PromoteUnpromotedActive(t) ==
    [k \in Kid |-> IF IsUnpromotedActive(t, k)
                   THEN [t[k] EXCEPT !.promoted = TRUE]
                   ELSE t[k]]

\* Mutant: the overlap is counted from the wrong side.
RetireInsideOverlap(t, now) ==
    [k \in Kid |-> IF t[k].status = "expiring" /\ t[k].rotated_at <= now
                   THEN [t[k] EXCEPT !.status = "retired"]
                   ELSE t[k]]

RetireExpired(t, now) ==
    [k \in Kid |-> IF t[k].status = "expiring" /\ t[k].rotated_at + Overlap < now
                   THEN [t[k] EXCEPT !.status = "retired"]
                   ELSE t[k]]

\* retireByKid clears promoted as well: only a retirement by kid leaves a
\* retired row that is not promoted.
RetireByKid(t, k) ==
    IF t[k].status \in {"absent", "retired"} THEN t
    ELSE [t EXCEPT ![k].status = "retired", ![k].promoted = FALSE]
=============================================================================
