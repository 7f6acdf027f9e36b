-------------------------- MODULE ProviderRegistry --------------------------
(***************************************************************************)
(* TenantProviderRegistry: the pool of OIDC providers of one web process,  *)
(* one provider per tenant, created on demand, evicted when idle or least  *)
(* recently used, dropped as a whole when the configuration changes, and   *)
(* told by Redis events to reload a tenant's keys.                         *)
(*                                                                         *)
(* A provider is abstracted to the version of the configuration and of the *)
(* tenant's key set it was built with, and to its identity.  Each await    *)
(* ends a step: requests, events, sweeps and configuration changes run     *)
(* between the steps of a creation or of a reload.                         *)
(***************************************************************************)
EXTENDS Naturals, FiniteSets

CONSTANTS
    Tenant,
    NoTenant,   \* what an idle call works for
    Creation,   \* createProvider calls that can be in flight at once
    Reload,     \* reloadProviderJWKS calls that can be in flight at once
    MaxSize,    \* provider_pool.max_size
    IdleTtl,    \* provider_pool.idle_ttl_ms, in ticks
    MaxTime,    \* bound: last tick of the clock
    MaxMade,    \* bound: providers created
    MaxConfig,  \* bound: configuration changes
    MaxKeys     \* bound: key changes of a tenant

ASSUME RegistryAssumption ==
    /\ NoTenant \notin Tenant
    /\ IsFiniteSet(Tenant) /\ IsFiniteSet(Creation)
    /\ MaxSize \in Nat \ {0} /\ IdleTtl \in Nat /\ MaxTime \in Nat
    /\ MaxMade \in Nat /\ MaxConfig \in Nat /\ MaxKeys \in Nat

VARIABLES
    pool,       \* pool[t]: the entry of tenant t; id = 0 when there is none
    locks,      \* the tenants with a promise in locks
    handlers,   \* the tenants with an entry in jwksHandlers
    subs,       \* subs[t]: handlers of t the pub/sub service still calls
    timer,      \* the idle sweep is scheduled
    making,     \* making[c]: createProvider call c
    reloads,    \* reloads[r]: reloadProviderJWKS call r
    config,     \* version of the configuration in ConfigManager
    keyset,     \* keyset[t]: version of the tenant's keys in the database
    events,     \* events[t]: jwks events published and not yet delivered
    made,       \* providers created so far; names the next
    now

vars == <<pool, locks, handlers, subs, timer, making, reloads, config, keyset, events, made, now>>

NoProvider == 0
NoEntry == [id |-> NoProvider, cfg |-> 0, keys |-> 0, lastAccessed |-> 0]
IdleCreation == [pc |-> "idle", tenant |-> NoTenant, id |-> NoProvider, cfg |-> 0, keys |-> 0]
IdleReload == [pc |-> "idle", tenant |-> NoTenant, id |-> NoProvider, got |-> 0]

Pooled == {t \in Tenant : pool[t].id # NoProvider}

\* Past the capacity check of createProvider, before the insertion.
Building == {c \in Creation : making[c].pc \in {"init", "jwks", "configure"}}

Init ==
    /\ pool = [t \in Tenant |-> NoEntry]
    /\ locks = {} /\ handlers = {}
    /\ subs = [t \in Tenant |-> 0]
    /\ timer = TRUE
    /\ making = [c \in Creation |-> IdleCreation]
    /\ reloads = [r \in Reload |-> IdleReload]
    /\ config = 0 /\ made = 0 /\ now = 0
    /\ keyset = [t \in Tenant |-> 0]
    /\ events = [t \in Tenant |-> 0]

\* Mutant: the handlers are forgotten, and not unsubscribed.
EvictSilently(S) ==
    /\ pool' = [t \in Tenant |-> IF t \in S THEN NoEntry ELSE pool[t]]
    /\ handlers' = handlers \ S
    /\ UNCHANGED subs

\* unsubscribeJwksForTenant and pool.delete, for every tenant of S.
Evict(S) ==
    /\ pool' = [t \in Tenant |-> IF t \in S THEN NoEntry ELSE pool[t]]
    /\ handlers' = handlers \ S
    /\ subs' = [t \in Tenant |-> IF t \in S \cap handlers THEN subs[t] - 1 ELSE subs[t]]

IsIdle(t) == t \in Pooled /\ now - pool[t].lastAccessed > IdleTtl

\* evictLRU takes one of the entries accessed longest ago.
LeastRecentlyUsed == {t \in Pooled : \A u \in Pooled : pool[t].lastAccessed <= pool[u].lastAccessed}

-----------------------------------------------------------------------------
(* getProvider and createProvider.                                         *)

\* The fast path; a request that finds a lock only waits for its promise.
Hit(t) ==
    /\ t \in Pooled /\ pool[t].lastAccessed # now
    /\ pool' = [pool EXCEPT ![t].lastAccessed = now]
    /\ UNCHANGED <<locks, handlers, subs, timer, making, reloads, config, keyset, events, made, now>>

\* Mutant: the promise is not shared.
MissUnlocked(c, t) ==
    /\ t \notin Pooled /\ making[c].pc = "idle" /\ made < MaxMade
    /\ made' = made + 1
    /\ making' = [making EXCEPT ![c] = [IdleCreation EXCEPT !.pc = "find", !.tenant = t, !.id = made + 1]]
    /\ UNCHANGED <<pool, locks, handlers, subs, timer, reloads, config, keyset, events, now>>

Miss(c, t) ==
    /\ t \notin Pooled /\ t \notin locks
    /\ making[c].pc = "idle" /\ made < MaxMade
    /\ locks' = locks \cup {t}
    /\ made' = made + 1
    /\ making' = [making EXCEPT ![c] = [IdleCreation EXCEPT !.pc = "find", !.tenant = t, !.id = made + 1]]
    /\ UNCHANGED <<pool, handlers, subs, timer, reloads, config, keyset, events, now>>

\* Mutant: room is made only when the pool is over its limit.
FindLate(c) ==
    /\ making[c].pc = "find"
    /\ making' = [making EXCEPT ![c].pc = "init", ![c].cfg = config]
    /\ \/ /\ Cardinality(Pooled) > MaxSize
          /\ \E t \in LeastRecentlyUsed : Evict({t})
       \/ /\ Cardinality(Pooled) <= MaxSize
          /\ UNCHANGED <<pool, handlers, subs>>
    /\ UNCHANGED <<locks, timer, reloads, config, keyset, events, made, now>>

\* findBySlug has returned the tenant: make room, then derive the issuer from
\* the configuration of the moment.
Find(c) ==
    /\ making[c].pc = "find"
    /\ making' = [making EXCEPT ![c].pc = "init", ![c].cfg = config]
    /\ \/ /\ Cardinality(Pooled) >= MaxSize
          /\ \E t \in LeastRecentlyUsed : Evict({t})
       \/ /\ Cardinality(Pooled) < MaxSize
          /\ UNCHANGED <<pool, handlers, subs>>
    /\ UNCHANGED <<locks, timer, reloads, config, keyset, events, made, now>>

\* keyStore.initialize, adapterBridge.initialize, the OIDC configuration and
\* initializeResourceServers.
Initialize(c) ==
    /\ making[c].pc = "init"
    /\ making' = [making EXCEPT ![c].pc = "jwks"]
    /\ UNCHANGED <<pool, locks, handlers, subs, timer, reloads, config, keyset, events, made, now>>

\* keyStore.getJWKS, and the provider is constructed.
GetJwks(c) ==
    /\ making[c].pc = "jwks"
    /\ making' = [making EXCEPT ![c].pc = "configure", ![c].keys = keyset[making[c].tenant]]
    /\ UNCHANGED <<pool, locks, handlers, subs, timer, reloads, config, keyset, events, made, now>>

\* providerConfigurator has returned: insert, subscribe, drop the lock.
Insert(c) ==
    /\ making[c].pc = "configure"
    /\ LET t == making[c].tenant IN
       /\ pool' = [pool EXCEPT ![t] = [id |-> making[c].id, cfg |-> making[c].cfg,
                                       keys |-> making[c].keys, lastAccessed |-> now]]
       /\ handlers' = handlers \cup {t}
       /\ subs' = [subs EXCEPT ![t] = @ + 1]
       /\ locks' = locks \ {t}
    /\ making' = [making EXCEPT ![c] = IdleCreation]
    /\ UNCHANGED <<timer, reloads, config, keyset, events, made, now>>

\* The tenant is unknown, or an await of the creation rejects.
CreateFails(c) ==
    /\ making[c].pc # "idle"
    /\ locks' = locks \ {making[c].tenant}
    /\ making' = [making EXCEPT ![c] = IdleCreation]
    /\ UNCHANGED <<pool, handlers, subs, timer, reloads, config, keyset, events, made, now>>

-----------------------------------------------------------------------------
(* Eviction, configuration changes and key events.                         *)

\* Mutant: the comparison is the wrong way round.
EvictBusy ==
    /\ timer
    /\ \E t \in Pooled : now - pool[t].lastAccessed < IdleTtl
    /\ Evict({t \in Pooled : now - pool[t].lastAccessed < IdleTtl})
    /\ UNCHANGED <<locks, timer, making, reloads, config, keyset, events, made, now>>

\* The sweep of the cleanup timer.
EvictIdle ==
    /\ timer
    /\ \E t \in Tenant : IsIdle(t)
    /\ Evict({t \in Tenant : IsIdle(t)})
    /\ UNCHANGED <<locks, timer, making, reloads, config, keyset, events, made, now>>

\* Mutant: the handlers are unsubscribed, the pool is left.
ShutdownKeepsPool ==
    /\ timer' = FALSE
    /\ locks' = {} /\ handlers' = {}
    /\ subs' = [t \in Tenant |-> IF t \in handlers THEN subs[t] - 1 ELSE subs[t]]
    /\ UNCHANGED pool

\* shutdown(): the sweep ends, and handlers, pool and locks are emptied.
Shutdown ==
    /\ timer' = FALSE
    /\ locks' = {} /\ handlers' = {}
    /\ subs' = [t \in Tenant |-> IF t \in handlers THEN subs[t] - 1 ELSE subs[t]]
    /\ pool' = [t \in Tenant |-> NoEntry]

\* ConfigManager installs a new configuration and notifies ProviderService,
\* which calls shutdown() before anything else runs.
ConfigChange ==
    /\ config < MaxConfig
    /\ config' = config + 1
    /\ Shutdown
    /\ UNCHANGED <<making, reloads, keyset, events, made, now>>

\* A rotation or a promotion commits and publishes its event.
KeyChange(t) ==
    /\ keyset[t] < MaxKeys
    /\ keyset' = [keyset EXCEPT ![t] = @ + 1]
    /\ events' = [events EXCEPT ![t] = @ + 1]
    /\ UNCHANGED <<pool, locks, handlers, subs, timer, making, reloads, config, made, now>>

\* The event reaches the process.  Nobody is subscribed: it is lost.  No
\* provider is pooled: the handler returns.
DropEvent(t) ==
    /\ events[t] > 0 /\ (subs[t] = 0 \/ t \notin Pooled)
    /\ events' = [events EXCEPT ![t] = @ - 1]
    /\ UNCHANGED <<pool, locks, handlers, subs, timer, making, reloads, config, keyset, made, now>>

\* rotatedHandler / promotedHandler: reloadProviderJWKS takes the entry.
StartReload(r, t) ==
    /\ events[t] > 0 /\ subs[t] > 0 /\ t \in Pooled
    /\ reloads[r].pc = "idle"
    /\ events' = [events EXCEPT ![t] = @ - 1]
    /\ reloads' = [reloads EXCEPT ![r] = [pc |-> "read", tenant |-> t, id |-> pool[t].id, got |-> 0]]
    /\ UNCHANGED <<pool, locks, handlers, subs, timer, making, config, keyset, made, now>>

ReadKeys(r) ==
    /\ reloads[r].pc = "read"
    /\ reloads' = [reloads EXCEPT ![r].pc = "install", ![r].got = keyset[reloads[r].tenant]]
    /\ UNCHANGED <<pool, locks, handlers, subs, timer, making, config, keyset, events, made, now>>

\* updateProviderJWKS on the provider taken before the await, pooled or not.
InstallKeys(r) ==
    /\ reloads[r].pc = "install"
    /\ LET t == reloads[r].tenant IN
       pool' = IF pool[t].id = reloads[r].id
               THEN [pool EXCEPT ![t].keys = reloads[r].got] ELSE pool
    /\ reloads' = [reloads EXCEPT ![r] = IdleReload]
    /\ UNCHANGED <<locks, handlers, subs, timer, making, config, keyset, events, made, now>>

Tick ==
    /\ now < MaxTime
    /\ now' = now + 1
    /\ UNCHANGED <<pool, locks, handlers, subs, timer, making, reloads, config, keyset, events, made>>

CreateStep(c) ==
    Find(c) \/ Initialize(c) \/ GetJwks(c) \/ Insert(c) \/ CreateFails(c)

Next ==
    \/ \E t \in Tenant : Hit(t) \/ KeyChange(t) \/ DropEvent(t)
    \/ \E c \in Creation : CreateStep(c) \/ \E t \in Tenant : Miss(c, t)
    \/ \E r \in Reload : ReadKeys(r) \/ InstallKeys(r) \/ \E t \in Tenant : StartReload(r, t)
    \/ EvictIdle \/ ConfigChange \/ Tick

Spec == Init /\ [][Next]_vars

\* setInterval: while the timer is set, the sweep runs again and again.
FairSpec == Spec /\ WF_vars(EvictIdle)

-----------------------------------------------------------------------------
(* Properties.                                                             *)

\* The variables have their types.
TypeOK ==
    /\ pool \in [Tenant -> [id: 0..MaxMade, cfg: 0..MaxConfig, keys: 0..MaxKeys,
                            lastAccessed: 0..MaxTime]]
    /\ locks \subseteq Tenant /\ handlers \subseteq Tenant
    /\ subs \in [Tenant -> Nat]
    /\ timer \in BOOLEAN
    /\ making \in [Creation -> [pc: {"idle", "find", "init", "jwks", "configure"},
                                tenant: Tenant \cup {NoTenant}, id: 0..MaxMade,
                                cfg: 0..MaxConfig, keys: 0..MaxKeys]]
    /\ reloads \in [Reload -> [pc: {"idle", "read", "install"}, tenant: Tenant \cup {NoTenant},
                               id: 0..MaxMade, got: 0..MaxKeys]]
    /\ config \in 0..MaxConfig /\ made \in 0..MaxMade /\ now \in 0..MaxTime
    /\ keyset \in [Tenant -> 0..MaxKeys]
    /\ events \in [Tenant -> Nat]

\* A tenant has JWKS handlers exactly while it is pooled: evictIdle, evictLRU
\* and shutdown take jwksHandlers.get(tenantId)! for granted, and a provider
\* without handlers would never see a rotation.  It survives creations that end
\* after a shutdown, and two creations of one tenant.
HandlersMatchPool == handlers = Pooled

\* A call in flight works for a tenant on a provider of its own, and every
\* registered handler is one the pub/sub service knows.
CallsAreReal ==
    /\ \A c \in Creation : making[c].pc # "idle" =>
            making[c].tenant \in Tenant /\ making[c].id # NoProvider
    /\ \A t \in handlers : subs[t] > 0
    /\ \A r \in Reload : reloads[r].pc # "idle" =>
            reloads[r].tenant \in Tenant /\ reloads[r].id # NoProvider

\* The pool overshoots max_size by no more than the creations that passed the
\* capacity check together (createProvider checks before five awaits and
\* inserts after them).
PoolWithinSlack == Cardinality(Pooled) + 1 <= MaxSize + Cardinality(Creation)

\* Why: a creation makes room for itself before it starts to build.
RoomIsMade ==
    Cardinality(Pooled) + Cardinality(Building) + 1 <= MaxSize + Cardinality(Creation)

\* "Per-tenant mutex to prevent duplicate creation during concurrent access"
\* (tenant-provider-registry.ts): one creation at a time for a tenant, until a
\* configuration change clears the locks.
SingleCreation ==
    config = 0 => \A c, d \in Creation :
        (making[c].pc # "idle" /\ making[c].tenant = making[d].tenant) => c = d

\* "tracked for unsubscribe on eviction" (tenant-provider-registry.ts): no
\* handler outlives its tenant's provider, until a configuration change lets two
\* creations of a tenant subscribe.
NoLeakedHandler == config = 0 => \A t \in Tenant : subs[t] = IF t \in Pooled THEN 1 ELSE 0

\* Why: a creation in flight holds the lock of its tenant, which has no provider.
LocksHeld ==
    config = 0 => \A c \in Creation :
        IF making[c].pc = "idle" THEN making[c].tenant = NoTenant
        ELSE making[c].tenant \in locks \ Pooled

\* "If the pool reaches max_size, the least recently used provider is evicted to
\* make room" (docs/multi-tenancy.md): the pool stays within max_size.
PoolBounded == Cardinality(Pooled) <= MaxSize

\* "clear the provider pool so that providers are recreated on-demand with
\* updated config" (provider.ts): no provider of an older configuration serves.
FreshConfig == \A t \in Pooled : pool[t].cfg = config

\* "When JWKS keys are rotated for a tenant, all application instances are
\* notified to refresh the provider's keystore" (docs/multi-tenancy.md): with no
\* event and no reload left, every pooled provider has the tenant's keys.
KeysCatchUp ==
    \A t \in Pooled :
        (events[t] = 0 /\ \A r \in Reload : reloads[r].tenant # t) => pool[t].keys = keyset[t]

\* While the sweep is scheduled, a provider that is idle is evicted or used again;
\* nothing is promised once shutdown() has stopped the sweep.
SweepEvicts == \A t \in Tenant : IsIdle(t) ~> (~IsIdle(t) \/ ~timer)

\* "Idle providers are automatically evicted to free memory"
\* (docs/multi-tenancy.md): one that is idle is evicted or used again.
IdleEvicted == \A t \in Tenant : IsIdle(t) ~> ~IsIdle(t)
=============================================================================
