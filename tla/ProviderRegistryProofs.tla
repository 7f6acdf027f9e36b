----------------------- MODULE ProviderRegistryProofs -----------------------
(***************************************************************************)
(* Proofs about ProviderRegistry for every number of tenants and of        *)
(* creations in flight, every pool size and every bound.                   *)
(***************************************************************************)
EXTENDS ProviderRegistry, FiniteSetTheorems, TLAPS

PoolType == [Tenant -> [id: 0..MaxMade, cfg: 0..MaxConfig, keys: 0..MaxKeys,
                        lastAccessed: 0..MaxTime]]
CreationRecord == [pc: {"idle", "find", "init", "jwks", "configure"},
                   tenant: Tenant \cup {NoTenant}, id: 0..MaxMade,
                   cfg: 0..MaxConfig, keys: 0..MaxKeys]
ReloadRecord == [pc: {"idle", "read", "install"}, tenant: Tenant \cup {NoTenant},
                 id: 0..MaxMade, got: 0..MaxKeys]

\* TypeOK with the record types named.
LEMMA TypeParts ==
    TypeOK <=>
    /\ pool \in PoolType
    /\ locks \subseteq Tenant /\ handlers \subseteq Tenant
    /\ subs \in [Tenant -> Nat]
    /\ timer \in BOOLEAN
    /\ making \in [Creation -> CreationRecord]
    /\ reloads \in [Reload -> ReloadRecord]
    /\ config \in 0..MaxConfig /\ made \in 0..MaxMade /\ now \in 0..MaxTime
    /\ keyset \in [Tenant -> 0..MaxKeys]
    /\ events \in [Tenant -> Nat]
BY DEF TypeOK, PoolType, CreationRecord, ReloadRecord

-----------------------------------------------------------------------------
(* The handlers.  HandlersMatchPool is inductive together with the types   *)
(* and CallsAreReal: a creation inserts a provider that is not NoProvider, *)
(* and an unsubscription finds a subscription to drop.                     *)

HInv == TypeOK /\ HandlersMatchPool /\ CallsAreReal

\* Eviction (unsubscribeJwksForTenant, pool.delete) keeps the types, drops the
\* handlers of exactly the tenants it evicts, and leaves the others alone.
LEMMA EvictKeeps ==
    ASSUME HInv, NEW S \in SUBSET Tenant, Evict(S)
    PROVE  /\ pool' \in PoolType /\ subs' \in [Tenant -> Nat] /\ handlers' \subseteq Tenant
           /\ {t \in Tenant : pool'[t].id # NoProvider} = Pooled \ S
           /\ handlers' = {t \in Tenant : pool'[t].id # NoProvider}
           /\ \A t \in handlers' : subs'[t] > 0
<1>1. /\ pool \in PoolType /\ subs \in [Tenant -> Nat] /\ handlers = Pooled
      /\ \A t \in handlers : subs[t] > 0
  BY TypeParts DEF HInv, HandlersMatchPool, CallsAreReal
<1>2. NoEntry \in [id: 0..MaxMade, cfg: 0..MaxConfig, keys: 0..MaxKeys, lastAccessed: 0..MaxTime]
      /\ NoEntry.id = NoProvider
  BY RegistryAssumption DEF NoEntry, NoProvider
<1>3. pool' = [t \in Tenant |-> IF t \in S THEN NoEntry ELSE pool[t]] /\ handlers' = handlers \ S
      /\ subs' = [t \in Tenant |-> IF t \in S \cap handlers THEN subs[t] - 1 ELSE subs[t]]
  BY DEF Evict
<1>4. pool' \in PoolType
  BY <1>1, <1>2, <1>3 DEF PoolType
<1>5. subs' \in [Tenant -> Nat] /\ \A t \in handlers' : subs'[t] > 0
  BY <1>1, <1>3 DEF Pooled
<1>6. {t \in Tenant : pool'[t].id # NoProvider} = Pooled \ S
  BY <1>1, <1>2, <1>3 DEF Pooled
<1> QED BY <1>1, <1>3, <1>4, <1>5, <1>6 DEF Pooled

\* The pool a step leaves alone keeps its tenants, and with them the handlers.
LEMMA PoolUntouched ==
    ASSUME HInv, UNCHANGED <<pool, handlers, subs>>
    PROVE  HandlersMatchPool' /\ \A t \in handlers' : subs'[t] > 0
BY DEF HInv, HandlersMatchPool, CallsAreReal, Pooled

\* A step that rewrites one creation by a record that is idle or works for a
\* tenant on a provider of its own keeps the creations real.
LEMMA CreationsReal ==
    ASSUME HInv, NEW c \in Creation, NEW m \in CreationRecord,
           making' = [making EXCEPT ![c] = m],
           m.pc = "idle" \/ (m.tenant \in Tenant /\ m.id # NoProvider)
    PROVE  /\ making' \in [Creation -> CreationRecord]
           /\ \A d \in Creation : making'[d].pc # "idle" =>
                  making'[d].tenant \in Tenant /\ making'[d].id # NoProvider
BY TypeParts DEF HInv, CallsAreReal

\* The same for the reloads.
LEMMA ReloadsReal ==
    ASSUME HInv, NEW r \in Reload, NEW m \in ReloadRecord,
           reloads' = [reloads EXCEPT ![r] = m],
           m.pc = "idle" \/ (m.tenant \in Tenant /\ m.id # NoProvider)
    PROVE  /\ reloads' \in [Reload -> ReloadRecord]
           /\ \A d \in Reload : reloads'[d].pc # "idle" =>
                  reloads'[d].tenant \in Tenant /\ reloads'[d].id # NoProvider
BY TypeParts DEF HInv, CallsAreReal

\* The resting calls are records of their types.
LEMMA IdleTypes == IdleCreation \in CreationRecord /\ IdleReload \in ReloadRecord
BY RegistryAssumption DEF IdleCreation, IdleReload, CreationRecord, ReloadRecord, NoProvider

\* In every reachable state a tenant has JWKS handlers exactly while it is
\* pooled, whatever creations, evictions, shutdowns and reloads interleave
\* (tenant-provider-registry.ts createProvider, evictIdle, evictLRU, shutdown).
THEOREM HandlersAlways == Spec => [](TypeOK /\ HandlersMatchPool /\ CallsAreReal)
<1>1. Init => HInv
  <2> SUFFICES ASSUME Init PROVE HInv OBVIOUS
  <2>1. TypeOK
    BY RegistryAssumption, IdleTypes, TypeParts DEF Init, PoolType, NoEntry, NoProvider
  <2>2. HandlersMatchPool /\ CallsAreReal
    BY DEF Init, HandlersMatchPool, CallsAreReal, Pooled, NoEntry, IdleCreation, IdleReload
  <2> QED BY <2>1, <2>2 DEF HInv
<1>2. HInv /\ [Next]_vars => HInv'
  <2> SUFFICES ASSUME HInv, [Next]_vars PROVE HInv' OBVIOUS
  <2> USE RegistryAssumption
  <2>0. /\ pool \in PoolType /\ locks \subseteq Tenant /\ handlers \subseteq Tenant
        /\ subs \in [Tenant -> Nat] /\ timer \in BOOLEAN
        /\ making \in [Creation -> CreationRecord] /\ reloads \in [Reload -> ReloadRecord]
        /\ config \in 0..MaxConfig /\ made \in 0..MaxMade /\ now \in 0..MaxTime
        /\ keyset \in [Tenant -> 0..MaxKeys] /\ events \in [Tenant -> Nat]
        /\ handlers = Pooled /\ CallsAreReal
    BY TypeParts DEF HInv, HandlersMatchPool
  <2>1. ASSUME NEW t \in Tenant, Hit(t) PROVE HInv'
    <3>1. pool' \in PoolType /\ \A u \in Tenant : pool'[u].id = pool[u].id
      BY <2>0, <2>1 DEF Hit, PoolType
    <3>2. TypeOK'
      BY <2>0, <2>1, <3>1 DEF Hit, TypeOK, PoolType, CreationRecord, ReloadRecord
    <3> QED BY <2>0, <2>1, <3>1, <3>2 DEF Hit, HInv, HandlersMatchPool, Pooled, CallsAreReal
  <2>2. ASSUME NEW t \in Tenant, KeyChange(t) PROVE HInv'
    <3>1. keyset' \in [Tenant -> 0..MaxKeys] /\ events' \in [Tenant -> Nat]
      BY <2>0, <2>2 DEF KeyChange
    <3>2. TypeOK'
      BY <2>0, <2>2, <3>1 DEF KeyChange, TypeOK, PoolType, CreationRecord, ReloadRecord
    <3> QED BY <2>0, <2>2, <3>2, PoolUntouched DEF KeyChange, HInv, CallsAreReal
  <2>3. ASSUME NEW t \in Tenant, DropEvent(t) PROVE HInv'
    <3>1. events' \in [Tenant -> Nat]
      BY <2>0, <2>3 DEF DropEvent
    <3>2. TypeOK'
      BY <2>0, <2>3, <3>1 DEF DropEvent, TypeOK, PoolType, CreationRecord, ReloadRecord
    <3> QED BY <2>0, <2>3, <3>2, PoolUntouched DEF DropEvent, HInv, CallsAreReal
  <2>4. ASSUME NEW c \in Creation, NEW t \in Tenant, Miss(c, t) PROVE HInv'
    <3> DEFINE m == [IdleCreation EXCEPT !.pc = "find", !.tenant = t, !.id = made + 1]
    <3>a. made + 1 \in 0..MaxMade /\ made + 1 # NoProvider
      BY <2>0, <2>4 DEF Miss, NoProvider
    <3>1. m \in CreationRecord /\ m.tenant = t /\ m.id # NoProvider
      BY <3>a, IdleTypes DEF CreationRecord
    <3>2. made' \in 0..MaxMade /\ locks' \subseteq Tenant /\ making' = [making EXCEPT ![c] = m]
      BY <2>0, <2>4 DEF Miss
    <3>3. /\ making' \in [Creation -> CreationRecord]
          /\ \A d \in Creation : making'[d].pc # "idle" =>
                  making'[d].tenant \in Tenant /\ making'[d].id # NoProvider
      BY <3>1, <3>2, CreationsReal
    <3>4. TypeOK'
      BY <2>0, <2>4, <3>2, <3>3 DEF Miss, TypeOK, PoolType, CreationRecord, ReloadRecord
    <3> QED BY <2>0, <2>4, <3>3, <3>4, PoolUntouched DEF Miss, HInv, CallsAreReal
  <2>5. ASSUME NEW c \in Creation, Find(c) PROVE HInv'
    <3> DEFINE m == [making[c] EXCEPT !.pc = "init", !.cfg = config]
    <3>1. m \in CreationRecord /\ m.tenant \in Tenant /\ m.id # NoProvider
      BY <2>0, <2>5 DEF Find, CreationRecord, CallsAreReal
    <3>2. making' = [making EXCEPT ![c] = m]
      BY <2>0, <2>5 DEF Find
    <3>3. /\ making' \in [Creation -> CreationRecord]
          /\ \A d \in Creation : making'[d].pc # "idle" =>
                  making'[d].tenant \in Tenant /\ making'[d].id # NoProvider
      BY <3>1, <3>2, CreationsReal
    <3>4. /\ pool' \in PoolType /\ subs' \in [Tenant -> Nat] /\ handlers' \subseteq Tenant
          /\ HandlersMatchPool' /\ \A t \in handlers' : subs'[t] > 0
      <4>1. CASE UNCHANGED <<pool, handlers, subs>>
        BY <2>0, <4>1, PoolUntouched
      <4>2. ASSUME NEW t \in LeastRecentlyUsed, Evict({t})
            PROVE  /\ pool' \in PoolType /\ subs' \in [Tenant -> Nat] /\ handlers' \subseteq Tenant
                   /\ HandlersMatchPool' /\ \A u \in handlers' : subs'[u] > 0
        <5>1. {t} \in SUBSET Tenant
          BY DEF LeastRecentlyUsed, Pooled
        <5> QED BY <4>2, <5>1, EvictKeeps DEF HandlersMatchPool, Pooled
      <4> QED BY <2>5, <4>1, <4>2 DEF Find
    <3>5. TypeOK'
      BY <2>0, <2>5, <3>3, <3>4 DEF Find, TypeOK, PoolType, CreationRecord, ReloadRecord
    <3> QED BY <2>0, <2>5, <3>3, <3>4, <3>5 DEF Find, HInv, CallsAreReal
  <2>6. ASSUME NEW c \in Creation, Initialize(c) PROVE HInv'
    <3> DEFINE m == [making[c] EXCEPT !.pc = "jwks"]
    <3>1. m \in CreationRecord /\ m.tenant \in Tenant /\ m.id # NoProvider
      BY <2>0, <2>6 DEF Initialize, CreationRecord, CallsAreReal
    <3>2. making' = [making EXCEPT ![c] = m]
      BY <2>0, <2>6 DEF Initialize
    <3>3. /\ making' \in [Creation -> CreationRecord]
          /\ \A d \in Creation : making'[d].pc # "idle" =>
                  making'[d].tenant \in Tenant /\ making'[d].id # NoProvider
      BY <3>1, <3>2, CreationsReal
    <3>4. TypeOK'
      BY <2>0, <2>6, <3>3 DEF Initialize, TypeOK, PoolType, CreationRecord, ReloadRecord
    <3> QED BY <2>0, <2>6, <3>3, <3>4, PoolUntouched DEF Initialize, HInv, CallsAreReal
  <2>7. ASSUME NEW c \in Creation, GetJwks(c) PROVE HInv'
    <3> DEFINE m == [making[c] EXCEPT !.pc = "configure", !.keys = keyset[making[c].tenant]]
    <3>1. m \in CreationRecord /\ m.tenant \in Tenant /\ m.id # NoProvider
      BY <2>0, <2>7 DEF GetJwks, CreationRecord, CallsAreReal
    <3>2. making' = [making EXCEPT ![c] = m]
      BY <2>0, <2>7 DEF GetJwks
    <3>3. /\ making' \in [Creation -> CreationRecord]
          /\ \A d \in Creation : making'[d].pc # "idle" =>
                  making'[d].tenant \in Tenant /\ making'[d].id # NoProvider
      BY <3>1, <3>2, CreationsReal
    <3>4. TypeOK'
      BY <2>0, <2>7, <3>3 DEF GetJwks, TypeOK, PoolType, CreationRecord, ReloadRecord
    <3> QED BY <2>0, <2>7, <3>3, <3>4, PoolUntouched DEF GetJwks, HInv, CallsAreReal
  <2>8. ASSUME NEW c \in Creation, Insert(c) PROVE HInv'
    <3> DEFINE t == making[c].tenant
               e == [id |-> making[c].id, cfg |-> making[c].cfg,
                     keys |-> making[c].keys, lastAccessed |-> now]
    <3>0. making[c] \in CreationRecord /\ t \in Tenant /\ making[c].id # NoProvider
      BY <2>0, <2>8 DEF Insert, CallsAreReal
    <3>1. /\ pool' = [pool EXCEPT ![t] = e] /\ handlers' = handlers \cup {t}
          /\ subs' = [subs EXCEPT ![t] = @ + 1] /\ locks' = locks \ {t}
          /\ making' = [making EXCEPT ![c] = IdleCreation]
      BY <2>8 DEF Insert
    <3>2. e \in [id: 0..MaxMade, cfg: 0..MaxConfig, keys: 0..MaxKeys, lastAccessed: 0..MaxTime]
      BY <2>0, <3>0 DEF CreationRecord
    <3>3. pool' \in PoolType /\ subs' \in [Tenant -> Nat]
      BY <2>0, <3>0, <3>1, <3>2 DEF PoolType
    <3>4. /\ making' \in [Creation -> CreationRecord]
          /\ \A d \in Creation : making'[d].pc # "idle" =>
                  making'[d].tenant \in Tenant /\ making'[d].id # NoProvider
      BY <3>1, IdleTypes, CreationsReal DEF IdleCreation
    <3>5. TypeOK'
      BY <2>0, <2>8, <3>0, <3>1, <3>3, <3>4
      DEF Insert, TypeOK, PoolType, CreationRecord, ReloadRecord
    <3>6. \A u \in Tenant : pool'[u].id # NoProvider <=> u \in Pooled \cup {t}
      BY <2>0, <3>0, <3>1 DEF Pooled, PoolType
    <3>7. HandlersMatchPool'
      BY <2>0, <3>0, <3>1, <3>6 DEF HandlersMatchPool, Pooled
    <3>8. \A u \in handlers' : subs'[u] > 0
      BY <2>0, <3>0, <3>1 DEF CallsAreReal
    <3> QED BY <2>0, <2>8, <3>4, <3>5, <3>7, <3>8 DEF Insert, HInv, CallsAreReal
  <2>9. ASSUME NEW c \in Creation, CreateFails(c) PROVE HInv'
    <3>1. locks' \subseteq Tenant /\ making' = [making EXCEPT ![c] = IdleCreation]
      BY <2>0, <2>9 DEF CreateFails
    <3>2. /\ making' \in [Creation -> CreationRecord]
          /\ \A d \in Creation : making'[d].pc # "idle" =>
                  making'[d].tenant \in Tenant /\ making'[d].id # NoProvider
      BY <3>1, IdleTypes, CreationsReal DEF IdleCreation
    <3>3. TypeOK'
      BY <2>0, <2>9, <3>1, <3>2 DEF CreateFails, TypeOK, PoolType, CreationRecord, ReloadRecord
    <3> QED BY <2>0, <2>9, <3>2, <3>3, PoolUntouched DEF CreateFails, HInv, CallsAreReal
  <2>10. ASSUME NEW r \in Reload, ReadKeys(r) PROVE HInv'
    <3> DEFINE m == [reloads[r] EXCEPT !.pc = "install", !.got = keyset[reloads[r].tenant]]
    <3>1. m \in ReloadRecord /\ m.tenant \in Tenant /\ m.id # NoProvider
      BY <2>0, <2>10 DEF ReadKeys, ReloadRecord, CallsAreReal
    <3>2. reloads' = [reloads EXCEPT ![r] = m]
      BY <2>0, <2>10 DEF ReadKeys
    <3>3. /\ reloads' \in [Reload -> ReloadRecord]
          /\ \A d \in Reload : reloads'[d].pc # "idle" =>
                  reloads'[d].tenant \in Tenant /\ reloads'[d].id # NoProvider
      BY <3>1, <3>2, ReloadsReal
    <3>4. TypeOK'
      BY <2>0, <2>10, <3>3 DEF ReadKeys, TypeOK, PoolType, CreationRecord, ReloadRecord
    <3> QED BY <2>0, <2>10, <3>3, <3>4, PoolUntouched DEF ReadKeys, HInv, CallsAreReal
  <2>11. ASSUME NEW r \in Reload, InstallKeys(r) PROVE HInv'
    <3>1. reloads[r] \in ReloadRecord /\ reloads[r].tenant \in Tenant
      BY <2>0, <2>11 DEF InstallKeys, CallsAreReal
    <3>2. reloads' = [reloads EXCEPT ![r] = IdleReload]
      BY <2>11 DEF InstallKeys
    <3>3. /\ reloads' \in [Reload -> ReloadRecord]
          /\ \A d \in Reload : reloads'[d].pc # "idle" =>
                  reloads'[d].tenant \in Tenant /\ reloads'[d].id # NoProvider
      BY <3>2, IdleTypes, ReloadsReal DEF IdleReload
    <3>4. pool' \in PoolType /\ \A u \in Tenant : pool'[u].id = pool[u].id
      BY <2>0, <2>11, <3>1 DEF InstallKeys, PoolType, ReloadRecord
    <3>5. TypeOK'
      BY <2>0, <2>11, <3>3, <3>4 DEF InstallKeys, TypeOK, PoolType, CreationRecord, ReloadRecord
    <3> QED BY <2>0, <2>11, <3>3, <3>4, <3>5
        DEF InstallKeys, HInv, HandlersMatchPool, Pooled, CallsAreReal
  <2>12. ASSUME NEW r \in Reload, NEW t \in Tenant, StartReload(r, t) PROVE HInv'
    <3> DEFINE m == [pc |-> "read", tenant |-> t, id |-> pool[t].id, got |-> 0]
    <3>1. m \in ReloadRecord /\ m.tenant \in Tenant /\ m.id # NoProvider
      BY <2>0, <2>12 DEF StartReload, ReloadRecord, PoolType, Pooled
    <3>2. reloads' = [reloads EXCEPT ![r] = m]
      BY <2>0, <2>12 DEF StartReload
    <3>3. /\ reloads' \in [Reload -> ReloadRecord]
          /\ \A d \in Reload : reloads'[d].pc # "idle" =>
                  reloads'[d].tenant \in Tenant /\ reloads'[d].id # NoProvider
      BY <3>1, <3>2, ReloadsReal
    <3>4. events' \in [Tenant -> Nat]
      BY <2>0, <2>12 DEF StartReload
    <3>5. TypeOK'
      BY <2>0, <2>12, <3>3, <3>4 DEF StartReload, TypeOK, PoolType, CreationRecord, ReloadRecord
    <3> QED BY <2>0, <2>12, <3>3, <3>5, PoolUntouched DEF StartReload, HInv, CallsAreReal
  <2>13. ASSUME EvictIdle PROVE HInv'
    <3>1. {t \in Tenant : IsIdle(t)} \in SUBSET Tenant
      OBVIOUS
    <3>2. /\ pool' \in PoolType /\ subs' \in [Tenant -> Nat] /\ handlers' \subseteq Tenant
          /\ HandlersMatchPool' /\ \A t \in handlers' : subs'[t] > 0
      BY <2>13, <3>1, EvictKeeps DEF EvictIdle, HandlersMatchPool, Pooled
    <3>3. TypeOK'
      BY <2>0, <2>13, <3>2 DEF EvictIdle, TypeOK, PoolType, CreationRecord, ReloadRecord
    <3> QED BY <2>0, <2>13, <3>2, <3>3 DEF EvictIdle, HInv, CallsAreReal
  <2>14. ASSUME ConfigChange PROVE HInv'
    <3>1. pool' \in PoolType /\ \A t \in Tenant : pool'[t].id = NoProvider
      BY <2>14 DEF ConfigChange, Shutdown, PoolType, NoEntry, NoProvider
    <3>2. subs' \in [Tenant -> Nat]
      BY <2>0, <2>14 DEF ConfigChange, Shutdown, CallsAreReal
    <3>a. config' \in 0..MaxConfig /\ locks' = {} /\ handlers' = {} /\ timer' = FALSE
      BY <2>0, <2>14 DEF ConfigChange, Shutdown
    <3>3. TypeOK'
      BY <2>0, <2>14, <3>1, <3>2, <3>a DEF ConfigChange, Shutdown, TypeOK, PoolType, CreationRecord, ReloadRecord
    <3> QED BY <2>0, <2>14, <3>1, <3>3
        DEF ConfigChange, Shutdown, HInv, HandlersMatchPool, Pooled, CallsAreReal
  <2>15. ASSUME Tick PROVE HInv'
    <3>1. TypeOK'
      BY <2>0, <2>15 DEF Tick, TypeOK, PoolType, CreationRecord, ReloadRecord
    <3> QED BY <2>0, <2>15, <3>1, PoolUntouched DEF Tick, HInv, CallsAreReal
  <2>16. CASE UNCHANGED vars
    BY <2>16 DEF vars, HInv, TypeOK, HandlersMatchPool, CallsAreReal, Pooled
  <2> QED
    BY <2>1, <2>2, <2>3, <2>4, <2>5, <2>6, <2>7, <2>8, <2>9, <2>10, <2>11, <2>12, <2>13,
       <2>14, <2>15, <2>16 DEF Next, CreateStep
<1>3. HInv => TypeOK /\ HandlersMatchPool /\ CallsAreReal
  BY DEF HInv
<1> QED BY <1>1, <1>2, <1>3, PTL DEF Spec

-----------------------------------------------------------------------------
(* The size of the pool.  PoolWithinSlack is not inductive: an insertion   *)
(* may add an entry.  RoomIsMade counts the creations that are building    *)
(* too, so that an insertion trades one for the other.                     *)

\* The counted sets are finite and have natural sizes.
LEMMA Finite ==
    /\ IsFiniteSet(Pooled) /\ IsFiniteSet(Building)
    /\ Cardinality(Pooled) \in Nat /\ Cardinality(Building) \in Nat
    /\ Cardinality(Creation) \in Nat
<1>1. Pooled \in SUBSET Tenant /\ Building \in SUBSET Creation
  BY DEF Pooled, Building
<1>2. IsFiniteSet(Pooled) /\ IsFiniteSet(Building)
  BY <1>1, FS_Subset, RegistryAssumption
<1> QED BY <1>2, FS_CardinalityType, RegistryAssumption

\* A step that adds nobody to the pool and no creation to the builders keeps
\* the room.
LEMMA FewerKeepRoom ==
    ASSUME RoomIsMade, Pooled' \subseteq Pooled, Building' \subseteq Building
    PROVE  RoomIsMade'
<1>1. Cardinality(Pooled') <= Cardinality(Pooled) /\ Cardinality(Building') <= Cardinality(Building)
  BY Finite, FS_Subset
<1>2. Cardinality(Pooled') \in Nat /\ Cardinality(Building') \in Nat
  <2>1. IsFiniteSet(Pooled') /\ IsFiniteSet(Building')
    BY Finite, FS_Subset
  <2> QED BY <2>1, FS_CardinalityType
<1> QED BY <1>1, <1>2, Finite, RegistryAssumption DEF RoomIsMade

\* The capacity check of createProvider (Find) makes room for the creation: it
\* evicts one provider, or the pool was below max_size and the creation itself
\* was not building.
LEMMA FindKeepsRoom ==
    ASSUME HInv, RoomIsMade, NEW c \in Creation, Find(c)
    PROVE  RoomIsMade'
<1> USE RegistryAssumption
<1>1. making \in [Creation -> CreationRecord] /\ making[c].pc = "find"
  BY TypeParts DEF HInv, Find
<1>2. c \notin Building /\ Building' = Building \cup {c}
  <2>1. /\ making'[c].pc = "init" /\ \A d \in Creation : d # c => making'[d] = making[d]
    BY <1>1 DEF Find, CreationRecord
  <2> QED BY <1>1, <2>1 DEF Building
<1>3. Cardinality(Building') = Cardinality(Building) + 1
  BY <1>2, Finite, FS_AddElement
<1>4. CASE /\ Cardinality(Pooled) >= MaxSize
           /\ \E t \in LeastRecentlyUsed : Evict({t})
  <2>1. PICK t \in LeastRecentlyUsed : Evict({t})
    BY <1>4
  <2>2. t \in Pooled /\ {t} \in SUBSET Tenant
    BY DEF LeastRecentlyUsed, Pooled
  <2>3. Pooled' = Pooled \ {t}
    BY <2>1, <2>2, EvictKeeps DEF Pooled
  <2>4. Cardinality(Pooled') = Cardinality(Pooled) - 1
    BY <2>2, <2>3, Finite, FS_RemoveElement
  <2> QED BY <1>3, <2>4, Finite DEF RoomIsMade
<1>5. CASE Cardinality(Pooled) < MaxSize /\ UNCHANGED <<pool, handlers, subs>>
  <2>1. Pooled' = Pooled
    BY <1>5 DEF Pooled
  <2>2. Cardinality(Building') <= Cardinality(Creation)
    <3>1. Building' \in SUBSET Creation
      BY <1>2 DEF Building
    <3> QED BY <3>1, FS_Subset
  <2> QED BY <1>3, <1>5, <2>1, <2>2, Finite DEF RoomIsMade
<1> QED BY <1>4, <1>5 DEF Find

\* The insertion into the pool trades one building creation for at most one
\* entry.
LEMMA InsertKeepsRoom ==
    ASSUME HInv, RoomIsMade, NEW c \in Creation, Insert(c)
    PROVE  RoomIsMade'
<1> USE RegistryAssumption
<1>1. /\ making \in [Creation -> CreationRecord] /\ making[c].pc = "configure"
      /\ making[c].tenant \in Tenant /\ making[c].id # NoProvider /\ pool \in PoolType
  BY TypeParts DEF HInv, Insert, CallsAreReal
<1>2. c \in Building /\ Building' = Building \ {c}
  <2>1. /\ making'[c].pc = "idle" /\ \A d \in Creation : d # c => making'[d] = making[d]
    BY <1>1 DEF Insert, IdleCreation
  <2> QED BY <1>1, <2>1 DEF Building
<1>3. Pooled' = Pooled \cup {making[c].tenant}
  BY <1>1 DEF Insert, Pooled, PoolType
<1>4. Cardinality(Building') = Cardinality(Building) - 1
  BY <1>2, Finite, FS_RemoveElement
<1>5. /\ Cardinality(Pooled') <= Cardinality(Pooled) + 1
      /\ Cardinality(Pooled') \in Nat
  <2>1. /\ IsFiniteSet(Pooled \cup {making[c].tenant})
        /\ Cardinality(Pooled \cup {making[c].tenant}) \in {Cardinality(Pooled), Cardinality(Pooled) + 1}
    BY Finite, FS_AddElement
  <2> QED BY <1>3, <2>1, Finite
<1> QED BY <1>4, <1>5, Finite DEF RoomIsMade

\* The pool never exceeds max_size by more than the number of creations in
\* flight less one, for every number of tenants and of requests: the bound the
\* check-then-insert of createProvider really gives.
THEOREM PoolAlmostBounded == Spec => []PoolWithinSlack
<1>1. Init => RoomIsMade
  <2> SUFFICES ASSUME Init PROVE RoomIsMade OBVIOUS
  <2>1. Pooled = {} /\ Building = {}
    BY DEF Init, Pooled, Building, NoEntry, IdleCreation
  <2> QED BY <2>1, FS_EmptySet, Finite, RegistryAssumption DEF RoomIsMade
<1>2. HInv /\ RoomIsMade /\ [Next]_vars => RoomIsMade'
  <2> SUFFICES ASSUME HInv, RoomIsMade, [Next]_vars PROVE RoomIsMade' OBVIOUS
  <2>0. pool \in PoolType /\ making \in [Creation -> CreationRecord]
    BY TypeParts DEF HInv
  <2>1. ASSUME NEW t \in Tenant, Hit(t) PROVE RoomIsMade'
    BY <2>0, <2>1, FewerKeepRoom DEF Hit, Pooled, Building, PoolType
  <2>2. ASSUME NEW t \in Tenant, KeyChange(t) \/ DropEvent(t) PROVE RoomIsMade'
    BY <2>2, FewerKeepRoom DEF KeyChange, DropEvent, Pooled, Building
  <2>3. ASSUME NEW c \in Creation, NEW t \in Tenant, Miss(c, t) PROVE RoomIsMade'
    BY <2>0, <2>3, FewerKeepRoom DEF Miss, Pooled, Building, IdleCreation
  <2>4. ASSUME NEW c \in Creation, Initialize(c) \/ GetJwks(c) PROVE RoomIsMade'
    BY <2>0, <2>4, FewerKeepRoom DEF Initialize, GetJwks, Pooled, Building, CreationRecord
  <2>5. ASSUME NEW c \in Creation, CreateFails(c) PROVE RoomIsMade'
    BY <2>0, <2>5, FewerKeepRoom DEF CreateFails, Pooled, Building, IdleCreation
  <2>6. ASSUME NEW r \in Reload, ReadKeys(r) \/ \E t \in Tenant : StartReload(r, t)
        PROVE  RoomIsMade'
    BY <2>6, FewerKeepRoom DEF ReadKeys, StartReload, Pooled, Building
  <2>7. ASSUME NEW r \in Reload, InstallKeys(r) PROVE RoomIsMade'
    BY <2>0, <2>7, FewerKeepRoom DEF InstallKeys, Pooled, Building, PoolType
  <2>8. ASSUME EvictIdle PROVE RoomIsMade'
    <3>1. Pooled' = Pooled \ {t \in Tenant : IsIdle(t)}
      BY <2>8, EvictKeeps DEF EvictIdle, Pooled
    <3> QED BY <2>8, <3>1, FewerKeepRoom DEF EvictIdle, Building
  <2>9. ASSUME ConfigChange PROVE RoomIsMade'
    BY <2>9, FewerKeepRoom DEF ConfigChange, Shutdown, Pooled, Building, NoEntry
  <2>10. CASE Tick \/ UNCHANGED vars
    BY <2>10, FewerKeepRoom DEF Tick, vars, Pooled, Building
  <2> QED
    BY <2>1, <2>2, <2>3, <2>4, <2>5, <2>6, <2>7, <2>8, <2>9, <2>10, FindKeepsRoom, InsertKeepsRoom
    DEF Next, CreateStep
<1>3. RoomIsMade => PoolWithinSlack
  BY Finite, RegistryAssumption DEF RoomIsMade, PoolWithinSlack
<1>4. Spec => []HInv
  BY HandlersAlways, PTL DEF HInv
<1> QED BY <1>1, <1>2, <1>3, <1>4, PTL DEF Spec
-----------------------------------------------------------------------------
(* One creation per tenant, and no handler left behind, while the          *)
(* configuration is the first.  Neither is inductive: the insertion of a   *)
(* second creation would subscribe twice.  LocksHeld rules it out: the     *)
(* tenant of a creation in flight is locked and has no provider.           *)

OInv == LocksHeld /\ SingleCreation /\ NoLeakedHandler

\* A step that leaves locks, creations and subscriptions alone and pools nobody new.
LEMMA SameCreations ==
    ASSUME HInv, OInv, config' \in Nat, config' = 0 => config = 0,
           UNCHANGED <<locks, making, subs>>, Pooled' = Pooled
    PROVE  OInv'
BY DEF OInv, LocksHeld, SingleCreation, NoLeakedHandler

\* An eviction takes the one subscription of each tenant it evicts with it.
LEMMA EvictKeepsOne ==
    ASSUME HInv, OInv, NEW S \in SUBSET Tenant, Evict(S), UNCHANGED config
    PROVE  NoLeakedHandler' /\ Pooled' = Pooled \ S
<1>1. /\ pool \in PoolType /\ subs \in [Tenant -> Nat] /\ handlers = Pooled
  BY TypeParts DEF HInv, HandlersMatchPool
<1>2. Pooled' = Pooled \ S
  BY EvictKeeps DEF Pooled
<1>3. \A t \in Tenant : subs'[t] = IF t \in S \cap Pooled THEN subs[t] - 1 ELSE subs[t]
  BY <1>1 DEF Evict
<1> QED BY <1>2, <1>3 DEF OInv, NoLeakedHandler

\* A step of a creation that keeps its tenant and the locks keeps them held.
LEMMA StepKeepsLocks ==
    ASSUME HInv, OInv, NEW c \in Creation, NEW m \in CreationRecord,
           making[c].pc # "idle", m.pc # "idle", m.tenant = making[c].tenant,
           making' = [making EXCEPT ![c] = m],
           UNCHANGED <<locks, config>>, Pooled' \subseteq Pooled
    PROVE  LocksHeld' /\ SingleCreation'
<1>1. making \in [Creation -> CreationRecord]
  BY TypeParts DEF HInv
<1>2. \A d \in Creation : /\ making'[d].tenant = making[d].tenant
                          /\ making'[d].pc = "idle" <=> making[d].pc = "idle"
  BY <1>1
<1> QED BY <1>2 DEF OInv, LocksHeld, SingleCreation

\* A creation that ends gives back the lock, which no other creation holds.
LEMMA EndKeepsLocks ==
    ASSUME HInv, OInv, NEW c \in Creation, making[c].pc # "idle",
           making' = [making EXCEPT ![c] = IdleCreation],
           locks' = locks \ {making[c].tenant}, UNCHANGED config,
           Pooled' \subseteq Pooled \cup {making[c].tenant}
    PROVE  LocksHeld' /\ SingleCreation'
<1>1. making \in [Creation -> CreationRecord] /\ making[c].tenant \in Tenant
  BY TypeParts DEF HInv, CallsAreReal
<1>2. \A d \in Creation : making'[d] = IF d = c THEN IdleCreation ELSE making[d]
  BY <1>1
<1>3. IdleCreation.pc = "idle" /\ IdleCreation.tenant = NoTenant
  BY DEF IdleCreation
<1>4. ASSUME config = 0, NEW d \in Creation, d # c, making[d].pc # "idle"
      PROVE  making[d].tenant # making[c].tenant /\ making[d].tenant \in Tenant
  BY <1>4 DEF OInv, SingleCreation, HInv, CallsAreReal
<1>5. LocksHeld'
  BY <1>2, <1>3, <1>4 DEF OInv, LocksHeld
<1>6. SingleCreation'
  <2> SUFFICES ASSUME config = 0, NEW d \in Creation, NEW e \in Creation,
                      making'[d].pc # "idle", making'[d].tenant = making'[e].tenant
               PROVE  d = e
    BY DEF SingleCreation
  <2>1. d # c /\ making[d].pc # "idle" /\ making'[d].tenant = making[d].tenant
    BY <1>2, <1>3
  <2>2. making[d].tenant \in Tenant
    BY <2>1, <1>4
  <2>3. e # c
    BY <1>2, <1>3, <2>1, <2>2, RegistryAssumption
  <2> QED BY <1>2, <2>1, <2>3 DEF OInv, SingleCreation
<1> QED BY <1>5, <1>6

\* While the configuration has not changed, a tenant is created once at a time
\* and has one subscription just while it is pooled, for every number of tenants,
\* requests and evictions (tenant-provider-registry.ts locks, jwksHandlers).
THEOREM OneCreationPerTenant == Spec => [](SingleCreation /\ NoLeakedHandler)
<1> USE RegistryAssumption
<1>1. Init => OInv
  BY DEF Init, OInv, LocksHeld, SingleCreation, NoLeakedHandler, Pooled, NoEntry, IdleCreation
<1>2. HInv /\ OInv /\ [Next]_vars => OInv'
  <2> SUFFICES ASSUME HInv, OInv, [Next]_vars PROVE OInv' OBVIOUS
  <2>0. /\ pool \in PoolType /\ making \in [Creation -> CreationRecord] /\ config \in Nat
        /\ locks \subseteq Tenant /\ subs \in [Tenant -> Nat] /\ handlers = Pooled
    BY TypeParts DEF HInv, HandlersMatchPool
  <2>1. ASSUME NEW t \in Tenant, Hit(t) PROVE OInv'
    <3>1. Pooled' = Pooled
      BY <2>0, <2>1 DEF Hit, Pooled, PoolType
    <3> QED BY <2>0, <2>1, <3>1, SameCreations DEF Hit
  <2>2. ASSUME NEW t \in Tenant, KeyChange(t) \/ DropEvent(t) PROVE OInv'
    <3>1. Pooled' = Pooled
      BY <2>2 DEF KeyChange, DropEvent, Pooled
    <3> QED BY <2>0, <2>2, <3>1, SameCreations DEF KeyChange, DropEvent
  <2>3. ASSUME NEW r \in Reload, ReadKeys(r) \/ InstallKeys(r) \/ \E t \in Tenant : StartReload(r, t)
        PROVE  OInv'
    <3>1. Pooled' = Pooled
      BY <2>0, <2>3 DEF ReadKeys, InstallKeys, StartReload, Pooled, PoolType
    <3> QED BY <2>0, <2>3, <3>1, SameCreations DEF ReadKeys, InstallKeys, StartReload
  <2>4. ASSUME NEW c \in Creation, NEW t \in Tenant, Miss(c, t) PROVE OInv'
    <3>1. /\ \A d \in Creation : d # c => making'[d] = making[d]
          /\ making'[c].pc = "find" /\ making'[c].tenant = t
      BY <2>0, <2>4 DEF Miss, IdleCreation
    <3>2. config' = config /\ locks' = locks \cup {t} /\ t \notin locks /\ Pooled' = Pooled /\ subs' = subs
          /\ t \notin Pooled
      BY <2>4 DEF Miss, Pooled
    <3>3. \A d \in Creation : config = 0 /\ d # c => making[d].tenant # t
      BY <3>2 DEF OInv, LocksHeld
    <3>4. LocksHeld'
      BY <3>1, <3>2 DEF OInv, LocksHeld
    <3>5. SingleCreation'
      BY <3>1, <3>2, <3>3 DEF OInv, SingleCreation
    <3> QED BY <3>2, <3>4, <3>5 DEF OInv, NoLeakedHandler
  <2>5. ASSUME NEW c \in Creation, Find(c) PROVE OInv'
    <3> DEFINE m == [making[c] EXCEPT !.pc = "init", !.cfg = config]
    <3>1. /\ m \in CreationRecord /\ m.pc # "idle" /\ m.tenant = making[c].tenant
          /\ making' = [making EXCEPT ![c] = m] /\ making[c].pc # "idle"
      <4>1. config \in 0..MaxConfig
        BY TypeParts DEF HInv
      <4> QED BY <2>0, <2>5, <4>1 DEF Find, CreationRecord
    <3>2. UNCHANGED <<locks, config>>
      BY <2>5 DEF Find
    <3>3. NoLeakedHandler' /\ Pooled' \subseteq Pooled
      <4>1. CASE UNCHANGED <<pool, handlers, subs>>
        BY <3>2, <4>1 DEF OInv, NoLeakedHandler, Pooled
      <4>2. ASSUME NEW t \in LeastRecentlyUsed, Evict({t})
            PROVE  NoLeakedHandler' /\ Pooled' \subseteq Pooled
        <5>1. {t} \in SUBSET Tenant
          BY DEF LeastRecentlyUsed, Pooled
        <5> QED BY <3>2, <4>2, <5>1, EvictKeepsOne
      <4> QED BY <2>5, <4>1, <4>2 DEF Find
    <3>4. LocksHeld' /\ SingleCreation'
      BY <3>1, <3>2, <3>3, StepKeepsLocks
    <3> QED BY <3>3, <3>4 DEF OInv
  <2>6. ASSUME NEW c \in Creation, Initialize(c) \/ GetJwks(c) PROVE OInv'
    <3> DEFINE m == making'[c]
    <3>1. /\ m \in CreationRecord /\ m.pc # "idle" /\ m.tenant = making[c].tenant
          /\ making[c].pc # "idle" /\ making' = [making EXCEPT ![c] = m]
      <4>1. CASE Initialize(c)
        BY <2>0, <4>1 DEF Initialize, CreationRecord
      <4>2. CASE GetJwks(c)
        <5>1. making[c].tenant \in Tenant /\ keyset[making[c].tenant] \in 0..MaxKeys
          BY <4>2, TypeParts DEF GetJwks, HInv, CallsAreReal
        <5> QED BY <2>0, <4>2, <5>1 DEF GetJwks, CreationRecord
      <4> QED BY <2>6, <4>1, <4>2
    <3>2. UNCHANGED <<locks, config, subs, pool>> /\ Pooled' = Pooled
      BY <2>6 DEF Initialize, GetJwks, Pooled
    <3>3. LocksHeld' /\ SingleCreation'
      BY <3>1, <3>2, StepKeepsLocks
    <3> QED BY <3>2, <3>3 DEF OInv, NoLeakedHandler
  <2>7. ASSUME NEW c \in Creation, Insert(c) PROVE OInv'
    <3>1. /\ making[c].tenant \in Tenant /\ making[c].id # NoProvider /\ making[c].pc # "idle"
      BY <2>7 DEF Insert, HInv, CallsAreReal
    <3>2. Pooled' = Pooled \cup {making[c].tenant}
      BY <2>0, <2>7, <3>1 DEF Insert, Pooled, PoolType
    <3>3. LocksHeld' /\ SingleCreation'
      BY <2>7, <3>1, <3>2, EndKeepsLocks DEF Insert
    <3>4. config = 0 => making[c].tenant \notin Pooled
      BY <3>1 DEF OInv, LocksHeld
    <3>5. NoLeakedHandler'
      BY <2>0, <2>7, <3>1, <3>2, <3>4 DEF Insert, OInv, NoLeakedHandler
    <3> QED BY <3>3, <3>5 DEF OInv
  <2>8. ASSUME NEW c \in Creation, CreateFails(c) PROVE OInv'
    <3>1. UNCHANGED <<config, subs>> /\ Pooled' = Pooled
      BY <2>8 DEF CreateFails, Pooled
    <3>2. LocksHeld' /\ SingleCreation'
      BY <2>8, <3>1, EndKeepsLocks DEF CreateFails
    <3> QED BY <3>1, <3>2 DEF OInv, NoLeakedHandler
  <2>9. ASSUME EvictIdle PROVE OInv'
    <3>1. {t \in Tenant : IsIdle(t)} \in SUBSET Tenant
      OBVIOUS
    <3>2. NoLeakedHandler' /\ Pooled' \subseteq Pooled
      BY <2>9, <3>1, EvictKeepsOne DEF EvictIdle
    <3> QED BY <2>9, <3>2 DEF EvictIdle, OInv, LocksHeld, SingleCreation
  <2>10. ASSUME ConfigChange PROVE OInv'
    BY <2>0, <2>10 DEF ConfigChange, OInv, LocksHeld, SingleCreation, NoLeakedHandler
  <2>11. CASE Tick \/ UNCHANGED vars
    <3>1. Pooled' = Pooled
      BY <2>11 DEF Tick, vars, Pooled
    <3> QED BY <2>0, <2>11, <3>1, SameCreations DEF Tick, vars
  <2> QED
    BY <2>1, <2>2, <2>3, <2>4, <2>5, <2>6, <2>7, <2>8, <2>9, <2>10, <2>11 DEF Next, CreateStep
<1>3. Spec => []HInv
  BY HandlersAlways, PTL DEF HInv
<1> QED BY <1>1, <1>2, <1>3, PTL DEF Spec, OInv
=============================================================================
