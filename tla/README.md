# Parako.ID in TLA+

Parako.ID is a multi-tenant OpenID Connect server (Express, node-oidc-provider,
MongoDB or SQL, Redis, BullMQ). This directory models the parts of it whose
correctness depends on the order in which processes, requests, jobs and events
run: the rotation of signing keys, the storage and propagation of the
configuration of the platform and of a tenant, the pool of per-tenant providers, browser
sessions that hold several accounts, account recovery, the credentials of a user, and the
records of the OIDC provider with their revocation. TLC
checks small instances; TLAPS proves the safety properties, under the conditions that section 4
names, and the refinement of the key lifecycle, for every instance.

## 1. The system

A deployment is one or more web processes (`app.ts`, clustered or replicated), one or more
background workers (`worker.ts`), a database, and optionally Redis for pub/sub, BullMQ
and the OIDC adapter. Node.js runs one callback at a time, so inside a process
code is atomic between two `await`s; between processes only single database
statements are.

| Component | State | Operations | Talks to | What makes it correct |
|---|---|---|---|---|
| Key store (`oidc/key-store`) | `jwks_keys` rows per tenant; an in-memory rotation guard per process | `initialize`, `rotate` (phase 1), `promoteKeys` (phase 2), `retireExpiredKeys`, `retireKey`, `getJWKS` | admin panel, Management API, worker; announces on Redis | there is always an active key; one signer per algorithm; keys move one way and stay verifiable for the overlap window; a rotation once begun is finished |
| Background jobs (`jobs/`, `worker.ts`) | BullMQ jobs with attempts | cron schedule, rotation job, delayed promotion job | key store, Redis | retries end; nothing is lost by a restart |
| Configuration (`config/`, `services/settings.service.ts`, `db/repositories/*/settings.repository.ts`) | versioned settings rows with one active; a cache and an update lock per process | `load`, `flushInitial`, `update`, `reload`, polling, events | admin settings pages, provider registry, Redis | no saved edit is lost by a save that knows its version; a configuration can always be loaded; a process acts on what it is told and never steps back by its own saves; updates end |
| Tenant provider registry (`multi-tenancy/tenant-provider-registry.ts`) | pool of providers, locks, event handlers, sweep timer | `getProvider`, `createProvider`, `evictIdle`, `evictLRU`, `shutdown`, `reloadProviderJWKS` | configuration changes, key events | pool is bounded; one creation per tenant; handlers exactly for pooled tenants; providers have current configuration and keys |
| Single-tenant provider (`oidc/provider.ts`) | one provider, replaced on change | `recreateProvider`, `reloadJWKS` | configuration, key events | last change wins |
| Tenant configuration (`services/tenant-settings-override.service.ts`, its repository, `config/index.ts`, the branding pages) | override document per tenant, logo files, cached merge per process | section saves and resets, logo upload and removal, merge, invalidation | configuration, registry | no section lost; a cache is the merge of what is stored; a page never names a deleted logo; a lone save succeeds |
| Redis pub/sub (`services/redis-pubsub.service.ts`) | handlers by channel, connection | subscribe, unsubscribe, publish, reconnect | everything above | a registered handler is called |
| Sessions (`utils/session.ts`, the session stores, sign-in and account handlers) | stored sessions with an active account and others; copies in requests | sign-in on thirteen routes, switch, add, remove, logout, revocation, session limit | credentials, OIDC flows | a revoked or removed account does not come back; no account with a second factor enters without it except by an OIDC flow; the limit holds up to concurrency |
| Recovery (`utils/recovery.ts`, `services/recovery.service.ts`, both controllers) | recovery document of a user, challenge in the session | recover by backup code, SMS, e-mail or questions; settings pages | credentials, sessions | a code is used once; wrong attempts are limited; credentials are frozen after a recovery |
| Credentials (`services/auth.service.ts`, `user.service.ts`, `mfa.service.ts`) | password hash and reset token, phone challenge, second factors | login, reset, change, renew, verify, enrol, disable | users, SMS, mail | an old password stays dead; a reset link works once; the flag and the methods agree |
| E-mail verification, registration, WebAuthn, social login | tokens, challenges | verify, consume | users, sessions | a token is used once |
| OIDC adapters (`oidc/adapter`), logout and session revocation | sessions, grants, tokens, codes, interactions, clients, in Redis, MongoDB or SQL | upsert, find, consume, destroy, `revokeByGrantId`; `logoutOIDC`; client pages | node-oidc-provider, account and admin pages | a revoked grant leaves no token; what was consumed stays so; nothing is of use after a logout; a deleted client stays deleted |
| Activity log, notifications, users, tenants, data transfer, rate limits, HTTP layer, installer | records, files | CRUD, rendering | all | not concurrency-critical, or external |

`PROJECT.json` lists the components with their files and status, and under `hazards`
the places where this code is hard to test, each with the properties that watch it.

What is hard here: rotation, saving and provider creation are sequences of
awaits without a transaction; their guards live in the memory of one process or in
a read that is stale when used; workers and web processes die between steps and
BullMQ retries the whole handler; Redis events are lost, late, or handled
concurrently; a configuration change resets the registry in the middle of its
own work; and sessions, recovery documents and user records are read whole, worked on across
awaits, and written back whole over whatever happened since.

## 2. Modules

| Module | Models |
|---|---|
| `JwksKeys` | the rows of one tenant and the statements of the SQL repository (one statement, atomic), the partial unique index, the order of `getJWKS` |
| `KeyRotation` | requests and jobs in flight on those rows: `initialize`, admin and API rotation, worker rotation with delayed promotion, sweeps, retirement by kid, BullMQ attempts, crashes, the clock |
| `KeyLifecycle` | abstract specification: what the key store promises of a key's life |
| `SettingsRevisions` | the settings rows and the statements of the SQL settings repository |
| `ConfigUpdate` | saves, forms, process starts, the update lock, caches, events that may be lost, polling, reloads that overlap, queries that throw, crashes |
| `ProviderRegistry` | the registry of one process: creations, hits, sweeps, configuration changes, key events and reloads |
| `TenantConfig` | the override document of a tenant, its logo files, the requests that write them, the merged configuration each process caches, platform updates, events, crashes |
| `AccountSessions` | sessions, the copies requests work on, the routes by which an account gets into a session, the account pages, the session limit, revocation |
| `AccountRecovery` | the recovery document of a user, the four ways to recover, both lockouts, the cooldown, the settings pages |
| `Credentials` | password with reset token and hash upgrade, phone challenge with compensation, enrolled second factors |
| `OidcStore` | the records of the OIDC provider in the three adapters, saves, consumption, revocation by grant, logout, revocation of sessions, clients |
| `...Proofs` | the theorems about a module and their proofs: `KeyRotationProofs`, `ProviderRegistryProofs`, `ConfigUpdateProofs`, `TenantConfigProofs`, `AccountSessionsProofs`, `AccountRecoveryProofs`, `CredentialsProofs`, `OidcStoreProofs` |
| `MC...` | instances for TLC |

### Keys

A key is `<<batch, algorithm>>`: `generateAndStoreKeys` makes one key per
configured algorithm, and the batch number names the generation. Key material and
its encryption are left out. `op[h]` is the program counter of a handler; each
value of `pc` is an await of `db-key-store.ts` or of its caller:

    admin:  guard -> insert -> demote -> publishRotated -> promote -> publishPromoted -> retire
    api:    guard -> insert -> demote -> promote -> publishApi
    worker: needsRotation -> guard -> insert -> demote -> publishRotated -> schedule
            ... later, as a job of its own: promote -> publishPromoted -> retire
    retireKey: check in the controller -> check in the store -> update by kid

`guardRapidRotation` is a set of at most one time per process (`lastRotationAt`), read
before the first await and written after the last. The database refuses a
statement that would break `jwks_keys_one_promoted_active_per_algorithm`; then
`Promote` throws and the job loses an attempt. `Crash(p)` empties a process: its
requests vanish, its guard is forgotten, its jobs stall and lose an attempt.
BullMQ is external: only its attempts and the delayed job are kept, as
`jobs/config.ts` sets them. The promotion job takes the slot of the rotation
job that scheduled it, so that `MaxJob` bounds the queue and not the behaviour.

### Configuration

The content of a configuration is the set of writers whose edit it contains, so a lost
edit is a missing element. Each writer saves once, and its row bears its name.
A save goes through

    queued (update lock) -> load -> check -> history -> claim (deactivate) -> latest
      -> create (insert) -> cleanup -> prune -> reread -> install -> publish

with the early returns of the code: a conflict is retried from `queued` up to
`MaxAttempts` times unless the caller gave a version; a claim that deactivated
nothing is a conflict, or with no expected version another attempt, the last of
which goes on to `create`; an insert the unique index refuses is another
attempt; `load` and `reread` throw when rows exist and none is active. `Fail`
puts back the cache found at the start. Any other query of the writers and reloads
in `Failing` may throw too (`QueryFails`, `ReloadFails`): what was written stays
written, so a save may fail after its insertion, and the deletions of the cleanup
may stop half way, which is only logged. Writers in `Form` are application
settings pages, which take their values from the cache and their version from the
database and save the whole section; writers in `Boot` are starting processes.

A configuration in memory is named by the row it was read from. `Broadcast` reaches
any set of the other processes: without a connected pub/sub nothing is published,
and a failed publish is only logged. The handler of an event starts a reload
without waiting for those before it, so reloads overlap; a reload that fails puts
back the cache it found. `past` is not in the code: it keeps, for the properties, the age
of the newest row a process was told of and of the newest it installed, and whether
something else wrote its cache since its last save began.

- The SQL repository is modelled. The Mongo repository runs the same protocol; it
  counts the version from the row it deactivated instead of a second read.
- `SettingsService.acquireConfigLock` serialises the saves of a process, which
  the update lock of `ConfigManager` already does; it has no state of its own here.
- The deletions of `cleanupOldVersions` are one step: each deletes one row by id and
  none depends on another.
- Change streams of a Mongo replica set, encryption of secrets, computed
  defaults, `migrateFromFile`, rollback and the per-tenant merge are left out.

### Registry

A provider is its identity and the versions of configuration and keys it was built
with. `making[c]` is a `createProvider` call, whose awaits are `find`, `init`, `jwks`,
`configure`; requests, evictions, events and configuration changes run between them.
`subs[t]` counts the handlers Redis still calls, `handlers` is the map the
registry unsubscribes from; the code is right to forget neither only if they
agree. `ConfigChange` is the whole chain from the new configuration to `shutdown()`,
which runs synchronously in the subscriber.

### Tenant configuration

A document has the sections branding (logo, colors) and security (a level on which the
platform sets a floor); the value 0 is "not overridden". Of the rows of a tenant only the active
one, and whether there is any, can ever matter, because nothing reads an inactive one. There are
two keys: middleware and panel store under the slug, `PUT /tenants/:slug/config/:section` under the
record's identifier. `job[r]` is a request:

    load (branding only) -> read -> deactivate -> latest -> create -> publish -> cleanup

with the attempts of `save()` as in `ConfigUpdate`: rows and none active is another save at work,
except for the last attempt, which goes on; a `create` the unique index refuses is another attempt.
`EnsureTenantConfig`, `QueryOverrides` and `SetTenantConfig` are the awaits of
`ensureTenantConfig` in a process, `Evicted` what an invalidation does to entry and load. An event reaches any set
of the other processes: `invalidateTenantConfig` publishes nothing where pub/sub is not connected and only logs a failed
publish, and a process may not be listening; `missed` remembers who then holds what is outdated.
The platform's configuration is only its floor: its own protocol is `ConfigUpdate`.
Encryption of secrets, the field whitelist and the other constraints (which have the shape of the
floor) are left out.

### Sessions

`store` is the session store, `req[t]` the request of a tab with its COPY of the session,
written back whole when the response ends (`SaveSession`), over changes and deletions made
meanwhile. `Ways` is a table of the routes by which an account gets into a session: whether the
identifier is regenerated, how the account is put in (`setAuthenticated`, `addAuthenticatedUser`,
`addOrUpdateAccountInSession`), and whether and when `enforceSessionLimit` runs. `OpenTo` is
the order of the branches of `processLogin`: second factor, account being added, continue URL,
plain sign-in. The OIDC flows (`oidc`, `oidcSocial`, and `newDevice` with `device` for a device that is not
known) have branches of their own: they put any account in and look at its second factor afterwards, if at all.
`late`, `gone`, `out`, `free` and `admitted` record history for the properties.
Left out: the re-check that a user is still enabled, `require_reauth_on_switch`, the
regeneration after a password change, session binding, the circuit breaker around the store, the
Redis index and the mirror of the OIDC session (`oidc.middleware.ts:121` restores the active account from it).

### Recovery

`doc` is `user.recovery`. Every handler makes a copy (`Read`), waits at the steps named in
`req[b].at`, and writes the copy back whole (`Save`); `stale` records a write over a
document that had changed since. The second read of `checkLockout` and the third of an
accepted e-mail code are steps of their own. The e-mail code is in the session, the SMS code in
the document, and `processRecoveryVerifyCode` decides by the session which one a submission
is for. `Persisted` is what the repository really stores: the relational tables have no
columns for the lockout and for `last_recovered_at`. `ChangeCredential` has every route by which a
password or a second factor changes: the two that ask for the cooldown (`Asking`), setting MFA up, the link of
a password reset, and an administrator. It is dated by its first look at the user. `undated` records the one
write that takes the date of a recovery back: a copy made before it.

### Credentials

Three groups of columns that do not depend on each other (`area`): the password with its reset
token and outdated hash; the phone number with its challenge and the token the browser shows; the
second factors with flag, methods, pending secret and e-mail code. `UpgradeHash` is the write of
`validatePassword` after its long computation, `RestoreChallenge` the compensation of an SMS
that was not delivered, `RollbackFails` a compensation that cannot be written. `updateMfa`
writes flag and method rows in two statements when `Relational`, in one otherwise.
Registration, e-mail verification and breach checks are left out.

### OIDC records

`item` holds one record of each model of one account and two sessions; `backend` is the adapter a
behaviour runs on and `area` what its requests are about: the tokens of a grant, the account at
logout, or a client. `req[r]` is a request between its awaits:

    save:    loaded -> look (Redis: ttl of the grant's list; Prisma: is the row there) -> write
    revoke:  read the list -> one transaction (Redis), or deleteMany model by model
    logout:  findByAccountId -> five deletions in any order, each of which may throw
    client:  find -> write {...existing, ...updates}

A record has an expiry; in Redis the consumable models are hashes, the others strings, and a grant's tokens
are named in `list`, which has an expiry of its own. `Written`, `ListWith` and `WriteApplies` are what `upsert`
makes of record and list; `Recognised` is which records the deletions by account find in each store. `revoked`,
`raced`, `out`, `left`, `used`, `gone`, `shown` and `outdated` record history for the properties. node-oidc-provider is external: it calls
the adapter in any order, refuses a token whose grant is not found, and uses an identifier once. Left out: the index keys by
user code and uid, lists, counts and searches of the admin service, the authorization code (of the shape of the device code), pushed
requests and replay detection.

The session services also fail without a word: `findByAccountId` answers `[]` to an error and `revokeSession` `false` (MongoDB),
and the Redis services pass over the keys whose commands of a pipeline failed. `Done` says what a read or a deletion that does
not throw got done in each store, and `left` remembers what it passed over.

## 3. What TLC checks

| Run | Instance | Shows | States |
|---|---|---|---|
| `rotation_safety` | 2 algorithms, 3 key sets, a web process and a worker, both may crash | `ActiveKeyAvailable`: once there are keys, every algorithm has an active one, wherever a process dies; `DemotionSafe`: the reason; `PromotionJobsSettle`: refused and stalled promotion jobs end | 246,691 |
| `key_lifecycle` | 2 algorithms, 2 key sets, every operation including retirement by kid, crashes | `ImplementsLifecycle`: the key store refines `KeyLifecycle` (one way, one signer per algorithm, no retirement inside the overlap) | 400,706 |
| `rotation_crash` (violation) | a worker that may crash | `RotationCompletes` fails: a worker that dies before scheduling phase 2 leaves the new keys unpromoted for good | |
| `config_handoff` | two saves and a process start, each in a process of its own | `LoadFindsConfig`: a missing active row is always about to be replaced; `ActiveIsNewest`: no save is locked out by a newer inactive row | 1,072,230 |
| `config_caches` | two saves in one process, one of which may fail at any query, a save in another, and there two reloads, one of which may fail | `SavesMoveForward`: a save, successful or failed, puts no older configuration into its process than it found; `ToldIsInstalled`: no event that arrives is without effect, whatever reloads and saves it meets | 1,155,542 |
| `config_ends` | a form and a save that may fail in one process, a save in another that may crash | `UpdateEnds`: a save that waits for the lock ends; `FormReplacesItsVersion`: an accepted form replaced the version its page showed; `VersionedSavesKeep`: a save that knows its version loses no edit of the revision before its own | 128,338 |
| `registry_all` | 3 tenants, 2 creations, pool of 1, and a configuration change or new keys of one tenant | `HandlersMatchPool`, `PoolWithinSlack`; until the configuration changes `SingleCreation` and `NoLeakedHandler`; `SweepEvicts`: while the sweep is scheduled, an idle provider is evicted or used again | 345,552 |
| `tenant_all` | 2 processes, 3 requests of every kind, a platform update or a crash, 2 starting documents | `CacheFresh`: a cached merge is the stored document over the process's configuration, in a process that the event of the last change reached; `SavesCompose`: requests one after another lose nothing of each other; `LogoBacked`: the logo named in the document, and in such a cache, exists; `SoloSaveSucceeds`: also after a crash in a hand-off | 756,039 |
| `sessions_all` | 2 users, one with a second factor, 2 tabs, 3 sessions, 10 deployments that together offer every route | `LimitKept`: concurrent sign-ins exceed the limit by one each and never add up; `RemovedStaysOut`, `RevocationComplete`: removed and revoked accounts stay out of every session no outdated copy was written to; `SecondFactorKept`: the order of the branches keeps an account out until its factor is passed, OIDC flows apart | 682,103 |
| `recovery_all` | 2 browsers, 3 deployments that together have every method, 3 ticks | `CodesUsedOnce`, `AttemptsLimited` up to the first write over an unread change; `CooldownKept`: no route that asks changes a credential in the cooldown until a copy from before the recovery is written | 735,027 |
| `credentials_all` | 2 requests at a time, 7 in all, 2 numbers, 3 ticks, relational store | `NoOldPassword`; `ResetTokenOnce`: one link sets two passwords only for requests that held it at the same time; `BrowserTokenUsable`, `FlagAgrees`, `SecretProved` | 752,091 |
| `oidc_all` | 3 adapters, 2 requests at a time, 4 requests about a grant, 3 about an account, 6 about a client, 2 ticks | `GrantRevocationComplete`: a revocation leaves no token of the grant, whatever their lifetimes and the order they were saved in; `ConsumedStays`: saving a record again does not make it unused; `LogoutUnusable`: nothing the account had is of use after a logout or revocation, but for what a read or deletion passed over in silence; `DeletedClientStays`; `ShownSecretWorks` | 994,063 |

Each module states a type invariant, `TypeOK`. The runs check those of `KeyRotation`, `ConfigUpdate` and `AccountSessions`;
section 4 proves all of them. That of `AccountSessions` also says that in every copy
`accountId` is the active account and no account is listed twice. `LoadFindsConfig`, `ActiveIsNewest`,
`FormReplacesItsVersion` and `VersionedSavesKeep` are stated under `Orderly`: every row was inserted by a save that had deactivated the one it
replaces. The last attempt of `save()` can break it; what happens then is `ActiveAlwaysNewest` below. `findings` in `PROJECT.json` quotes, for the
violation, the line of a comment or document that the code does not meet. Each
property of a passing run has a mutant: an operator next to the definition it
replaces, marked `Mutant`, that changes it as a plausible mistake would.

### Bounds

- Three key sets: the first, one being rotated in, and one more that overlaps
  with it; the fourth would repeat the third. Two algorithms: an invariant of one
  algorithm could hold because another kept the table non-empty. Two handlers are
  every pair of callers; the theorems of section 4 lift this bound.
- The overlap window is 0 ticks and compared strictly, so a key is still kept in the
  tick it stepped down in and goes in the next; the rotation interval is one or two
  ticks and the minimum interval one.
- One job slot: the cron job and the promotion job it schedules follow one another in it. Two attempts,
  instead of the three of `jobs/config.ts`: one failure that is retried and one that is final.
- Three writers: the shortest lost update takes three. `SaveMaxAttempts` is 2
  instead of 16: a first attempt, and a last that behaves differently; the
  attempts between repeat the first. `KeepCount` is 2 instead of 10, so that the
  cleanup deletes something within three saves. `config_caches` makes one attempt at each, since
  what it says is about caches and a conflict ends a save as any failure does; a start of a process is
  in `config_handoff`, whose properties do not speak of events, and there and in `config_ends` nobody reloads, so that
  nothing is published. `PollsAlone` lets a poll that noticed a change end before
  an event is answered: both run the same two reads, and two events overlap freely.
- The pool has one place for three tenants, so it overflows; two
  creations are enough to pass the capacity check together. `MaxMade`, `MaxConfig`, `MaxKeys` and
  `MaxTime` bound counters. `OneTrouble` keeps out the product of a configuration change and of new keys, and of new
  keys of two tenants: a key event of one tenant touches nothing of another's, and each trouble meets creations,
  hits and sweeps of all three.
- `TenantConfig`: two processes with a request each, of which the second is made twice, so that a save can
  meet two others; three files are the old logo and two uploads. `SaveMaxAttempts` is 2, as
  above. The constraint `OneDisturbance` keeps the product of independent troubles out: a platform
  update or a crash but not both, and not where requests overlap; where they overlap, caches
  fill around plain saves only. Every promise of the module is conditional on `~overlap` or about one
  cache, so no promise is left untested by it.
- `AccountSessions`: two accounts fill a session of `MaxAccounts = 2`; `MaxSessions = 1` and three identifiers
  let the limit be exceeded, enforced and exceeded again. Each behaviour fixes one deployment of `Deployed`,
  which pairs the routes that meet in one session. `Within` ends a behaviour at the first write of an
  outdated copy, after which the properties promise nothing of that session, and allows the third
  session where two sign-ins enforce the limit at once.
- `AccountRecovery`: lockout after two wrong attempts (one for the questions), locks and cooldown of two
  ticks, codes of one, so each ends within the clock. `Followed` ends a behaviour at the first
  write over an unread change, unless a cooldown is under way: the cooldown outlasts such writes until one takes its date back.
  What the other promises are worth after it is shown by `RecoveryCodeTwice.cfg`.
- `Credentials`: seven requests are two overlapping pairs and three more; numbers and requests are symmetric. A
  token lives one tick, so it also expires.
- `OidcStore`: four requests about a grant issue two tokens, use one and revoke; three about an account are a save that
  meets a logout, and one more; six about a client are a creation, two overlapping updates and a deletion, and two more.
  Lifetimes of one and two ticks and a clock of two let a list and a token end in either order; what is about the account happens
  within a tick, because no promise there depends on expiry. `Focus` allows one logout at a time, and nothing beside one that
  has failed, since a failed logout promises nothing; where something was passed over in silence it is sessions, or one other
  record, and the account sees one request less. Requests are symmetric.
- Deadlock is checked in the safety runs of the key store, where cron always fires again; it
  is off where an instance really ends: all saves made, or the last creation used up.

### Fairness

- `KeyRotation`: a handler whose process lives finishes its awaits (weak fairness of
  its steps); a waiting promotion job is taken in the end by a worker that is free
  again and again (strong fairness: BullMQ hands jobs out in order). Requests, cron,
  crashes and the clock are not fair.
- `ConfigUpdate`: a query returns and a lock that is handed over is taken (weak
  fairness of the steps of a save). Submissions, events, polls, failures and crashes are not fair.
- `TenantConfig`, `AccountSessions`, `AccountRecovery`, `Credentials`, `OidcStore` state safety only and assume no fairness.
- `ProviderRegistry`: `setInterval` fires again while it is set (weak fairness of
  `EvictIdle`).

### Disagreements without a run

These definitions state what a comment or document says and the code does not meet. Each is found by
checking the property on the named instance, or on its named variation.

| Property | Instance | What happens |
|---|---|---|
| `UnpromotedNeverSigns` | `KeyRotationSafety.cfg` | "NOT used for signing until promoted" (`key-store.interface.ts:50`): between demotion and promotion `sortByPromotionGroup` puts the unpromoted key before the expiring one |
| `PromotionNeverRefused` | `KeyPromotionRefused.cfg` | "promote unpromoted active keys to signing priority" (`key-store.interface.ts:55`): `guardRapidRotation` guards one process (`db-key-store.ts:280`), rotations of two overlap, and the unique index refuses the promotion |
| `RetireKeepsSigner` | `KeyPromotionRefused.cfg` with `Operation = {"initialize", "retireKey"}` | "must preserve at least one promoted active signing key" (`key-store.interface.ts:68`): two retirements pass the check of `retireKey` together |
| `NoLostUpdate` | `ConfigThreeSaves.cfg` | `db-provider.ts:562`: a save that reads its version in another's hand-off (`:530`) is unversioned and replaces an edit it never saw |
| `ActiveAlwaysNewest` | `ConfigHandoff.cfg` with a fourth writer `d` in a process of its own, `Boot = {d}`, `SaveMaxAttempts = 1` | "Another writer owns the interval between deactivation and insertion" (`prisma/settings.repository.ts`, `save`): the last attempt inserts in the hand-off of a live save; that save's row then is older than an inactive one, and `saveMainConfiguration` refuses every later save |
| `LoadFindsConfig` | `ConfigCrash.cfg`, also with `CanCrash = {}` and `Failing = {a}` | `settings.repository.ts:264`: the recovering attempt of `save()` cannot be reached from an update, which fails to load first (`db-provider.ts:535`) |
| `NoLostUpdate` | `ConfigThreeSaves.cfg` with `Writer = {a, b}`, `Form = {a, b}` and `ProcOf <- OneProcessSaves` | `docs/configuration.md:480`: a settings page opened while a save is being installed pairs old values with the new version |
| `NoLostUpdate` | `ConfigThreeSaves.cfg` with `Boot = {b}` | `db-provider.ts:615` "if none exists": a process that starts in a hand-off saves the defaults over the configuration |
| `CachesConverge` | `ConfigCaches.cfg` | `docs/configuration.md:508`: nothing is published where pub/sub is not connected, and a failed publish is only logged (`config/index.ts:526`); two reloads read in one order and install in the other; a save or reload that fails puts back an older cache than a reload installed meanwhile |
| `PollingCatchesUp` | `ConfigCaches.cfg` with `PubSub = FALSE`, and `HasUpdatedAt` either way | `docs/configuration.md:507`: SQL rows have no `updated_at`; elsewhere a failed poll ends polling |
| `PoolBounded` | `RegistryAll.cfg` | `docs/multi-tenancy.md:122`: two creations pass the capacity check together |
| `FreshConfig` | `RegistryAll.cfg` | `provider.ts:33`: a creation begun before the change inserts its provider after it |
| `IdleEvicted` | `RegistryNoSweep.cfg` | `docs/multi-tenancy.md:120`: `shutdown()` stops the sweep on every configuration change (`tenant-provider-registry.ts:196`) and nothing restarts it |
| `EachCodeOnce` | `RecoveryCodeTwice.cfg` | "Each code can be used once." (`docs/authentication.md:171`): two browsers verify one backup code on copies of the same document |
| `RestrictedDuringCooldown` | `RecoveryCooldown.cfg` | "During cooldown, password/MFA changes are restricted" (`utils/recovery.ts:869`): setting MFA up (`account.controller.ts:827`, `1056-1287`) and the reset link (`auth.service.ts:560-612`) do not ask |
| `CooldownKept` | `RecoveryRelational.cfg` | the same line: the relational repository stores no `last_recovered_at`, and no lockout, so the routes that ask are not restricted either |
| `FloorHolds` | `TenantAll.cfg` | `docs/multi-tenancy.md:138`: floors are applied when a section is saved, not when the platform raises them |
| `PhoneProved` | `CredentialsAll.cfg` | `docs/authentication.md:187`: `updateProfile` changes the number and leaves it verified |
| `ActiveIsAuthenticated` | `SessionsAll.cfg` | "merely adding an account leaves the next protected request unauthenticated" (`webauthn.controller.ts:735`): the other handler of a WebAuthn second factor (`auth.controller.ts:2440`), and a social login with a target, merely add |
| `KeysCatchUp` | `RegistryAll.cfg` | `docs/multi-tenancy.md:124`: an event between `getJWKS` and the subscription is lost |
| `NoGhost` | `OidcAll.cfg` | "fulfilled with the stored payload or undefined" (`oidc/adapter/base.ts:95`): `consume` on Redis sets a field of a key that may be gone, which makes a hash without payload and without expiry, and `find` throws on it |
| `LogoutClears` | `OidcAll.cfg` | "Works for AccessToken, RefreshToken, and Interaction models" (`mongodb/admin-service.ts:660`): on Redis the deletion reads with `GET`, which refuses the hashes of refresh tokens; on Prisma an interaction has no column for its account |

Met while modelling, and stated by no definition because the model holds them as they are:

- `POST /api/v1/jwks/rotate` publishes on a channel no provider subscribes to (`jwks.controller.ts:164`).
- An OIDC flow puts an account with a second factor into the session without it: the password login does so before it looks at MFA,
  and asks for it only for `acr urn:mfa:otp` (`oidc/flows/handlers/login.ts:427-447, 484`); the social callback never asks (`social-callback.ts:420-437`).
  `SecondFactorKept` names the exception.
- Sign-ins by password alone (plain, to a continue URL) and in an OIDC flow (password, social, new device) enforce the session limit; second factor,
  WebAuthn, social login outside a flow, recovery, adding and switching pass it by (`schema.ts:1993` "When exceeded"); this is `free` in `AccountSessions`.
- `setAuthenticated` keeps the previous account beyond `max_accounts_per_session` (`docs/security.md:119`).
- A bulk revocation finds the sessions whose active account is the user, not those that hold the user among others (`docs/admin-panel.md:62`).
- The Management API stores overrides under the tenant's identifier, which nobody reads, and invalidates no cache (`docs/branding.md:177`).
- `invalidateTenantConfig` publishes nothing where pub/sub is not connected and only logs a failed publish (`config/index.ts:810`): another
  process then serves the old merge, and the name of a logo whose file is deleted, until something else evicts it (`missed` in `TenantConfig`).
- Removing the only branding override makes `saveOverrides` throw; a load in flight at an invalidation caches the old overrides (`config/index.ts:762`).
- Disabling the last recovery method removes the lockout and the time of the last recovery with it (`account.controller.ts:3236`).
- A configuration change clears the locks of running creations (`tenant-provider-registry.ts:69`, `:88`), so a tenant may be created twice and a
  handler leak; `SingleCreation` and `NoLeakedHandler` are stated up to the change.
- MongoDB's `upsert` replaces the payload and with it `consumed`; Prisma's `findByUserCode` and `findByUid` answer without it.
- MongoDB's `revokeAllGrantsForAccount` looks for tokens among the grants and deletes none; the Prisma service has no such method.
- A session or grant that a request loaded before a revocation is saved after it and comes back; overlapping saves can give the
  Redis list of a grant an expiry before that of its tokens (`raced` in `OidcStore`).
- `findByAccountId` answers an error with no session, `revokeSession` and `revokeAllSessionsExcept` with `false` and 0 (MongoDB, `admin-service.ts:96`,
  `:114`, `:135`), and the Redis services do not look at the errors of a pipeline (`redis/admin-service.ts:97`, `:1441`): `logoutOIDC` and
  `revokeUserSessions` then report success with sessions left (`left` in `OidcStore`).
- On Redis `updateClient` brings a deleted client back; in every store two overlapping updates can undo a new secret, and on MongoDB and Prisma a
  new secret is reported for a client deleted meanwhile.
- Starting a new TOTP setup switches an enabled one off while the flag stays (`user.service.ts:575`); a changed password leaves a reset link valid.
- Two resets that both find a link before either writes both set a password with it (`auth.service.ts:575` to `:600`); `rivals` in `Credentials`.

## 4. What TLAPS proves

For every set of algorithms, handlers, processes, tenants, requests and browsers, and every bound, from the
named assumptions on the constants (which only give types, make sets finite where they are counted, and keep
`NoX` out of `X`). Each module also proves `Spec => []TypeOK`, on which the rest builds. An invariant is seldom inductive;
what is added to it is defined in the component's module beside it, and was checked with TLC first.

**Keys** (`KeyRotationProofs`)

- `ActiveKeyAlways`: `Spec => [](ActiveKeyAvailable /\ DemotionSafe)`.
  `ActiveKeyAvailable` is not inductive: `Demote` would take the last active key if the batch
  inserted before it had been promoted by someone else in between. The inductive
  invariant is `IInv == TypeOK /\ ActiveKeyAvailable /\ DemotionSafe`. `DemotionSafe` says that the batch of a
  handler between insert and demote is its own, active and unpromoted, and that while
  anyone may promote there is a second active key of each algorithm. Lemma
  `PromotionExcludesDemotion` draws the conclusion: then a promotion would break the
  unique index, so it is refused. One lemma per action that writes keys
  (`InsertInitialKeeps`, `InsertKeeps`, `DemoteKeeps`, `PromoteKeeps`, `SweepKeeps`), and `QuietKeeps` for the rest.
  Retirement by kid is excluded in the statement itself (`RetiredByKid`): it can
  remove the second key and with it the argument.
- `KeysLiveTheirCycle`: `Spec => ImplementsLifecycle`, the refinement of `KeyLifecycle`. Each statement on the table maps to
  one abstract step, and everything else to a stutter (lemma `OneStatement` sorts the actions by what they do to
  the table). `LifeInv == OneSignerStored /\ UnbornAbsent` is needed: the index holds of the stored rows, and a batch
  that is still to come has no rows, so that an insertion is an abstract birth.

**Registry** (`ProviderRegistryProofs`)

- `HandlersAlways`: `Spec => [](TypeOK /\ HandlersMatchPool /\ CallsAreReal)`. `CallsAreReal` is
  the strengthening: a creation in flight has a tenant and a provider identity, so its insertion
  pools something, and a registered handler is subscribed, so unsubscribing it keeps `subs` natural.
- `PoolAlmostBounded`: `Spec => []PoolWithinSlack`, by `RoomIsMade`, which also counts the
  creations past the capacity check.
- `OneCreationPerTenant`: `Spec => [](SingleCreation /\ NoLeakedHandler)`. A second creation would subscribe twice;
  `LocksHeld` rules it out: the tenant of a creation in flight is locked and has no provider.

**Configuration** (`ConfigUpdateProofs`)

- `ConfigTypes` needs more than types: a version is at most the number of insertions (`Numbering`), and who is at work holds
  the lock of its process (`LockKept`), without which `Tail` of an empty queue would be taken.
- `NewestStaysActive`, `FormsReplaceTheirVersion`: `ActiveIsNewest` and `FormReplacesItsVersion` hold for any deployment.
  `OrderInv` says that while `Orderly` there is at most one save between its deactivation and its insertion (`OneOwner`),
  that it knows the newest version of all, and that versions grow and the cleanup spares the newest (`VersionsGrow`).
- `HandoffExplainsAbsence`: `LoadFindsConfig` where no process may crash and no query throws; else it is false (`ConfigCrash.cfg`).
- `VersionedSavesKeepEdits`: `Spec => []VersionedSavesKeep`, for saves of any processes, with forms, starts, failing queries and
  crashes. `Versioned` follows one save: the version it knows was there; while that is the newest, what it merged is of it;
  with the row of that version deactivated nobody else can insert, so its own row comes next. A save that knows no version, which
  happens in another's hand-off and at a start, is not covered, nor what a page did not show: these are the rows of `NoLostUpdate` in section 3.
- `ToldIsInstalledAlways`: `Spec => []ToldIsInstalled`, for any number of overlapping reloads. `Heard` names what is still to come for
  a process that was told of a row it has not installed: an event, a reload that has not read, or one that has read as much. `Aging` says that
  every read finds the youngest row there is. What a process had installed may be put back by a reload that was slower: `CachesConverge` in section 3.
- `SavesNeverGoBack`: `Spec => SavesMoveForward`. `Restorable`: while a save works and nothing else writes the cache, the
  cache is still the one the save would put back, and what it read back is at least as young; it needs the update lock (`LockKept`),
  by which one save of a process works at a time.

**Tenant configuration** (`TenantConfigProofs`)

- `SoloSaves`: a row is put where one was taken only by a save that overlaps (`OneAtATime`, `RowTakenAway`).
- `CachesFresh`: every document that a process serves or is about to serve is the stored one, or an event for that process or the request that
  will send it is under way (`DocsFresh`), and its base is the process's (`BasesFresh`). Left out are processes with `missed`: a load that
  had read before the invalidation, a sender that died, an event that did not arrive.
- `SavesKeepTheRest`: what a request that is alone will write is what its predecessors left with its own edit (`Composed`).
- `LogosBacked`: no request will delete the file that the document, or a cache it can still reach, names (`LogosKept`).

**Sessions** (`AccountSessionsProofs`)

- `RemovedForGood`, `RevokedForGood`: they rest on `CopyInv`: a copy that is not out of date is what is stored, and a new identifier is
  known to nobody else. While a bulk deletion is under way, its list covers the sessions that act as the user (`RevocationPending`).
- `FactorBeforeSession`: sessions and copies belong to one browser, and what is in them was admitted there, by a code, a recovery or an OIDC flow (`FactorInv`).
- `SessionsLimited`: for any limit and any number of concurrent sign-ins. Counting them is not inductive, because each has its own list
  of sessions to delete. `RoomByRank` ranks the sign-ins that have asked for the excess so that the one of rank k leaves
  room for k sessions below the bound; when one ends with one session more, the others above it move down (`RanksMove`).

**Recovery** (`AccountRecoveryProofs`)

- `CodesSpentOnce`: `OnceInv` says that copies that are not out of date agree with the document and that a code found in one is there; `UnlessStale` adds that codes sent, made up and stored are all different from those already accepted.
- `CooldownEnforced`: `~Relational => (Spec => []CooldownKept)`. The document has the date of the last recovery until a copy from before it is
  written or the last method goes (`RecoveryDated`), because no copy has a later one (`NoneDatedLater`) and one that is not out of date has the
  same. It is about the routes that ask; the others are in section 3. In the relational repository the date is not stored, and the property is false, as `RecoveryRelational.cfg` shows.
- `WrongAnswersLimited`: `~Relational => (Spec => []AttemptsLimited)`, since the relational repository stores no lockout either. The history
  `wrong` logs the ticks of the wrong answers of each kind. Until a copy is written over an unread change, the document counts
  the last of them, a lock is a lockout period after the last one, and those no longer counted are as far from the others
  (`FailuresCounted`); a wrong answer is examined only where nobody was locked out (`LockChecked`).

**Credentials** (`CredentialsProofs`)

- `OldPasswordsGone`: after a password was set no upgrade is under way or begins (`UpgradesOver`).
- `ResetLinksOnce`: the write that sets the password takes the token out, so no token that set one is in the record (`TokenUnspent`), and
  whoever still holds such a token is a rival of those who wrote (`HoldersRival`). Not that a link sets one password: see section 3.
- `CompensationKeepsToken`: a renewal that is alone remembers the token the browser shows (`PhoneInv`).
- `FlagFollowsMethods`: a disabling request is alone and knows the methods that stay; an enabling one sets the flag before the method (`FlagInv`).
  The statement covers both kinds of storage; the run checks the relational one.
- `EnabledSecretProved`: what a request enables was proved when it began, or is the secret it found again (`SecretInv`).

**OIDC records** (`OidcStoreProofs`)

- `ConsumedForGood`, `DeletedForGood`, `ShownSecretStored`: inductive with the types.
- `RevocationRemovesTokens`, `LogoutEndsUse`: by one invariant, `RemovalInv`. The list of a grant lives as long as its tokens and
  names every one that a revocation has to find (`Lifetimes`, `ListCovers`), what a request knows is still to be deleted or gone
  (`KnownPending`), and what was deleted stays deleted unless saved again (`OutRemoved`). Both sets leave out `left`, what a read or a deletion
  passed over in silence; a revocation by grant passes over nothing (`Excused`).

Only model-checked are the liveness properties `PromotionJobsSettle`, `UpdateEnds` and `SweepEvicts`, and `RotationCompletes`, which fails: fairness and
`ENABLED` are beyond the prover.

## 5. Plan

Done: the key store with its callers, the configuration of platform and tenant, the registry, sessions,
recovery, credentials, the OIDC records, and the proofs above. Next, in this order:

1. The Redis pub/sub service (registration, reconnection) and the single-tenant
   `ProviderService.recreateProvider`, with keys and registry composed: a rotation in
   `KeyRotation` as the key events of `ProviderRegistry`.
2. E-mail verification and registration; WebAuthn challenges.
3. The Mongo key repository (several documents, no single statement) and the file key
   store as variants of `JwksKeys`; the configuration rollback and the change stream.

### Not modelled

Most of the repository's lines hold no state that another step decides on, and a model of them
would say nothing: EJS views and view models, routes, validation schemas and defaults (`config/schemas`),
translations, the admin panel's listings, filters and exports, seed and demo data, the installer and
build scripts, the client side. The protocol of node-oidc-provider is external, as are BullMQ, Redis and the
databases, which are modelled from use. Cryptography is
abstracted to what it decides. The activity log and the notifications only append.
`PROJECT.json` gives the reason for every component left out.

## 6. Running it

    tlc -workers 2 -config KeyRotationSafety.cfg MCKeyRotation
    tlapm KeyRotationProofs.tla

`PROJECT.json` lists every run with its module and configuration; the longest takes about three minutes
with two workers, a proof module one to four.
