---------------------------- MODULE ConfigUpdate ----------------------------
(***************************************************************************)
(* Saving the configuration and keeping the caches of the processes up to  *)
(* date: ConfigManager.update / reload, DatabaseConfigProvider.updateConfig *)
(* and polling, SettingsService.saveMainConfiguration and the repository's *)
(* two-phase save.                                                         *)
(*                                                                         *)
(* A writer is one settings save, each of a section of its own, except     *)
(* that the writers in Form all save the application section from the      *)
(* values their page showed, and those in Boot are starts of a process,    *)
(* which flush the defaults.  Each await on the database ends a step, and   *)
(* the queries of those in Failing may throw.  A configuration in memory is *)
(* named by the row it was read from.                                      *)
(***************************************************************************)
EXTENDS SettingsRevisions, Sequences

CONSTANTS
    Proc,           \* processes, each with its own cache
    ProcOf,         \* the process a writer runs in
    Form,           \* writers that save the application settings form
    Boot,           \* process starts: load(), then flushInitial()
    Reload,         \* reloads that can be in flight at once
    ReloadProcOf,   \* the process a reload runs in
    CanCrash,       \* the processes that may die
    Failing,        \* the saves and reloads whose queries may throw
    MaxAttempts,    \* maxAttempts of updateConfig
    SaveMaxAttempts,\* SETTINGS_SAVE_MAX_ATTEMPTS
    PubSub,         \* Redis is connected
    HasUpdatedAt    \* the storage gives a row an updated_at

ASSUME ConfigAssumption ==
    /\ ProcOf \in [Writer -> Proc] /\ ReloadProcOf \in [Reload -> Proc]
    /\ Form \subseteq Writer /\ Boot \subseteq Writer \ Form /\ CanCrash \subseteq Proc
    /\ Failing \subseteq Writer \cup Reload
    /\ MaxAttempts \in Nat \ {0} /\ SaveMaxAttempts \in Nat \ {0}
    /\ PubSub \in BOOLEAN /\ HasUpdatedAt \in BOOLEAN

VARIABLES
    rows,       \* the settings rows
    wr,         \* wr[h]: where writer h is
    queue,      \* queue[p]: the configUpdateTail of process p, holder first
    cache,      \* cache[p]: ConfigManager.cache
    primed,     \* primed[p]: the provider has a cachedConfig
    stamp,      \* stamp[p]: the provider's lastConfigUpdate: {} or {t}
    inbox,      \* inbox[p]: config:invalidated events not yet delivered
    rl,         \* rl[r]: where reload r is
    past        \* past[p], for the properties: the age of the newest row p was
                \* told of, that of the newest it has installed, and whether
                \* something else wrote the cache since p's last save began

view == <<cache, primed, stamp, inbox, rl, past>>
vars == <<rows, wr, queue, cache, primed, stamp, inbox, rl, past>>

WriterPc == {"idle", "form", "flush", "queued", "load", "check", "history", "claim", "latest",
             "create", "cleanup", "prune", "reread", "install", "publish", "done", "failed", "lost"}

NewWriter == [pc |-> "idle", exp |-> NoVersion, seen |-> Genesis, base |-> Genesis,
              cur |-> NoVersion, latest |-> NoVersion, claimed |-> FALSE, attempt |-> 0,
              saves |-> 0, prev |-> Genesis, old |-> {}]

ReloadPc == {"idle", "read", "install"}
IdleReload == [pc |-> "idle", poll |-> FALSE, prev |-> Genesis, got |-> Genesis]

Finished(h) == wr[h].pc \in {"done", "failed", "lost"}

\* Between deactivating the active row and inserting the next.
InHandoff(h) == wr[h].pc \in {"latest", "create"} /\ wr[h].claimed

\* mergeConfig: the edit is laid over what was read.  A form holds the whole
\* section as its page showed it; a flush saves the defaults.
Merged(h) ==
    CASE h \in Boot -> {}
      [] h \in Form -> (rows[wr[h].base].content \ Form)
                          \cup (rows[wr[h].seen].content \cap Form) \cup {h}
      [] OTHER      -> rows[wr[h].base].content \cup {h}

\* The updated_at of the active row, as getMainConfigurationLastUpdated reads it.
StampNow == IF HasUpdatedAt THEN {rows[r].at : r \in Active(rows)} ELSE {}

\* The age of a row; every read finds the youngest row there is.
Age(r) == rows[r].at

\* this.cache = runtimeConfig, by a save or by something else.
PutInCache(p, r, bySave) ==
    /\ cache' = [cache EXCEPT ![p] = r]
    /\ past' = [past EXCEPT ![p].reached = IF Age(r) > @ THEN Age(r) ELSE @,
                            ![p].disturbed = @ \/ ~bySave]

GoTo(h, pc) == wr' = [wr EXCEPT ![h].pc = pc]

\* Mutant: the previous update is not awaited.
NoLock(h) == wr[h].pc = "queued"

\* acquireConfigUpdateLock: the updates of a process before h are over.
HoldsLock(h) == Head(queue[ProcOf[h]]) = h

\* releaseUpdate; a flush does not hold the update lock.
Release(h) ==
    queue' = IF h \in Boot THEN queue ELSE [queue EXCEPT ![ProcOf[h]] = Tail(@)]

\* update() throws: the cache it found when it started is put back.  A failed
\* flush is only logged and the process starts with what it loaded.
Fail(h) ==
    /\ GoTo(h, IF h \in Boot THEN "done" ELSE "failed")
    /\ Release(h)
    /\ cache' = IF h \in Boot THEN cache ELSE [cache EXCEPT ![ProcOf[h]] = wr[h].prev]

\* Mutant: one attempt too many.
LastSaveLate(h) == wr[h].saves >= SaveMaxAttempts

\* The last attempt of save().
LastSave(h) == wr[h].saves >= SaveMaxAttempts - 1

\* ConfigurationVersionConflictError: only a save whose caller gave no version
\* is tried again.
Retries(h) == h \notin Form \cup Boot /\ wr[h].attempt < MaxAttempts

Conflict(h) ==
    \/ /\ Retries(h)
       /\ GoTo(h, "queued")
       /\ UNCHANGED <<queue, cache>>
    \/ /\ ~Retries(h)
       /\ Fail(h)

Init ==
    /\ rows = InitialRows
    /\ wr = [h \in Writer |-> NewWriter]
    /\ queue = [p \in Proc |-> <<>>]
    /\ cache = [p \in Proc |-> Genesis]
    /\ primed = [p \in Proc |-> TRUE]
    /\ stamp = [p \in Proc |-> StampNow]
    /\ inbox = [p \in Proc |-> 0]
    /\ rl = [r \in Reload |-> IdleReload]
    /\ past = [p \in Proc |-> [told |-> 0, reached |-> 0, disturbed |-> FALSE]]

-----------------------------------------------------------------------------
(* A save.                                                                 *)

\* GET /admin/settings/application: the values come from the cache, the
\* version from the database.  Without a version the POST is refused.
OpenForm(h) ==
    /\ h \in Form /\ wr[h].pc = "idle"
    /\ Active(rows) # {}
    /\ wr' = [wr EXCEPT ![h].pc = "form", ![h].exp = ActiveVersion(rows),
                        ![h].seen = cache[ProcOf[h]]]
    /\ UNCHANGED <<rows, queue, view>>

\* update(): wait for the process's earlier updates.
Submit(h) ==
    /\ h \notin Boot
    /\ wr[h].pc = IF h \in Form THEN "form" ELSE "idle"
    /\ GoTo(h, "queued")
    /\ queue' = [queue EXCEPT ![ProcOf[h]] = Append(@, h)]
    /\ UNCHANGED <<rows, view>>

\* A process starts: load() throws when rows exist and none is active.
BootLoad(h) ==
    /\ h \in Boot /\ wr[h].pc = "idle"
    /\ \/ /\ Active(rows) = {}
          /\ GoTo(h, "failed")
          /\ UNCHANGED <<cache, stamp, past>>
       \/ /\ Active(rows) # {}
          /\ GoTo(h, "flush")
          /\ PutInCache(ProcOf[h], ActiveRev(rows), FALSE)
          /\ stamp' = [stamp EXCEPT ![ProcOf[h]] = StampNow]
    /\ UNCHANGED <<rows, queue, primed, inbox, rl>>

\* flushInitialConfiguration takes no active row for a first run.
FirstRun == Active(rows) = {}

\* flushInitial: save the defaults, or read the existing configuration again.
BootFlush(h) ==
    /\ wr[h].pc = "flush"
    /\ GoTo(h, IF FirstRun THEN "check" ELSE "reread")
    /\ UNCHANGED <<rows, queue, view>>

\* An attempt of updateConfig starts; the first one also saves previousCache.
\* Then the cache of the provider is dropped.
ReadVersion(h) ==
    /\ wr[h].pc = "queued" /\ HoldsLock(h)
    /\ wr' = [wr EXCEPT ![h].pc = "load", ![h].attempt = @ + 1, ![h].saves = 0,
                        ![h].exp = IF h \in Form THEN @ ELSE ActiveVersion(rows),
                        ![h].prev = IF wr[h].attempt = 0 THEN cache[ProcOf[h]] ELSE @]
    /\ primed' = [primed EXCEPT ![ProcOf[h]] = FALSE]
    /\ past' = [past EXCEPT ![ProcOf[h]].disturbed = @ /\ wr[h].attempt > 0]
    /\ UNCHANGED <<rows, queue, cache, stamp, inbox, rl>>

\* Mutant: merges against the cache of the process.
LoadCached(h) ==
    /\ wr[h].pc = "load" /\ Active(rows) # {}
    /\ wr' = [wr EXCEPT ![h].pc = "check", ![h].base = cache[ProcOf[h]]]
    /\ UNCHANGED <<rows, queue, cache, primed, stamp, inbox, rl, past>>

\* loadConfiguration throws when rows exist and none is active.
Load(h) ==
    /\ wr[h].pc = "load"
    /\ \/ /\ Active(rows) = {}
          /\ Fail(h)
       \/ /\ Active(rows) # {}
          /\ wr' = [wr EXCEPT ![h].pc = "check", ![h].base = ActiveRev(rows)]
          /\ UNCHANGED <<queue, cache>>
    /\ UNCHANGED <<rows, primed, stamp, inbox, rl, past>>

\* loadConfiguration reads the timestamp and fills the provider's cache; then
\* saveMainConfiguration compares the active version with the expected one
\* (none is expected when the attempt found no active row).
Check(h) ==
    /\ wr[h].pc = "check"
    /\ IF h \in Boot THEN UNCHANGED <<primed, stamp>>
       ELSE /\ primed' = [primed EXCEPT ![ProcOf[h]] = TRUE]
            /\ stamp' = [stamp EXCEPT ![ProcOf[h]] = StampNow]
    /\ \/ /\ wr[h].exp = ActiveVersion(rows) \/ wr[h].exp = NoVersion
          /\ wr' = [wr EXCEPT ![h].pc = IF Active(rows) = {} THEN "claim" ELSE "history",
                              ![h].cur = ActiveVersion(rows)]
          /\ UNCHANGED <<queue, cache>>
       \/ /\ wr[h].exp # ActiveVersion(rows) /\ wr[h].exp # NoVersion
          /\ Conflict(h)
    /\ UNCHANGED <<rows, inbox, rl, past>>

History(h) ==
    /\ wr[h].pc = "history"
    /\ \/ /\ ~NewerInactive(rows, wr[h].cur)
          /\ GoTo(h, "claim")
          /\ UNCHANGED <<queue, cache>>
       \/ /\ NewerInactive(rows, wr[h].cur)
          /\ Conflict(h)
    /\ UNCHANGED <<rows, primed, stamp, inbox, rl, past>>

\* save(): deactivate the active row, of the expected version if there is one.
Claim(h) ==
    /\ wr[h].pc = "claim"
    /\ rows' = Deactivate(rows, Claimed(rows, wr[h].exp))
    /\ wr' = [wr EXCEPT ![h].pc = "latest", ![h].claimed = Claimed(rows, wr[h].exp) # {}]
    /\ UNCHANGED <<queue, view>>

\* Mutant: the new version is counted from the row saveMainConfiguration saw.
LatestFromCheck(h) ==
    /\ wr[h].pc = "latest"
    /\ \/ /\ ~wr[h].claimed /\ wr[h].exp # NoVersion
          /\ Conflict(h)
       \/ /\ wr[h].claimed \/ wr[h].exp = NoVersion
          /\ wr' = [wr EXCEPT ![h].pc = "create", ![h].latest = wr[h].cur]
          /\ UNCHANGED <<queue, cache>>
    /\ UNCHANGED <<rows, primed, stamp, inbox, rl, past>>

\* Nothing deactivated: a conflict, or another attempt; the last one goes on.
Latest(h) ==
    /\ wr[h].pc = "latest"
    /\ \/ /\ ~wr[h].claimed /\ wr[h].exp # NoVersion
          /\ Conflict(h)
       \/ /\ ~wr[h].claimed /\ wr[h].exp = NoVersion
          /\ Present(rows) # {} /\ ~LastSave(h)
          /\ wr' = [wr EXCEPT ![h].pc = "claim", ![h].saves = @ + 1]
          /\ UNCHANGED <<queue, cache>>
       \/ /\ \/ wr[h].claimed
             \/ wr[h].exp = NoVersion
                /\ (Present(rows) = {} \/ LastSave(h))
          /\ wr' = [wr EXCEPT ![h].pc = "create", ![h].latest = LatestVersion(rows)]
          /\ UNCHANGED <<queue, cache>>
    /\ UNCHANGED <<rows, primed, stamp, inbox, rl, past>>

\* Insert the new active row.  A unique violation is another attempt.
Create(h) ==
    /\ wr[h].pc = "create"
    /\ \/ /\ CanCreate(rows)
          /\ rows' = CreateRow(rows, h, wr[h].latest + 1, Merged(h))
          /\ GoTo(h, "cleanup")
          /\ UNCHANGED <<queue, cache>>
       \/ /\ ~CanCreate(rows)
          /\ \/ /\ ~LastSave(h)
                /\ wr' = [wr EXCEPT ![h].pc = "claim", ![h].saves = @ + 1]
                /\ UNCHANGED <<queue, cache>>
             \/ /\ LastSave(h)
                /\ Fail(h)
          /\ UNCHANGED rows
    /\ UNCHANGED <<primed, stamp, inbox, rl, past>>

\* cleanupOldVersions reads the history.
Cleanup(h) ==
    /\ wr[h].pc = "cleanup"
    /\ \E D \in SUBSET Rev :
          /\ Surplus(rows, D)
          /\ wr' = [wr EXCEPT ![h].pc = "prune", ![h].old = D]
    /\ UNCHANGED <<rows, queue, view>>

\* It deletes the rows beyond those it keeps, whoever else has deleted some; a
\* query that throws is logged and leaves rows.  Then updateConfig drops the
\* provider's cache.
Prune(h) ==
    /\ wr[h].pc = "prune"
    /\ \E D \in SUBSET wr[h].old :
          /\ D = wr[h].old \/ h \in Failing
          /\ rows' = DeleteRows(rows, D)
    /\ wr' = [wr EXCEPT ![h].pc = "reread", ![h].old = {}]
    /\ primed' = IF h \in Boot THEN primed ELSE [primed EXCEPT ![ProcOf[h]] = FALSE]
    /\ UNCHANGED <<queue, cache, stamp, inbox, rl, past>>

\* The saved configuration is read back.  It throws in another writer's
\* hand-off, although the save is committed.
Reread(h) ==
    /\ wr[h].pc = "reread"
    /\ \/ /\ Active(rows) = {}
          /\ Fail(h)
       \/ /\ Active(rows) # {}
          /\ wr' = [wr EXCEPT ![h].pc = "install", ![h].base = ActiveRev(rows)]
          /\ UNCHANGED <<queue, cache>>
    /\ UNCHANGED <<rows, primed, stamp, inbox, rl, past>>

\* The timestamp is a second read, of whatever row is active by then.
Install(h) ==
    /\ wr[h].pc = "install" /\ h \notin Boot
    /\ primed' = [primed EXCEPT ![ProcOf[h]] = TRUE]
    /\ stamp' = [stamp EXCEPT ![ProcOf[h]] = StampNow]
    /\ PutInCache(ProcOf[h], wr[h].base, TRUE)
    /\ GoTo(h, "publish")
    /\ UNCHANGED <<rows, queue, inbox, rl>>

\* flushInitial keeps what it read back, with the time of the clock.
InstallFlushed(h) ==
    /\ wr[h].pc = "install" /\ h \in Boot
    /\ primed' = [primed EXCEPT ![ProcOf[h]] = TRUE]
    /\ stamp' = [stamp EXCEPT ![ProcOf[h]] = {SavesSoFar(rows)}]
    /\ PutInCache(ProcOf[h], wr[h].base, FALSE)
    /\ GoTo(h, "done")
    /\ UNCHANGED <<rows, queue, inbox, rl>>

\* publish reaches the processes of Q: those that listen, or none when pub/sub is
\* not connected or the call fails, which is only logged.
Broadcast(h, Q) ==
    /\ Q = {} \/ PubSub
    /\ inbox' = [p \in Proc |-> inbox[p] + IF p \in Q THEN 1 ELSE 0]
    /\ past' = [p \in Proc |-> IF p \in Q /\ Age(h) > past[p].told
                               THEN [past[p] EXCEPT !.told = Age(h)] ELSE past[p]]

\* Mutant: the lock is kept.
PublishLocked(h) ==
    /\ wr[h].pc = "publish"
    /\ \E Q \in SUBSET (Proc \ {ProcOf[h]}) : Broadcast(h, Q)
    /\ GoTo(h, "done")
    /\ UNCHANGED <<rows, queue, cache, primed, stamp, rl>>

\* Broadcast the invalidation to the other processes and return.
Publish(h) ==
    /\ wr[h].pc = "publish"
    /\ \E Q \in SUBSET (Proc \ {ProcOf[h]}) : Broadcast(h, Q)
    /\ GoTo(h, "done")
    /\ Release(h)
    /\ UNCHANGED <<rows, cache, primed, stamp, rl>>

\* The queries of update() and of flushInitial before the cache is set; what the
\* cleanup throws is caught there.
Querying == {"flush", "load", "check", "history", "claim", "latest", "create", "reread", "install"}

\* A query throws: what was written stays, and nothing is published.
QueryFails(h) ==
    /\ h \in Failing /\ wr[h].pc \in Querying
    /\ Fail(h)
    /\ UNCHANGED <<rows, primed, stamp, inbox, rl, past>>

-----------------------------------------------------------------------------
(* Reloads: of an invalidation event, or of a change that polling noticed. *)

StartReload(r, poll) ==
    /\ rl' = [rl EXCEPT ![r] = [IdleReload EXCEPT !.pc = "read", !.poll = poll,
                                                  !.prev = cache[ReloadProcOf[r]]]]
    /\ primed' = [primed EXCEPT ![ReloadProcOf[r]] = FALSE]

\* Mutant: an event that arrives during a reload is taken as covered by it.
DeliverCoalesced(r) ==
    /\ inbox[ReloadProcOf[r]] > 0
    /\ inbox' = [inbox EXCEPT ![ReloadProcOf[r]] = 0]
    /\ IF rl[r].pc = "idle" THEN StartReload(r, FALSE) ELSE UNCHANGED <<rl, primed>>
    /\ UNCHANGED <<rows, wr, queue, cache, stamp, past>>

\* The handler of config:invalidated starts reload(), whatever reloads it has
\* started before.
Deliver(r) ==
    /\ rl[r].pc = "idle" /\ inbox[ReloadProcOf[r]] > 0
    /\ inbox' = [inbox EXCEPT ![ReloadProcOf[r]] = @ - 1]
    /\ StartReload(r, FALSE)
    /\ UNCHANGED <<rows, wr, queue, cache, stamp, past>>

\* The poll compares updated_at with lastConfigUpdate; without either it
\* assumes no change, and without a cached configuration it does not look.
PollSees(p) == primed[p] /\ \E t \in stamp[p], u \in StampNow : u > t

Poll(r) ==
    /\ rl[r].pc = "idle" /\ PollSees(ReloadProcOf[r])
    /\ StartReload(r, TRUE)
    /\ UNCHANGED <<rows, wr, queue, cache, stamp, inbox, past>>

\* loadFromDatabase.
ReloadRead(r) ==
    /\ rl[r].pc = "read" /\ Active(rows) # {}
    /\ rl' = [rl EXCEPT ![r].pc = "install", ![r].got = ActiveRev(rows)]
    /\ UNCHANGED <<rows, wr, queue, cache, primed, stamp, inbox, past>>

\* It throws, also in a save's hand-off.  reload() puts the cache back that it
\* found; after a failed poll the cache is kept.  p gives up what it was told.
ReloadFails(r) ==
    /\ \/ rl[r].pc = "read" /\ Active(rows) = {}
       \/ rl[r].pc \in {"read", "install"} /\ r \in Failing
    /\ cache' = IF rl[r].poll THEN cache ELSE [cache EXCEPT ![ReloadProcOf[r]] = rl[r].prev]
    /\ rl' = [rl EXCEPT ![r] = IdleReload]
    /\ past' = [past EXCEPT ![ReloadProcOf[r]].told = 0, ![ReloadProcOf[r]].disturbed = TRUE]
    /\ UNCHANGED <<rows, wr, queue, primed, stamp, inbox>>

\* The timestamp is read, and the configuration read before it is installed.
ReloadInstall(r) ==
    /\ rl[r].pc = "install"
    /\ primed' = [primed EXCEPT ![ReloadProcOf[r]] = TRUE]
    /\ stamp' = [stamp EXCEPT ![ReloadProcOf[r]] = StampNow]
    /\ PutInCache(ReloadProcOf[r], rl[r].got, FALSE)
    /\ rl' = [rl EXCEPT ![r] = IdleReload]
    /\ UNCHANGED <<rows, wr, queue, inbox>>

-----------------------------------------------------------------------------
\* A process dies, and what it was doing is lost, and what it was told.
Crash(p) ==
    /\ p \in CanCrash
    /\ \E h \in Writer : ProcOf[h] = p /\ ~Finished(h)
    /\ wr' = [h \in Writer |-> IF ProcOf[h] = p /\ ~Finished(h)
                               THEN [wr[h] EXCEPT !.pc = "lost"] ELSE wr[h]]
    /\ queue' = [queue EXCEPT ![p] = <<>>]
    /\ rl' = [r \in Reload |-> IF ReloadProcOf[r] = p THEN IdleReload ELSE rl[r]]
    /\ inbox' = [inbox EXCEPT ![p] = 0]
    /\ past' = [past EXCEPT ![p].told = 0]
    /\ UNCHANGED <<rows, cache, primed, stamp>>

SaveStep(h) ==
    \/ BootFlush(h) \/ ReadVersion(h) \/ Load(h) \/ Check(h) \/ History(h) \/ Claim(h) \/ Latest(h)
    \/ Create(h) \/ Cleanup(h) \/ Prune(h) \/ Reread(h) \/ Install(h)
    \/ InstallFlushed(h) \/ Publish(h)

ReloadStep(r) == ReloadRead(r) \/ ReloadFails(r) \/ ReloadInstall(r)

Next ==
    \/ \E h \in Writer : OpenForm(h) \/ Submit(h) \/ BootLoad(h) \/ SaveStep(h) \/ QueryFails(h)
    \/ \E r \in Reload : Deliver(r) \/ Poll(r) \/ ReloadStep(r)
    \/ \E p \in Proc : Crash(p)

Spec == Init /\ [][Next]_vars

\* Queries return and a lock that is handed over is taken.
Fairness == \A h \in Writer : WF_vars(SaveStep(h))
FairSpec == Spec /\ Fairness

-----------------------------------------------------------------------------
(* Properties.                                                             *)

\* The variables have their types, and the lock of a process is held by a
\* writer that is at work.
TypeOK ==
    /\ rows \in [Rev -> Revision]
    /\ wr \in [Writer -> [pc: WriterPc, exp: Version \cup {NoVersion}, seen: Rev, base: Rev,
                          cur: Version \cup {NoVersion}, latest: Version \cup {NoVersion},
                          claimed: BOOLEAN, attempt: 0..MaxAttempts,
                          saves: 0..SaveMaxAttempts - 1, prev: Rev, old: SUBSET Rev]]
    /\ queue \in [Proc -> Seq(Writer)]
    /\ cache \in [Proc -> Rev]
    /\ primed \in [Proc -> BOOLEAN]
    /\ stamp \in [Proc -> SUBSET Nat]
    /\ inbox \in [Proc -> Nat]
    /\ rl \in [Reload -> [pc: ReloadPc, poll: BOOLEAN, prev: Rev, got: Rev]]
    /\ past \in [Proc -> [told: Nat, reached: Nat, disturbed: BOOLEAN]]

\* The saves that reached the database.
Committed == {h \in Writer \ Boot : rows[h].ver # NoVersion}

\* "Passing the version makes the full-document replacement safe across
\* processes" (db-provider.ts updateConfig): whoever saves, the active
\* configuration contains every edit saved so far.
NoLostUpdate ==
    Active(rows) # {} => Committed \subseteq ActiveContent(rows)

\* "Another writer owns the interval between deactivation and insertion. Let it
\* publish its revision" (prisma/settings.repository.ts save): every row was
\* inserted by a save that had deactivated the row it replaces.  A last attempt
\* goes on without, and may insert in the hand-off of a save that is alive.
Orderly == \A h \in Writer : rows[h].ver # NoVersion => wr[h].claimed

\* A save that reads the configuration finds one, unless another save is in
\* its hand-off: a missing active row is always about to be replaced.
\* "The final attempt also recovers a key left inactive by a crashed writer"
\* (prisma/settings.repository.ts save).
LoadFindsConfig ==
    Orderly => \A h \in Writer : wr[h].pc = "load" /\ Active(rows) = {} =>
        \E g \in Writer : InHandoff(g)

\* No save is refused for ever: saveMainConfiguration takes an inactive row newer
\* than the active one for a conflict, so the active row must be the newest,
\* whatever saves without a version were retried or started late, until one
\* inserts in the hand-off of another.
ActiveIsNewest ==
    Orderly /\ Active(rows) # {} => ~NewerInactive(rows, ActiveVersion(rows))

\* The same without the exception.
ActiveAlwaysNewest ==
    Active(rows) # {} => ~NewerInactive(rows, ActiveVersion(rows))

\* "If another user saves between your load and save, you get: Configuration
\* was modified by another user" (docs/configuration.md): a form that was saved
\* replaced the very version its page was opened on, and nobody else did.
FormReplacesItsVersion ==
    Orderly => \A h \in Form : rows[h].ver # NoVersion =>
        /\ rows[h].ver = wr[h].exp + 1
        /\ \A r \in Rev \ {h} : rows[r].ver # rows[h].ver

\* What a settings page did not show of the other forms.
Unseen(h) == IF h \in Form THEN Form \ rows[wr[h].seen].content ELSE {}

\* The same promise, save by save: one that was given a version, or read one,
\* loses nothing of the revision before its own, whichever process made that
\* and when, but what its page did not show.
VersionedSavesKeep ==
    Orderly => \A h \in Writer, r \in Rev :
        /\ rows[h].ver # NoVersion /\ wr[h].exp # NoVersion
        /\ rows[r].ver # NoVersion /\ rows[h].ver = rows[r].ver + 1
        => rows[r].content \ Unseen(h) \subseteq rows[h].content

\* "Rollback: restore previous cache so the app continues with last-known-good
\* config" (config/index.ts update): the saves of a process, successful or
\* failed, move its cache only forward, unless a reload or a start has written
\* it since the save began.
SavesMoveForward ==
    [][\A h \in Writer \ Boot : LET p == ProcOf[h] IN
          wr'[h] # wr[h] /\ Age(cache'[p]) < Age(cache[p]) => past[p].disturbed]_vars

\* Nothing is under way.
Settled ==
    /\ \A h \in Writer : wr[h].pc = "idle" \/ Finished(h)
    /\ \A r \in Reload : rl[r].pc = "idle"
    /\ \A p \in Proc : inbox[p] = 0

Stale(p) == Active(rows) # {} /\ cache[p] # ActiveRev(rows)

\* "Subscribers clear in-memory caches and reload from the database, ensuring
\* cross-process consistency in clustered deployments" (docs/configuration.md):
\* once every save, event and reload is over, every process has the active
\* configuration.
CachesConverge == Settled => \A p \in Proc : ~Stale(p)

\* No invalidation that arrives is without effect, whatever saves and reloads it
\* meets: once nothing is under way, a process has installed a configuration at
\* least as new as every one it was told of.  That an older one may have been put
\* back since is CachesConverge.
ToldIsInstalled == Settled => \A p \in Proc : past[p].told <= past[p].reached

\* "Standalone MongoDB, SQLite, and PostgreSQL poll every 30 seconds, comparing
\* updated_at timestamps" (docs/configuration.md): a process whose cache is
\* stale when all is settled will notice at its next poll.
PollingCatchesUp == Settled => \A p \in Proc : Stale(p) => PollSees(p)

\* A save that waits for the update lock of its process gets it and ends,
\* whatever conflicts and failures the saves before it met.
UpdateEnds == \A h \in Writer : wr[h].pc = "queued" ~> Finished(h)

-----------------------------------------------------------------------------
(* Why they hold.                                                          *)

\* Up to the insertion of its row.
BeforeCreate == {"idle", "form", "flush", "queued", "load", "check", "history", "claim", "latest",
                 "create"}

\* The writers that have inserted their row, kept or not.
Made == {h \in Writer : rows[h].ver # NoVersion}

\* A save inserts one row, and a version is at most the number of insertions.
Numbering ==
    /\ \A r \in Rev : rows[r].ver <= Cardinality(Made) + 1
    /\ \A r \in Present(rows) : rows[r].ver # NoVersion
    /\ \A h \in Writer : wr[h].pc \in BeforeCreate => rows[h].ver = NoVersion
    /\ \A h \in Writer : wr[h].pc = "create" => wr[h].latest <= Cardinality(Made) + 1

\* What a start of a process does, and what only it does.
Booting ==
    /\ \A h \in Boot : wr[h].pc \notin {"form", "queued", "load", "publish"}
    /\ \A h \in Writer : wr[h].pc = "flush" => h \in Boot
    /\ \A h \in Writer : wr[h].pc \in {"idle", "form"} => wr[h].attempt = 0
    /\ \A h \in Writer : wr[h].pc = "queued" => wr[h].attempt < MaxAttempts

\* From the first read of the version until the lock is released.
AtWork(h) ==
    /\ h \notin Boot
    /\ \/ wr[h].pc \in {"load", "check", "history", "claim", "latest", "create", "cleanup",
                        "prune", "reread", "install", "publish"}
       \/ wr[h].pc = "queued" /\ wr[h].attempt > 0

Waits(h) == \E i \in 1..Len(queue[ProcOf[h]]) : queue[ProcOf[h]][i] = h

\* Who is at work holds the lock of its process, so it works alone there.
LockKept ==
    /\ \A h \in Writer : wr[h].pc = "queued" \/ AtWork(h) => Waits(h)
    /\ \A h \in Writer : AtWork(h) => HoldsLock(h)

\* h has deactivated the active row and not inserted its own.
Owner(h) == wr[h].claimed /\ rows[h].ver = NoVersion

\* r is the newest of all rows ever inserted, v its version.
Newest(r) == \A s \in Rev : rows[s].ver <= rows[r].ver
NewestVersion(v) == (\A s \in Rev : rows[s].ver <= v) /\ \E s \in Rev : rows[s].ver = v

\* While every save replaces a row it deactivated, one row is active or one save
\* is about to insert its own; versions grow, and the cleanup spares the newest.
VersionsGrow ==
    /\ \A r, s \in Rev : rows[r].ver = rows[s].ver /\ rows[r].ver # NoVersion => r = s
    /\ \E r \in Present(rows) : Newest(r)
    /\ \A r \in Active(rows) : Newest(r)
    /\ \A h \in Writer : \A d \in wr[h].old : rows[d].ver # NoVersion /\ ~Newest(d)

OneOwner ==
    /\ Active(rows) = {} => \E h \in Writer : Owner(h)
    /\ \A h \in Writer : Owner(h) =>
        /\ Active(rows) = {}
        /\ \/ wr[h].pc \in {"latest", "create", "lost"}
           \/ wr[h].pc \in {"failed", "done"} /\ h \in Failing
        /\ \A g \in Writer : Owner(g) => g = h
        /\ wr[h].exp # NoVersion => NewestVersion(wr[h].exp)
        /\ wr[h].pc = "create" => NewestVersion(wr[h].latest)

FormsVersioned ==
    \A h \in Form :
        /\ wr[h].pc \notin {"idle", "lost"} \/ wr[h].claimed => wr[h].exp # NoVersion
        /\ rows[h].ver # NoVersion => rows[h].ver = wr[h].exp + 1

OrderInv == Orderly => VersionsGrow /\ OneOwner /\ FormsVersioned

\* Whatever a process or a save holds is a row that was inserted.
Inserted(r) == rows[r].ver # NoVersion

HeldInserted ==
    /\ Inserted(Genesis)
    /\ \A p \in Proc : Inserted(cache[p])
    /\ \A h \in Writer : Inserted(wr[h].seen) /\ Inserted(wr[h].base) /\ Inserted(wr[h].prev)
    /\ \A r \in Reload : Inserted(rl[r].prev) /\ Inserted(rl[r].got)

\* Of the saves that know a version: it was there; what they merged is of that
\* version while it is the newest; and they insert the next one over it.
Versioned(h) ==
    /\ \E s \in Rev : wr[h].exp <= rows[s].ver
    /\ wr[h].pc \in {"check", "history", "claim"} /\ NewestVersion(wr[h].exp) =>
        rows[wr[h].base].ver = wr[h].exp
    /\ wr[h].pc \in {"latest", "create"} /\ wr[h].claimed => rows[wr[h].base].ver = wr[h].exp
    /\ wr[h].pc = "create" => wr[h].claimed
    /\ Inserted(h) => rows[h].ver = wr[h].exp + 1
    /\ Inserted(h) => \A r \in Rev : rows[r].ver = wr[h].exp =>
            rows[r].content \ Unseen(h) \subseteq rows[h].content

\* A start knows none.
Keeping ==
    /\ \A h \in Boot : wr[h].exp = NoVersion
    /\ \A h \in Writer : wr[h].exp # NoVersion => Versioned(h)

KeepInv == Orderly => Keeping

\* Rows age in the order of their insertion, and the active one is the youngest.
Aging ==
    /\ \A r \in Rev : ~Inserted(r) => Age(r) = 0
    /\ \A r \in Rev : Age(r) <= SavesSoFar(rows)
    /\ \A r \in Active(rows), s \in Rev : Age(s) <= Age(r)
    /\ \A p \in Proc : \E s \in Rev : past[p].told <= Age(s)

\* A save at work finds the cache as it did when it began, or older than what it
\* read back, unless something else wrote it.
Restorable(h) ==
    ~past[ProcOf[h]].disturbed /\ AtWork(h) =>
        /\ wr[h].pc # "publish" => wr[h].prev = cache[ProcOf[h]]
        /\ wr[h].pc = "install" => Age(cache[ProcOf[h]]) <= Age(wr[h].base)

\* What a process was told of it has installed, or an event or a reload that has
\* not read, or has read as much, is still to come.
Heard(p) ==
    \/ past[p].told <= past[p].reached \/ inbox[p] > 0
    \/ \E r \in Reload : /\ ReloadProcOf[r] = p
                         /\ \/ rl[r].pc = "read"
                            \/ rl[r].pc = "install" /\ past[p].told <= Age(rl[r].got)

CacheInv ==
    /\ Aging
    /\ \A h \in Writer : Restorable(h)
    /\ \A p \in Proc : Heard(p)
=============================================================================
