---------------------------- MODULE TenantConfig ----------------------------
(***************************************************************************)
(* The configuration of one tenant: the override document that the admin   *)
(* panel and the Management API write (TenantSettingsOverrideService and   *)
(* its repository), the logo files the document names, and the merged      *)
(* configuration every process caches (ConfigManager.ensureTenantConfig).  *)
(*                                                                         *)
(* The document has two sections: branding, with a logo and colors, and    *)
(* security, with a level on which the platform sets a floor.  The value 0 *)
(* of a field means that the tenant does not override it.  Inactive rows   *)
(* are never read again, so of the rows of a key only the active one and   *)
(* whether there are any is kept.  The platform's own configuration is     *)
(* module ConfigUpdate; here it is its floor.                              *)
(***************************************************************************)
EXTENDS Naturals, FiniteSets, Sequences

CONSTANTS
    Proc,         \* processes
    Req,          \* requests that write, each one at a time
    ProcOf,       \* the process that serves a request
    Operations,   \* what a request may be
    NoDoc,        \* findActive() found nothing
    SaveMaxAttempts,
    Level,        \* values of the security field
    StartDoc,     \* documents to start with
    MaxOps,       \* bound: how often each request is made
    MaxFiles,     \* bound: logos uploaded
    MaxPlatform,  \* bound: updates of the platform's configuration
    MaxCrashes    \* bound: crashes

\* The branding requests first load the document.
BrandingKind == {"form", "formFile", "upload", "remove", "resetColors"}

ASSUME TenantAssumption ==
    /\ ProcOf \in [Req -> Proc]
    /\ Operations \in [Req -> SUBSET (BrandingKind \cup {"save", "api", "reset"})]
    /\ SaveMaxAttempts \in Nat \ {0}
    /\ Level \subseteq Nat \ {0} /\ Level # {}
    /\ MaxOps \in [Req -> Nat] /\ MaxFiles \in Nat /\ MaxPlatform \in Nat /\ MaxCrashes \in Nat

Field == {"logo", "colors", "level"}
Section == {"branding", "security"}
FieldsOf(s) == IF s = "branding" THEN {"logo", "colors"} ELSE {"level"}

\* A row's tenant_id: the middleware and the panel use the slug, the Management
\* API the identifier of the tenant's record.
Key == {"slug", "id"}

File == 1..MaxFiles
FieldValue == [logo |-> {0} \cup File, colors |-> 0..1, level |-> {0} \cup Level]
Doc == {d \in [Field -> UNION {FieldValue[f] : f \in Field}] :
            \A f \in Field : d[f] \in FieldValue[f]}
Empty == [f \in Field |-> 0]

ASSUME StartAssumption == StartDoc \subseteq Doc \cup {NoDoc} /\ NoDoc \notin Doc

VARIABLES
    active,    \* active[k]: the content of the active row of key k
    stored,    \* keys that have a row
    files,     \* logo files in the storage
    made,      \* logo files ever stored
    platform,  \* the platform's floor, as stored
    base,      \* base[p]: ConfigManager.cache of process p
    tcfg,      \* tcfg[p]: the tenant's entry of tenantConfigs
    load,      \* load[p]: the load that holds tenantConfigLocks
    inbox,     \* inbox[p]: invalidations on their way to p
    reloads,   \* processes in reload()
    job,       \* job[r]: the writing request r
    count,     \* requests, platform updates and crashes so far
    \* History, read by the properties only.
    expected,  \* the document had the requests been served one by one
    overlap,   \* two requests were in progress at the same time
    cut,       \* a crash ended a request in progress
    gaveUp,    \* a save ran out of attempts
    missed     \* missed[p]: what p holds was outdated and no event follows

storage == <<active, stored, files, made>>
caches == <<base, tcfg, load, inbox, reloads, missed>>
history == <<expected, overlap, cut, gaveUp>>
vars == <<storage, platform, caches, job, count, history>>

-----------------------------------------------------------------------------
(* The document.                                                           *)

\* d with the values of e.
Overlay(d, e) == [f \in Field |-> IF f \in DOMAIN e THEN e[f] ELSE d[f]]

\* loadOverrides: no document and an empty one are the same to its callers.
LoadOverrides(k) == IF active[k] = NoDoc THEN Empty ELSE active[k]

SectionOf(d, s) == [f \in FieldsOf(s) |-> d[f]]

\* stripEmptyValues leaves nothing of the section.
Stripped(e) == \A f \in DOMAIN e : e[f] = 0

\* enforceConstraints: a level below the platform's becomes the platform's.
EnforceConstraints(l, floor) == IF l < floor THEN floor ELSE l

-----------------------------------------------------------------------------
Idle == [pc |-> "idle", kind |-> "reset", key |-> "slug", edit |-> Empty, write |-> Empty,
         file |-> 0, old |-> 0, n |-> 0, hit |-> FALSE]
NoLoad == [pc |-> "idle", base |-> 0, doc |-> Empty]
NoConfig == [base |-> 0, doc |-> Empty]

LowestLevel == CHOOSE l \in Level : \A m \in Level : l <= m

Init ==
    /\ \E d \in StartDoc :
        /\ active = [slug |-> d, id |-> NoDoc]
        /\ stored = IF d = NoDoc THEN {} ELSE {"slug"}
        /\ made = IF d = NoDoc THEN 0 ELSE d.logo
        /\ expected = IF d = NoDoc THEN Empty ELSE d
    /\ files = 1..made
    /\ platform = LowestLevel
    /\ base = [p \in Proc |-> LowestLevel]
    /\ tcfg = [p \in Proc |-> NoConfig]
    /\ load = [p \in Proc |-> NoLoad]
    /\ inbox = [p \in Proc |-> <<>>]
    /\ reloads = {}
    /\ job = [r \in Req |-> Idle]
    /\ count = [ops |-> [r \in Req |-> 0], platform |-> 0, crash |-> 0]
    /\ overlap = FALSE /\ cut = FALSE /\ gaveUp = FALSE
    /\ missed = [p \in Proc |-> FALSE]

Go(r, pc) == job' = [job EXCEPT ![r].pc = pc]
End(r) == job' = [job EXCEPT ![r] = Idle]

-----------------------------------------------------------------------------
(* ConfigManager: the cached entries.                                      *)

\* tenantConfigs.delete or clear in process p; a load that has read the
\* overrides, or the base when that is what changed, still sets its entry.
Evicted(p, since) ==
    /\ tcfg' = [tcfg EXCEPT ![p] = NoConfig]
    /\ missed' = [missed EXCEPT ![p] = load[p].pc \in since \/ (@ /\ load[p].pc # "idle")]

InvalidateTenantConfig(p) == Evicted(p, {"set"})

\* ensureTenantConfig: one load at a time, from a copy of the platform's cache.
EnsureTenantConfig(p) ==
    /\ tcfg[p] = NoConfig /\ load[p].pc = "idle"
    /\ load' = [load EXCEPT ![p] = [pc |-> "query", base |-> base[p], doc |-> Empty]]
    /\ UNCHANGED <<storage, platform, base, tcfg, inbox, reloads, missed, job, count, history>>

QueryOverrides(p) ==
    /\ load[p].pc = "query"
    /\ load' = [load EXCEPT ![p] = [@ EXCEPT !.pc = "set", !.doc = LoadOverrides("slug")]]
    /\ UNCHANGED <<storage, platform, base, tcfg, inbox, reloads, missed, job, count, history>>

\* loadTenantConfig caches the merged configuration.
SetTenantConfig(p) ==
    /\ load[p].pc = "set"
    /\ tcfg' = [tcfg EXCEPT ![p] = [base |-> load[p].base, doc |-> load[p].doc]]
    /\ load' = [load EXCEPT ![p] = NoLoad]
    /\ UNCHANGED <<storage, platform, base, inbox, reloads, missed, job, count, history>>

\* loadOverrides failed: nothing is cached and nothing is thrown.
LoadFails(p) ==
    /\ load[p].pc = "query"
    /\ load' = [load EXCEPT ![p] = NoLoad]
    /\ UNCHANGED <<storage, platform, base, tcfg, inbox, reloads, missed, job, count, history>>

\* publish reaches the processes of Q: those that listen, or none when pub/sub is
\* not connected or the call fails, which nobody but the log is told.
Broadcast(Q, event) ==
    inbox' = [q \in Proc |-> IF q \in Q THEN Append(inbox[q], event) ELSE inbox[q]]

\* q has the tenant's overrides as they were before the document changed.
Outdated(q) ==
    \/ tcfg[q] # NoConfig /\ tcfg[q].doc # LoadOverrides("slug")
    \/ load[q].pc = "set" /\ load[q].doc # LoadOverrides("slug")

\* invalidateTenantConfig with broadcast, in process p; Q hears of it.
InvalidateAndPublish(p, Q) ==
    /\ tcfg' = [tcfg EXCEPT ![p] = NoConfig]
    /\ missed' = [q \in Proc |->
            IF q = p THEN load[p].pc = "set" \/ (missed[p] /\ load[p].pc # "idle")
            ELSE missed[q] \/ (q \notin Q /\ Outdated(q))]
    /\ Broadcast(Q, "tenant")

\* update() of the platform's configuration, in process p.
UpdatePlatform(p, l) ==
    /\ count.platform < MaxPlatform /\ l # platform
    /\ count' = [count EXCEPT !.platform = @ + 1]
    /\ platform' = l /\ base' = [base EXCEPT ![p] = l]
    /\ Evicted(p, {"query", "set"})
    /\ \E Q \in SUBSET (Proc \ {p}) : Broadcast(Q, "global")
    /\ UNCHANGED <<storage, load, reloads, job, history>>

\* The handler of setPubSub.
ReceiveTenantEvent(p) ==
    /\ inbox[p] # <<>> /\ Head(inbox[p]) = "tenant"
    /\ inbox' = [inbox EXCEPT ![p] = Tail(@)]
    /\ InvalidateTenantConfig(p)
    /\ UNCHANGED <<storage, platform, base, load, reloads, job, count, history>>

ReceiveGlobalEvent(p) ==
    /\ inbox[p] # <<>> /\ Head(inbox[p]) = "global"
    /\ inbox' = [inbox EXCEPT ![p] = Tail(@)]
    /\ Evicted(p, {"set"})
    /\ reloads' = reloads \cup {p}
    /\ UNCHANGED <<storage, platform, base, load, job, count, history>>

Reload(p) ==
    /\ p \in reloads
    /\ reloads' = reloads \ {p}
    /\ base' = [base EXCEPT ![p] = platform]
    /\ Evicted(p, {"query", "set"})
    /\ UNCHANGED <<storage, platform, load, inbox, job, count, history>>

-----------------------------------------------------------------------------
(* Requests that write.                                                    *)

\* The request begins, with what its form says of it.
Begin(r, j) ==
    /\ job[r].pc = "idle" /\ count.ops[r] < MaxOps[r]
    /\ count' = [count EXCEPT !.ops[r] = @ + 1]
    /\ job' = [job EXCEPT ![r] = j]
    /\ overlap' = (overlap \/ \E q \in Req : job[q].pc # "idle" /\ job[q].key = j.key)
    /\ UNCHANGED <<storage, platform, caches, expected, cut, gaveUp>>

\* updateSection of a section that replaces what was there.
UpdateSection(r, l) ==
    Begin(r, [Idle EXCEPT !.pc = "read", !.kind = "save",
                          !.edit = [level |-> EnforceConstraints(l, base[ProcOf[r]])]])

\* PUT /tenants/:slug/config/:section
UpdateConfig(r, l) ==
    Begin(r, [Idle EXCEPT !.pc = "read", !.kind = "save", !.key = "id",
                          !.edit = [level |-> EnforceConstraints(l, base[ProcOf[r]])]])

ResetSection(r, s) ==
    Begin(r, [Idle EXCEPT !.pc = "read", !.edit = [f \in FieldsOf(s) |-> 0]])

UpdateBranding(r, kind) == Begin(r, [Idle EXCEPT !.pc = "load", !.kind = kind])

\* The section after the request, given what it loaded: file is the logo it
\* stored and c the colors of its form.
NewBranding(kind, b, file, c) ==
    CASE kind = "form" -> [b EXCEPT !.colors = c]
      [] kind = "formFile" -> [b EXCEPT !.colors = c, !.logo = file]
      [] kind = "upload" -> [b EXCEPT !.logo = file]
      [] kind = "remove" -> [b EXCEPT !.logo = 0]
      [] kind = "resetColors" -> [b EXCEPT !.colors = 0]

\* loadOverrides, the upload, and the section to save; without a field left,
\* saveOverrides throws and the colors' reset deletes the section.
LoadBranding(r, c) ==
    LET kind == job[r].kind
        b == SectionOf(LoadOverrides("slug"), "branding")
        uploads == kind \in {"formFile", "upload"}
        edit == NewBranding(kind, b, made + 1, c) IN
    /\ job[r].pc = "load"
    /\ kind \notin {"form", "formFile"} => c = 0
    /\ uploads => made < MaxFiles
    /\ files' = IF uploads THEN files \cup {made + 1} ELSE files
    /\ made' = IF uploads THEN made + 1 ELSE made
    /\ IF Stripped(edit) /\ kind # "resetColors"
       THEN End(r)
       ELSE job' = [job EXCEPT ![r] =
                [@ EXCEPT !.pc = "read", !.edit = edit,
                          !.kind = IF Stripped(edit) THEN "reset" ELSE kind,
                          !.file = IF uploads THEN made + 1 ELSE 0,
                          !.old = IF uploads \/ kind = "remove" THEN b.logo ELSE 0]]
    /\ UNCHANGED <<active, stored, platform, caches, count, history>>

\* Mutant: the other sections are not carried forward.
MergedAlone(d, e) == Overlay(Empty, e)

\* saveOverrides and deleteSection: the document to save.
Merged(d, e) == Overlay(d, e)

\* findActive; deleteSection of a document that is not there saves nothing.
ReadActive(r) ==
    LET k == job[r].key IN
    /\ job[r].pc = "read"
    /\ IF job[r].kind = "reset" /\ active[k] = NoDoc
       THEN Go(r, "publish")
       ELSE job' = [job EXCEPT ![r] =
                [@ EXCEPT !.pc = "deactivate", !.write = Merged(LoadOverrides(k), job[r].edit)]]
    /\ UNCHANGED <<storage, platform, caches, count, history>>

\* updateMany: the active row becomes inactive.
Deactivate(r) ==
    LET k == job[r].key IN
    /\ job[r].pc = "deactivate"
    /\ active' = [active EXCEPT ![k] = NoDoc]
    /\ job' = [job EXCEPT ![r] = [@ EXCEPT !.pc = "latest", !.hit = active[k] # NoDoc]]
    /\ UNCHANGED <<stored, files, made, platform, caches, count, history>>

\* save() throws; an upload takes its file back.
GiveUp(r) ==
    /\ files' = files \ {job[r].file}
    /\ gaveUp' = TRUE
    /\ End(r)

Retry(r) ==
    /\ job' = [job EXCEPT ![r] = [@ EXCEPT !.pc = "deactivate", !.n = job[r].n + 1]]
    /\ UNCHANGED <<files, gaveUp>>

\* The loop's next round, or its end.
NextAttempt(r) == IF job[r].n < SaveMaxAttempts - 1 THEN Retry(r) ELSE GiveUp(r)

\* Mutant: the last attempt waits for an active row too.
OthersAtWork(r) == ~job[r].hit /\ job[r].key \in stored

\* Rows and none active: another save is between its two statements.  The last
\* attempt goes on all the same.
SaveInProgress(r) ==
    ~job[r].hit /\ job[r].key \in stored /\ job[r].n < SaveMaxAttempts - 1

FindLatest(r) ==
    /\ job[r].pc = "latest"
    /\ IF SaveInProgress(r)
       THEN NextAttempt(r)
       ELSE Go(r, "create") /\ UNCHANGED <<files, gaveUp>>
    /\ UNCHANGED <<active, stored, made, platform, caches, count, expected, overlap, cut>>

\* What the request asked for, whatever it read.
Asked(r) ==
    LET e == job[r].edit IN
    CASE job[r].kind = "upload" -> [logo |-> e.logo]
      [] job[r].kind = "remove" -> [logo |-> 0]
      [] job[r].kind = "form" -> [colors |-> e.colors]
      [] job[r].kind = "resetColors" -> [colors |-> 0]
      [] OTHER -> e

\* create: the unique index refuses a second active row.
CreateRow(r) ==
    LET k == job[r].key IN
    /\ job[r].pc = "create" /\ active[k] = NoDoc
    /\ active' = [active EXCEPT ![k] = job[r].write]
    /\ stored' = stored \cup {k}
    /\ IF k = "slug"
       THEN Go(r, "publish") /\ expected' = Overlay(expected, Asked(r))
       ELSE End(r) /\ UNCHANGED expected
    /\ UNCHANGED <<files, made, platform, caches, count, overlap, cut, gaveUp>>

CreateRefused(r) ==
    /\ job[r].pc = "create" /\ active[job[r].key] # NoDoc
    /\ NextAttempt(r)
    /\ UNCHANGED <<active, stored, made, platform, caches, count, expected, overlap, cut>>

\* Mutant: the old file goes before the entry that names it.
DeleteFirst(r) ==
    /\ job[r].pc = "publish"
    /\ IF job[r].old # 0
       THEN /\ files' = files \ {job[r].old}
            /\ job' = [job EXCEPT ![r].old = 0]
            /\ UNCHANGED <<tcfg, missed, inbox>>
       ELSE /\ InvalidateAndPublish(ProcOf[r], Proc \ {ProcOf[r]})
            /\ End(r) /\ UNCHANGED files
    /\ UNCHANGED <<active, stored, made, platform, base, load, reloads, count, history>>

\* Mutant: the other processes are not told.
PublishNothing(r) ==
    /\ job[r].pc = "publish"
    /\ InvalidateTenantConfig(ProcOf[r])
    /\ IF job[r].old # 0 THEN Go(r, "cleanup") ELSE End(r)
    /\ UNCHANGED <<storage, platform, base, load, inbox, reloads, count, history>>

\* Once the save is done.
PublishInvalidation(r) ==
    /\ job[r].pc = "publish"
    /\ \E Q \in SUBSET (Proc \ {ProcOf[r]}) : InvalidateAndPublish(ProcOf[r], Q)
    /\ IF job[r].old # 0 THEN Go(r, "cleanup") ELSE End(r)
    /\ UNCHANGED <<storage, platform, base, load, reloads, count, history>>

\* _deleteFileBestEffort of the logo that was replaced or removed.
DeleteOldFile(r) ==
    /\ job[r].pc = "cleanup"
    /\ files' = files \ {job[r].old}
    /\ End(r)
    /\ UNCHANGED <<active, stored, made, platform, caches, count, history>>

\* A process dies and starts again.
Crash(p) ==
    LET dead == {r \in Req : ProcOf[r] = p /\ job[r].pc # "idle"} IN
    /\ count.crash < MaxCrashes
    /\ count' = [count EXCEPT !.crash = @ + 1]
    /\ job' = [r \in Req |-> IF r \in dead THEN Idle ELSE job[r]]
    /\ base' = [base EXCEPT ![p] = platform]
    /\ tcfg' = [tcfg EXCEPT ![p] = NoConfig]
    /\ load' = [load EXCEPT ![p] = NoLoad]
    /\ inbox' = [inbox EXCEPT ![p] = <<>>]
    /\ reloads' = reloads \ {p}
    /\ cut' = (cut \/ dead # {})
    /\ missed' = [q \in Proc |-> q # p /\ (missed[q] \/
                    \E r \in dead : job[r].pc \in {"latest", "create", "publish"})]
    /\ UNCHANGED <<storage, platform, expected, overlap, gaveUp>>

Next ==
    \/ \E r \in Req :
        \/ "save" \in Operations[r] /\ \E l \in Level : UpdateSection(r, l)
        \/ "api" \in Operations[r] /\ \E l \in Level : UpdateConfig(r, l)
        \/ "reset" \in Operations[r] /\ \E s \in Section : ResetSection(r, s)
        \/ \E k \in BrandingKind \cap Operations[r] : UpdateBranding(r, k)
        \/ \E c \in 0..1 : LoadBranding(r, c)
        \/ ReadActive(r) \/ Deactivate(r) \/ FindLatest(r)
        \/ CreateRow(r) \/ CreateRefused(r)
        \/ PublishInvalidation(r) \/ DeleteOldFile(r)
    \/ \E p \in Proc :
        \/ EnsureTenantConfig(p) \/ QueryOverrides(p) \/ SetTenantConfig(p) \/ LoadFails(p)
        \/ \E l \in Level : UpdatePlatform(p, l)
        \/ ReceiveTenantEvent(p) \/ ReceiveGlobalEvent(p) \/ Reload(p)
        \/ Crash(p)

Spec == Init /\ [][Next]_vars

-----------------------------------------------------------------------------
(* Properties.                                                             *)

\* A section, or a part of it, as an edit.
SectionDoc(s) == {e \in [FieldsOf(s) -> Nat] : \A f \in FieldsOf(s) : e[f] \in FieldValue[f]}

Request ==
    [pc : {"idle", "load", "read", "deactivate", "latest", "create", "publish", "cleanup"},
     kind : BrandingKind \cup {"save", "reset"}, key : Key,
     edit : Doc \cup SectionDoc("branding") \cup SectionDoc("security"), write : Doc,
     file : {0} \cup File, old : {0} \cup File, n : 0..(SaveMaxAttempts - 1), hit : BOOLEAN]

\* The variables have their types; a process that has an entry loads none, only a
\* branding request loads first, and only plain saves come from the Management API.
TypeOK ==
    /\ active \in [Key -> Doc \cup {NoDoc}] /\ stored \subseteq Key
    /\ files \subseteq 1..made /\ made \in 0..MaxFiles
    /\ platform \in Level /\ base \in [Proc -> Level]
    /\ tcfg \in [Proc -> {NoConfig} \cup [base : Level, doc : Doc]]
    /\ load \in [Proc -> [pc : {"idle", "query", "set"}, base : {0} \cup Level, doc : Doc]]
    /\ \A p \in Proc : load[p].pc # "idle" => tcfg[p] = NoConfig /\ load[p].base \in Level
    /\ inbox \in [Proc -> Seq({"tenant", "global"})] /\ reloads \subseteq Proc
    /\ job \in [Req -> Request]
    /\ \A r \in Req : /\ job[r].pc = "load" => job[r].kind \in BrandingKind
                      /\ job[r].kind \in BrandingKind /\ job[r].pc # "load" =>
                           job[r].edit \in SectionDoc("branding")
                      /\ job[r].kind # "save" => job[r].key = "slug"
    /\ count \in [ops : [Req -> Nat], platform : Nat, crash : Nat]
    /\ expected \in Doc /\ missed \in [Proc -> BOOLEAN]
    /\ overlap \in BOOLEAN /\ cut \in BOOLEAN /\ gaveUp \in BOOLEAN

\* A save is between taking the document away and telling the caches.
Saving == \E r \in Req : job[r].key = "slug" /\ job[r].pc \in {"latest", "create", "publish"}

\* "forcing reload on next ensureTenantConfig()" (config/index.ts): what a process has
\* cached is the document merged into the platform's configuration, once no save is
\* under way and no event on its way; unless (missed) a load of the process had
\* already read the overrides when it was told to forget them, the process that owed
\* the event died, or the event did not reach a process that held what is outdated.
CacheFresh ==
    ~Saving =>
        \A p \in Proc :
            (tcfg[p] # NoConfig /\ ~missed[p] /\ inbox[p] = <<>>) =>
                tcfg[p] = [base |-> base[p], doc |-> LoadOverrides("slug")]

\* "Carry forward existing whitelisted sections" (saveOverrides): requests that did
\* not overlap leave the document their edits make one after another; nothing of
\* the other section, and of the other fields of branding, is lost.
SavesCompose ==
    (~overlap /\ ~cut /\ ~Saving) => LoadOverrides("slug") = expected

\* The logo in the document, and the one in what a process serves, is in the
\* storage: an upload replaces the file only after the document and the entry that
\* named the old one are gone, and takes its own file back when the save failed.  A
\* process that missed the event goes on naming the old one.
LogoBacked ==
    ~overlap =>
        /\ LoadOverrides("slug").logo \in files \cup {0}
        /\ \A p \in Proc :
            (tcfg[p] # NoConfig /\ ~missed[p] /\ inbox[p] = <<>>) =>
                tcfg[p].doc.logo \in files \cup {0}

\* A save that no other one overlaps never runs out of attempts, not even after a
\* crash that left the tenant without an active row.
SoloSaveSucceeds == gaveUp => overlap

-----------------------------------------------------------------------------
(* Why they hold: what makes the properties above inductive.               *)

\* Two requests in progress on the same document are known to overlap.
OneAtATime ==
    overlap \/ \A q, r \in Req :
        job[q].pc # "idle" /\ job[r].pc # "idle" /\ job[q].key = job[r].key => q = r

\* Only another save puts a row where one was taken away.
RowTakenAway ==
    \A r \in Req : job[r].pc \in {"latest", "create"} /\ active[job[r].key] # NoDoc => overlap

\* The document changed, or is about to, and the request that will say so is there.
Unannounced ==
    \E r \in Req :
        /\ job[r].key = "slug"
        /\ \/ job[r].pc = "publish"
           \/ job[r].pc \in {"latest", "create"} /\ job[r].hit /\ active["slug"] = NoDoc

Told(p) == \E i \in DOMAIN inbox[p] : inbox[p][i] = "tenant"

\* What p serves or is about to serve, as far as an event can still reach it.
HeldDocs(p) ==
    IF missed[p] THEN {}
    ELSE (IF tcfg[p] = NoConfig THEN {} ELSE {tcfg[p].doc})
             \cup (IF load[p].pc = "set" THEN {load[p].doc} ELSE {})

DocsFresh ==
    \A p \in Proc : \A d \in HeldDocs(p) : d = LoadOverrides("slug") \/ Told(p) \/ Unannounced

BasesFresh ==
    \A p \in Proc : ~missed[p] =>
        /\ tcfg[p] # NoConfig => tcfg[p].base = base[p]
        /\ load[p].pc # "idle" => load[p].base = base[p]

\* A request that is alone saves what it was asked for over what its predecessors
\* left; where it took nothing away there was nothing.
SavesItsEdit(r) ==
    /\ job[r].pc = "read" => Overlay(expected, job[r].edit) = Overlay(expected, Asked(r))
    /\ job[r].pc \in {"deactivate", "latest", "create"} =>
         job[r].write = Overlay(expected, Asked(r))
    /\ job[r].pc \in {"latest", "create"} /\ ~job[r].hit => expected = Empty

Composed ==
    ~overlap /\ ~cut =>
        /\ \/ LoadOverrides("slug") = expected
           \/ \E r \in Req : job[r].key = "slug" /\ job[r].pc \in {"latest", "create"} /\ job[r].hit
        /\ \A r \in Req : job[r].key = "slug" => SavesItsEdit(r)

\* The file that a request will delete is not the one its document names.
SparesItsLogo(r) ==
    /\ job[r].key = "id" => job[r].old = 0
    /\ job[r].kind = "reset" => job[r].old = 0
    /\ job[r].key = "slug" /\ job[r].pc = "read" =>
         /\ "logo" \in DOMAIN job[r].edit => job[r].edit["logo"] \in files \cup {0}
         /\ job[r].old # 0 => "logo" \in DOMAIN job[r].edit /\ job[r].edit["logo"] # job[r].old
    /\ job[r].key = "slug" /\ job[r].pc \in {"deactivate", "latest", "create"} =>
         job[r].write["logo"] \in (files \cup {0}) \ ({job[r].old} \ {0})
    /\ job[r].key = "slug" /\ job[r].pc \in {"publish", "cleanup"} /\ job[r].old # 0 =>
         LoadOverrides("slug")["logo"] # job[r].old

LogosKept ==
    ~overlap =>
        /\ LoadOverrides("slug")["logo"] \in files \cup {0}
        /\ \A p \in Proc : \A d \in HeldDocs(p) : ~Told(p) => d["logo"] \in files \cup {0}
        /\ \A r \in Req : SparesItsLogo(r)

\* "floor values prevent tenants from weakening security requirements"
\* (docs/multi-tenancy.md): no process serves a level below its platform's.
FloorHolds ==
    \A p \in Proc :
        tcfg[p] # NoConfig => (tcfg[p].doc.level = 0 \/ tcfg[p].doc.level >= tcfg[p].base)
=============================================================================
