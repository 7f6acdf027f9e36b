------------------------ MODULE TenantConfigProofs ------------------------
(***************************************************************************)
(* Proofs about TenantConfig.                                              *)
(***************************************************************************)
EXTENDS TenantConfig, SequenceTheorems, WellFoundedInduction, TLAPS

-----------------------------------------------------------------------------
(* Documents and edits.                                                    *)

\* e overrides fields, each with one of its values.
Overrides(e) == \A f \in Field : f \in DOMAIN e => e[f] \in FieldValue[f]

FieldNat == UNION {FieldValue[f] : f \in Field}

LEMMA FieldValues ==
    /\ FieldValue["logo"] = {0} \cup File /\ FieldValue["colors"] = 0..1
    /\ FieldValue["level"] = {0} \cup Level
    /\ \A f \in Field : FieldValue[f] \subseteq FieldNat /\ 0 \in FieldValue[f]
    /\ FieldNat \subseteq Nat
  <1>1. /\ FieldValue["logo"] = {0} \cup File /\ FieldValue["colors"] = 0..1
        /\ FieldValue["level"] = {0} \cup Level
    BY DEF FieldValue
  <1>2. File \subseteq Nat /\ Level \subseteq Nat
    BY TenantAssumption DEF File
  <1>3. \A f \in Field : FieldValue[f] \subseteq FieldNat
    BY DEF FieldNat
  <1> DEFINE V == FieldValue
  <1> HIDE DEF V
  <1>a. /\ V["logo"] = {0} \cup File /\ V["colors"] = 0..1 /\ V["level"] = {0} \cup Level
    BY <1>1 DEF V
  <1>b. \A f \in Field : 0 \in V[f] /\ V[f] \subseteq Nat
    <2>1. 0..1 \subseteq Nat /\ 0 \in 0..1
      OBVIOUS
    <2>2. /\ 0 \in V["logo"] /\ V["logo"] \subseteq Nat
      BY <1>2, <1>a
    <2>3. /\ 0 \in V["colors"] /\ V["colors"] \subseteq Nat
      BY <1>2, <1>a, <2>1
    <2>4. /\ 0 \in V["level"] /\ V["level"] \subseteq Nat
      BY <1>2, <1>a
    <2>5. QED
      BY <2>2, <2>3, <2>4 DEF Field
  <1>4. \A f \in Field : 0 \in FieldValue[f] /\ FieldValue[f] \subseteq Nat
    BY <1>b DEF V
  <1>5. FieldNat \subseteq Nat
    BY <1>4 DEF FieldNat
  <1>6. QED
    BY <1>1, <1>3, <1>4, <1>5

LEMMA DocIs ==
    \A d : d \in Doc <=> d \in [Field -> FieldNat] /\ \A f \in Field : d[f] \in FieldValue[f]
  BY DEF Doc, FieldNat

LEMMA DocFields ==
    ASSUME NEW d \in Doc
    PROVE  /\ DOMAIN d = Field /\ Overrides(d)
           /\ d["logo"] \in {0} \cup File /\ d["colors"] \in 0..1 /\ d["level"] \in {0} \cup Level
  BY DocIs, FieldValues DEF Field, Overrides

LEMMA EmptyDoc == Empty \in Doc /\ \A f \in Field : Empty[f] = 0
  BY DocIs, FieldValues DEF Empty

LEMMA OverlayDoc ==
    ASSUME NEW d \in Doc, NEW e, Overrides(e)
    PROVE  /\ Overlay(d, e) \in Doc
           /\ \A f \in Field : Overlay(d, e)[f] = IF f \in DOMAIN e THEN e[f] ELSE d[f]
  <1> DEFINE o == Overlay(d, e)
  <1>1. o = [f \in Field |-> IF f \in DOMAIN e THEN e[f] ELSE d[f]]
    BY DEF Overlay
  <1>2. \A f \in Field : o[f] = IF f \in DOMAIN e THEN e[f] ELSE d[f]
    BY <1>1
  <1>3. \A f \in Field : o[f] \in FieldValue[f]
    BY <1>2, DocIs DEF Overrides
  <1>4. \A f \in Field : o[f] \in FieldNat
    BY <1>3, FieldValues
  <1>5. o \in [Field -> FieldNat]
    BY <1>1, <1>4
  <1> HIDE DEF o
  <1>6. QED
    BY <1>2, <1>3, <1>5, DocIs DEF o

\* Two overlays that agree on every field are the same.
LEMMA SameOverlay ==
    ASSUME NEW d, NEW e, NEW g, NEW h,
           \A f \in Field : (IF f \in DOMAIN e THEN e[f] ELSE d[f]) = IF f \in DOMAIN h THEN h[f] ELSE g[f]
    PROVE  Overlay(d, e) = Overlay(g, h)
  BY DEF Overlay

Edit == Doc \cup SectionDoc("branding") \cup SectionDoc("security")

LEMMA BrandingSection ==
    ASSUME NEW e
    PROVE  e \in SectionDoc("branding") <=>
               /\ e \in [{"logo", "colors"} -> Nat]
               /\ e["logo"] \in {0} \cup File /\ e["colors"] \in 0..1
  BY FieldValues DEF SectionDoc, FieldsOf

LEMMA SecuritySection ==
    ASSUME NEW e
    PROVE  e \in SectionDoc("security") <=> e \in [{"level"} -> Nat] /\ e["level"] \in {0} \cup Level
  BY FieldValues DEF SectionDoc, FieldsOf

LEMMA EditOverrides ==
    ASSUME NEW e \in Edit
    PROVE  Overrides(e)
  <1>1. CASE e \in Doc
    BY <1>1, DocFields
  <1>2. CASE e \in SectionDoc("branding")
    BY <1>2, BrandingSection, FieldValues DEF Overrides
  <1>3. CASE e \in SectionDoc("security")
    BY <1>3, SecuritySection, FieldValues DEF Overrides
  <1>4. QED
    BY <1>1, <1>2, <1>3 DEF Edit

LEMMA LoadedDoc ==
    ASSUME TypeOK, NEW k \in Key
    PROVE  /\ LoadOverrides(k) \in Doc
           /\ active[k] = NoDoc => LoadOverrides(k) = Empty
           /\ active[k] # NoDoc => LoadOverrides(k) = active[k] /\ active[k] \in Doc
  BY EmptyDoc, StartAssumption DEF TypeOK, LoadOverrides

\* What LoadBranding saves of a document that it loaded: one field, or both.
LEMMA NewBrandingData ==
    ASSUME NEW d \in Doc, NEW kind \in BrandingKind, NEW file, NEW c \in 0..1,
           kind \in {"formFile", "upload"} => file \in File
    PROVE  LET b == SectionOf(d, "branding")
               e == NewBranding(kind, b, file, c)
           IN  /\ e \in SectionDoc("branding") /\ b["logo"] = d["logo"] /\ b["colors"] = d["colors"]
               /\ e["logo"] = CASE kind \in {"formFile", "upload"} -> file
                                [] kind = "remove" -> 0 [] OTHER -> d["logo"]
               /\ e["colors"] = CASE kind \in {"form", "formFile"} -> c
                                  [] kind = "resetColors" -> 0 [] OTHER -> d["colors"]
  <1> DEFINE b == SectionOf(d, "branding")
             e == NewBranding(kind, b, file, c)
  <1>1. b = [f \in {"logo", "colors"} |-> d[f]]
    BY DEF SectionOf, FieldsOf
  <1>2. d["logo"] \in {0} \cup File /\ d["colors"] \in 0..1 /\ File \subseteq Nat
    BY DocFields, TenantAssumption DEF File
  <1>a. b["logo"] = d["logo"] /\ b["colors"] = d["colors"]
    BY <1>1
  <1>b. d["logo"] \in Nat /\ d["colors"] \in Nat
    <2>1. d["logo"] \in Nat
      <3>1. \A x \in {0} \cup File : x \in Nat
        BY <1>2
      <3>2. QED
        BY <1>2, <3>1
    <2>2. d["colors"] \in Nat
      BY <1>2
    <2>3. QED
      BY <2>1, <2>2
  <1>c. b \in [{"logo", "colors"} -> Nat]
    BY <1>1, <1>b
  <1>3. /\ b \in [{"logo", "colors"} -> Nat] /\ b["logo"] = d["logo"] /\ b["colors"] = d["colors"]
    BY <1>a, <1>c
  <1> HIDE DEF b
  <1>4. e = CASE kind = "form" -> [b EXCEPT !["colors"] = c]
              [] kind = "formFile" -> [[b EXCEPT !["colors"] = c] EXCEPT !["logo"] = file]
              [] kind = "upload" -> [b EXCEPT !["logo"] = file]
              [] kind = "remove" -> [b EXCEPT !["logo"] = 0]
              [] kind = "resetColors" -> [b EXCEPT !["colors"] = 0]
    BY <1>3 DEF NewBranding
  <1> HIDE DEF e
  <1>5. /\ e \in [{"logo", "colors"} -> Nat]
        /\ e["logo"] = CASE kind \in {"formFile", "upload"} -> file
                         [] kind = "remove" -> 0 [] OTHER -> d["logo"]
        /\ e["colors"] = CASE kind \in {"form", "formFile"} -> c
                           [] kind = "resetColors" -> 0 [] OTHER -> d["colors"]
    BY <1>2, <1>3, <1>4 DEF BrandingKind
  <1>6. e \in SectionDoc("branding")
    BY <1>2, <1>5, BrandingSection DEF BrandingKind
  <1>7. QED
    BY <1>3, <1>5, <1>6 DEF b, e

-----------------------------------------------------------------------------
(* What the steps of a request do to it.                                   *)

\* Of the requests only r changes.
OnlyJob(r) == job' \in [Req -> Request] /\ \A x \in Req \ {r} : job'[x] = job[x]

\* ... and of r no more than where it is.
SameRest(r) ==
    /\ job'[r].kind = job[r].kind /\ job'[r].key = job[r].key /\ job'[r].edit = job[r].edit
    /\ job'[r].write = job[r].write /\ job'[r].file = job[r].file /\ job'[r].old = job[r].old

LEMMA JobFields ==
    ASSUME TypeOK, NEW r \in Req
    PROVE  /\ job \in [Req -> Request] /\ job[r] \in Request /\ job[r].key \in Key
           /\ job[r].kind \in BrandingKind \cup {"save", "reset"}
           /\ job[r].edit \in Edit /\ job[r].write \in Doc
           /\ job[r].file \in {0} \cup File /\ job[r].old \in {0} \cup File
           /\ job[r].n \in 0..(SaveMaxAttempts - 1) /\ job[r].hit \in BOOLEAN
  BY DEF TypeOK, Request, Edit

LEMMA IdleRequest == Idle \in Request
  <1>1. 0 \in 0..(SaveMaxAttempts - 1)
    BY TenantAssumption
  <1>2. QED
    BY <1>1, EmptyDoc DEF Idle, Request, Key

LEMMA SetJob ==
    ASSUME TypeOK, NEW r \in Req, NEW q \in Request, job' = [job EXCEPT ![r] = q]
    PROVE  OnlyJob(r) /\ job'[r] = q
  BY DEF TypeOK, OnlyJob

LEMMA GoEffect ==
    ASSUME TypeOK, NEW r \in Req,
           NEW pc \in {"idle", "load", "read", "deactivate", "latest", "create", "publish", "cleanup"},
           Go(r, pc)
    PROVE  /\ OnlyJob(r) /\ SameRest(r) /\ job'[r].pc = pc
           /\ job'[r].n = job[r].n /\ job'[r].hit = job[r].hit
  <1> DEFINE p == job[r]
             q == [p EXCEPT !.pc = pc]
  <1>1. p \in Request
    BY JobFields
  <1>2. job' = [job EXCEPT ![r] = q]
    BY DEF Go, TypeOK
  <1> HIDE DEF p
  <1>3. /\ q \in Request /\ q.pc = pc /\ q.kind = p.kind /\ q.key = p.key /\ q.edit = p.edit
        /\ q.write = p.write /\ q.file = p.file /\ q.old = p.old /\ q.n = p.n /\ q.hit = p.hit
    BY <1>1 DEF Request
  <1> HIDE DEF q
  <1>4. OnlyJob(r) /\ job'[r] = q
    BY <1>2, <1>3, SetJob
  <1>5. QED
    BY <1>3, <1>4 DEF SameRest, p

LEMMA RetryEffect ==
    ASSUME TypeOK, NEW r \in Req, job[r].n < SaveMaxAttempts - 1, Retry(r)
    PROVE  OnlyJob(r) /\ SameRest(r) /\ job'[r].pc = "deactivate" /\ UNCHANGED <<files, gaveUp>>
  <1> DEFINE p == job[r]
             m == p.n + 1
             q == [p EXCEPT !.pc = "deactivate", !.n = m]
  <1>1. p \in Request
    BY JobFields
  <1>2. job' = [job EXCEPT ![r] = q]
    BY DEF Retry, TypeOK
  <1>3. m \in 0..(SaveMaxAttempts - 1)
    BY JobFields, TenantAssumption
  <1> HIDE DEF p, m
  <1>4. /\ q \in Request /\ q.pc = "deactivate" /\ q.kind = p.kind /\ q.key = p.key
        /\ q.edit = p.edit /\ q.write = p.write /\ q.file = p.file /\ q.old = p.old
    BY <1>1, <1>3 DEF Request
  <1> HIDE DEF q
  <1>5. OnlyJob(r) /\ job'[r] = q
    BY <1>2, <1>4, SetJob
  <1>6. QED
    BY <1>4, <1>5 DEF SameRest, p, Retry

LEMMA EndEffect ==
    ASSUME TypeOK, NEW r \in Req, End(r)
    PROVE  OnlyJob(r) /\ job'[r] = Idle
  BY IdleRequest, SetJob DEF End

\* A request begins: a branding request that loads first, or the save of a section.
Begins(r, j) ==
    /\ Begin(r, j) /\ j \in Request /\ j.file = 0 /\ j.old = 0
    /\ \/ j.pc = "load" /\ j.kind \in BrandingKind /\ j.key = "slug"
       \/ /\ j.pc = "read" /\ j.kind \in {"save", "reset"} /\ (j.kind = "reset" => j.key = "slug")
          /\ "logo" \in DOMAIN j.edit => j.edit["logo"] = 0

LEMMA BeginEffect ==
    ASSUME TypeOK, NEW r \in Req,
           \/ \E l \in Level : UpdateSection(r, l) \/ UpdateConfig(r, l)
           \/ \E s \in Section : ResetSection(r, s)
           \/ \E k \in BrandingKind : UpdateBranding(r, k)
    PROVE  \E j : Begins(r, j)
  <1>1. ProcOf[r] \in Proc
    BY TenantAssumption
  <1>2. base[ProcOf[r]] \in Level
    BY <1>1 DEF TypeOK
  <1>a. Idle \in Request /\ Idle.file = 0 /\ Idle.old = 0
    BY IdleRequest DEF Idle
  <1>3. ASSUME NEW l \in Level, UpdateSection(r, l) \/ UpdateConfig(r, l) PROVE \E j : Begins(r, j)
    <2> DEFINE v == EnforceConstraints(l, base[ProcOf[r]])
               e == [level |-> v]
               i == [Idle EXCEPT !.pc = "read", !.kind = "save", !.edit = e]
               j == [Idle EXCEPT !.pc = "read", !.kind = "save", !.key = "id", !.edit = e]
    <2>1. v \in Level /\ Level \subseteq Nat
      BY <1>2, TenantAssumption DEF EnforceConstraints
    <2>2. Begin(r, i) \/ Begin(r, j)
      BY <1>3 DEF UpdateSection, UpdateConfig
    <2> HIDE DEF v
    <2>3. e \in [{"level"} -> Nat] /\ e["level"] = v
      BY <2>1
    <2>4. e \in SectionDoc("security") /\ "logo" \notin DOMAIN e
      BY <2>1, <2>3, SecuritySection
    <2> HIDE DEF e
    <2>5. /\ i \in Request /\ i.file = 0 /\ i.old = 0 /\ i.pc = "read" /\ i.kind = "save" /\ i.edit = e
          /\ j \in Request /\ j.file = 0 /\ j.old = 0 /\ j.pc = "read" /\ j.kind = "save" /\ j.edit = e
      BY <1>a, <2>4 DEF Idle, Request, Key
    <2> HIDE DEF i, j
    <2>6. Begins(r, i) \/ Begins(r, j)
      BY <2>2, <2>4, <2>5 DEF Begins
    <2>7. QED
      BY <2>6
  <1>4. ASSUME NEW s \in Section, ResetSection(r, s) PROVE \E j : Begins(r, j)
    <2> DEFINE e == [f \in FieldsOf(s) |-> 0]
               j == [Idle EXCEPT !.pc = "read", !.edit = e]
    <2>1. /\ e \in SectionDoc("branding") \cup SectionDoc("security")
          /\ "logo" \in DOMAIN e => e["logo"] = 0
      <3>1. CASE s = "branding"
        <4>1. FieldsOf(s) = {"logo", "colors"}
          BY <3>1 DEF FieldsOf
        <4>2. e \in [{"logo", "colors"} -> Nat] /\ e["logo"] = 0 /\ e["colors"] = 0
          BY <4>1
        <4> HIDE DEF e
        <4>3. 0 \in 0..1
          OBVIOUS
        <4>4. e \in SectionDoc("branding")
          BY <4>2, <4>3, BrandingSection
        <4>5. QED
          BY <4>2, <4>4
      <3>2. CASE s = "security"
        <4>1. FieldsOf(s) = {"level"}
          BY <3>2 DEF FieldsOf
        <4>2. e \in [{"level"} -> Nat] /\ e["level"] = 0 /\ "logo" \notin DOMAIN e
          BY <4>1
        <4>3. QED
          BY <4>2, SecuritySection
      <3>3. QED
        BY <3>1, <3>2 DEF Section
    <2>2. Begin(r, j)
      BY <1>4 DEF ResetSection
    <2> HIDE DEF e
    <2>3. /\ j \in Request /\ j.file = 0 /\ j.old = 0 /\ j.pc = "read" /\ j.kind = "reset"
          /\ j.key = "slug" /\ j.edit = e
      BY <1>a, <2>1 DEF Idle, Request
    <2> HIDE DEF j
    <2>4. Begins(r, j)
      BY <2>1, <2>2, <2>3 DEF Begins
    <2>5. QED
      BY <2>4
  <1>5. ASSUME NEW k \in BrandingKind, UpdateBranding(r, k) PROVE \E j : Begins(r, j)
    <2> DEFINE j == [Idle EXCEPT !.pc = "load", !.kind = k]
    <2>1. Begin(r, j)
      BY <1>5 DEF UpdateBranding
    <2>2. /\ j \in Request /\ j.file = 0 /\ j.old = 0 /\ j.pc = "load" /\ j.kind = k /\ j.key = "slug"
      BY <1>a DEF Idle, Request
    <2> HIDE DEF j
    <2>3. Begins(r, j)
      BY <2>1, <2>2 DEF Begins
    <2>4. QED
      BY <2>3
  <1>6. QED
    BY <1>3, <1>4, <1>5

\* What LoadBranding leaves to save: the section it loaded with the change it was
\* asked for, the new logo in the storage, and the replaced one to be deleted later.
NewSection(r) ==
    LET d == LoadOverrides("slug")
        e == job'[r].edit
        kind == job[r].kind
        uploads == kind \in {"formFile", "upload"} IN
    /\ job'[r].pc = "read" /\ job'[r].key = "slug" /\ e \in SectionDoc("branding")
    /\ \/ job'[r].kind = kind
       \/ job'[r].kind = "reset" /\ kind = "resetColors"
    /\ uploads => e["logo"] = made + 1 /\ made + 1 \in files' /\ job'[r].old = d["logo"]
    /\ ~uploads => /\ e["logo"] = IF kind = "remove" THEN 0 ELSE d["logo"]
                   /\ job'[r].old = IF kind = "remove" THEN d["logo"] ELSE 0
    /\ e["colors"] = CASE kind \in {"form", "formFile"} -> e["colors"]
                       [] kind = "resetColors" -> 0 [] OTHER -> d["colors"]

LEMMA LoadEffect ==
    ASSUME TypeOK, NEW r \in Req, NEW c \in 0..1, LoadBranding(r, c)
    PROVE  /\ job[r].pc = "load" /\ job[r].key = "slug" /\ job[r].kind \in BrandingKind /\ OnlyJob(r)
           /\ files \subseteq files' /\ files' \subseteq 1..made' /\ made' \in 0..MaxFiles
           /\ UNCHANGED <<active, stored, platform, caches, count, history>>
           /\ job'[r] = Idle \/ NewSection(r)
  <1> DEFINE kind == job[r].kind
             d == LoadOverrides("slug")
             b == SectionOf(d, "branding")
             m == made + 1
             e == NewBranding(kind, b, m, c)
             uploads == kind \in {"formFile", "upload"}
             f == IF uploads THEN m ELSE 0
             o == IF uploads \/ kind = "remove" THEN b.logo ELSE 0
             k == IF Stripped(e) THEN "reset" ELSE kind
             q == [job[r] EXCEPT !.pc = "read", !.edit = e, !.kind = k, !.file = f, !.old = o]
  <1>1. /\ job[r].pc = "load" /\ kind \in BrandingKind /\ kind # "save"
        /\ uploads => made < MaxFiles
        /\ files' = (IF uploads THEN files \cup {m} ELSE files)
        /\ made' = (IF uploads THEN m ELSE made)
        /\ IF Stripped(e) /\ kind # "resetColors" THEN End(r) ELSE job' = [job EXCEPT ![r] = q]
        /\ UNCHANGED <<active, stored, platform, caches, count, history>>
    BY DEF LoadBranding, TypeOK, BrandingKind
  <1>2. job[r].key = "slug"
    BY <1>1 DEF TypeOK
  <1>3. made \in 0..MaxFiles /\ files \subseteq 1..made /\ MaxFiles \in Nat
    BY TenantAssumption DEF TypeOK
  <1>4. uploads => m \in File
    BY <1>1, <1>3 DEF File
  <1>5. files \subseteq files' /\ files' \subseteq 1..made' /\ made' \in 0..MaxFiles
    <2>1. made \in Nat /\ 1..made \subseteq 1..m
      BY <1>3
    <2>2. uploads => m \in 0..MaxFiles /\ m \in 1..m
      BY <1>1, <1>3
    <2>3. QED
      BY <1>1, <1>3, <2>1, <2>2
  <1>6. d \in Doc
    BY LoadedDoc DEF Key
  <1>7. /\ e \in SectionDoc("branding") /\ b.logo = d["logo"]
        /\ e["logo"] = CASE uploads -> m [] kind = "remove" -> 0 [] OTHER -> d["logo"]
        /\ e["colors"] = CASE kind \in {"form", "formFile"} -> c
                           [] kind = "resetColors" -> 0 [] OTHER -> d["colors"]
    <2>1. uploads => m \in File
      BY <1>4
    <2> HIDE DEF m
    <2>2. QED
      BY <1>1, <1>6, <2>1, NewBrandingData
  <1>8. o \in {0} \cup File /\ f \in {0} \cup File /\ k \in BrandingKind \cup {"reset"}
    <2>1. d["logo"] \in {0} \cup File
      BY <1>6, DocFields
    <2>2. QED
      BY <1>1, <1>4, <1>7, <2>1
  <1>9. CASE End(r)
    BY <1>1, <1>2, <1>5, <1>9, EndEffect
  <1>10. CASE ~(Stripped(e) /\ kind # "resetColors") /\ job' = [job EXCEPT ![r] = q]
    <2>1. job[r] \in Request
      BY JobFields
    <2>2. k = kind \/ (k = "reset" /\ kind = "resetColors")
      BY <1>10
    <2>3. o = IF uploads \/ kind = "remove" THEN d["logo"] ELSE 0
      BY <1>7
    <2>4. uploads => m \in files'
      BY <1>1
    <2> HIDE DEF e, o, f, k, m, d, b
    <2>5. /\ q \in Request /\ q.pc = "read" /\ q.key = job[r].key /\ q.edit = e /\ q.kind = k /\ q.old = o
      BY <2>1, <1>7, <1>8 DEF Request
    <2> HIDE DEF q
    <2>6. OnlyJob(r) /\ job'[r] = q
      BY <1>10, <2>5, SetJob
    <2>7. /\ job'[r].pc = "read" /\ job'[r].key = "slug" /\ job'[r].edit = e /\ e \in SectionDoc("branding")
          /\ job'[r].kind = k /\ job'[r].old = o
      BY <2>5, <2>6, <1>2, <1>7
    <2>8. NewSection(r)
      BY <2>2, <2>3, <2>4, <2>7, <1>7 DEF NewSection, m, d
    <2>9. QED
      BY <1>1, <1>2, <1>5, <2>6, <2>8
  <1>11. QED
    BY <1>1, <1>9, <1>10

LEMMA ReadEffect ==
    ASSUME TypeOK, NEW r \in Req, ReadActive(r)
    PROVE  /\ job[r].pc = "read" /\ OnlyJob(r)
           /\ job'[r].kind = job[r].kind /\ job'[r].key = job[r].key /\ job'[r].edit = job[r].edit
           /\ job'[r].old = job[r].old
           /\ \/ job'[r].pc = "publish" /\ job[r].kind = "reset"
              \/ /\ job'[r].pc = "deactivate"
                 /\ job'[r].write = Overlay(LoadOverrides(job[r].key), job[r].edit)
           /\ UNCHANGED <<storage, platform, caches, count, history>>
  <1> DEFINE p == job[r]
             w == Overlay(LoadOverrides(p.key), p.edit)
             q == [p EXCEPT !.pc = "deactivate", !.write = w]
  <1>1. p.pc = "read" /\ UNCHANGED <<storage, platform, caches, count, history>>
    BY DEF ReadActive
  <1>2. CASE p.kind = "reset" /\ Go(r, "publish")
    BY <1>1, <1>2, GoEffect DEF SameRest
  <1>3. CASE job' = [job EXCEPT ![r] = q]
    <2>1. w \in Doc
      <3>1. p.key \in Key /\ p.edit \in Edit
        BY JobFields
      <3>2. LoadOverrides(p.key) \in Doc
        BY <3>1, LoadedDoc
      <3>3. Overrides(p.edit)
        BY <3>1, EditOverrides
      <3>4. QED
        BY <3>2, <3>3, OverlayDoc
    <2>2. p \in Request
      BY JobFields
    <2> HIDE DEF p, w
    <2>3. /\ q \in Request /\ q.pc = "deactivate" /\ q.kind = p.kind /\ q.key = p.key
          /\ q.edit = p.edit /\ q.old = p.old /\ q.write = w
      BY <2>1, <2>2 DEF Request
    <2> HIDE DEF q
    <2>4. OnlyJob(r) /\ job'[r] = q
      BY <1>3, <2>3, SetJob
    <2>5. QED
      BY <1>1, <2>3, <2>4 DEF p, w
  <1>4. QED
    BY <1>2, <1>3 DEF ReadActive, Merged

LEMMA DeactivateEffect ==
    ASSUME TypeOK, NEW r \in Req, Deactivate(r)
    PROVE  /\ job[r].pc = "deactivate" /\ OnlyJob(r) /\ SameRest(r) /\ job'[r].pc = "latest"
           /\ job'[r].hit = (active[job[r].key] # NoDoc)
           /\ active' \in [Key -> Doc \cup {NoDoc}] /\ active'[job[r].key] = NoDoc
           /\ \A k \in Key : k # job[r].key => active'[k] = active[k]
           /\ UNCHANGED <<stored, files, made, platform, caches, count, history>>
  <1> DEFINE p == job[r]
             h == active[p.key] # NoDoc
             q == [p EXCEPT !.pc = "latest", !.hit = h]
  <1>1. /\ p.pc = "deactivate" /\ active' = [active EXCEPT ![p.key] = NoDoc]
        /\ job' = [job EXCEPT ![r] = q]
        /\ UNCHANGED <<stored, files, made, platform, caches, count, history>>
    BY DEF Deactivate
  <1>2. p \in Request /\ p.key \in Key /\ h \in BOOLEAN
    BY JobFields
  <1>3. active \in [Key -> Doc \cup {NoDoc}]
    BY DEF TypeOK
  <1>4. /\ active' \in [Key -> Doc \cup {NoDoc}] /\ active'[p.key] = NoDoc
        /\ \A k \in Key : k # p.key => active'[k] = active[k]
    BY <1>1, <1>2, <1>3
  <1> HIDE DEF p, h
  <1>5. /\ q \in Request /\ q.pc = "latest" /\ q.kind = p.kind /\ q.key = p.key
        /\ q.edit = p.edit /\ q.write = p.write /\ q.file = p.file /\ q.old = p.old /\ q.hit = h
    BY <1>2 DEF Request
  <1> HIDE DEF q
  <1>6. OnlyJob(r) /\ job'[r] = q
    BY <1>1, <1>5, SetJob
  <1>7. QED
    BY <1>1, <1>4, <1>5, <1>6 DEF SameRest, p, h

\* Without an active row and others there, the loop waits; else it creates the row.
LEMMA LatestEffect ==
    ASSUME TypeOK, NEW r \in Req, FindLatest(r)
    PROVE  /\ job[r].pc = "latest" /\ OnlyJob(r) /\ SameRest(r)
           /\ \/ job'[r].pc = "create" /\ job'[r].hit = job[r].hit
              \/ job'[r].pc = "deactivate" /\ ~job[r].hit
           /\ UNCHANGED <<storage, platform, caches, count, history>>
  <1>1. CASE SaveInProgress(r)
    <2>1. Retry(r) /\ ~job[r].hit /\ job[r].n < SaveMaxAttempts - 1
      BY <1>1 DEF FindLatest, NextAttempt, SaveInProgress
    <2>2. QED
      BY <2>1, RetryEffect DEF FindLatest, storage, history
  <1>2. CASE ~SaveInProgress(r)
    <2>1. Go(r, "create")
      BY <1>2 DEF FindLatest
    <2>2. QED
      BY <1>2, <2>1, GoEffect DEF FindLatest, storage, history
  <1>3. QED
    BY <1>1, <1>2

LEMMA CreateEffect ==
    ASSUME TypeOK, NEW r \in Req, CreateRow(r)
    PROVE  /\ job[r].pc = "create" /\ OnlyJob(r) /\ active[job[r].key] = NoDoc
           /\ active' \in [Key -> Doc \cup {NoDoc}] /\ active'[job[r].key] = job[r].write
           /\ \A k \in Key : k # job[r].key => active'[k] = active[k]
           /\ stored' \subseteq Key
           /\ \/ /\ job[r].key = "slug" /\ job'[r].pc = "publish" /\ SameRest(r)
                 /\ expected' = Overlay(expected, Asked(r))
              \/ job[r].key = "id" /\ job'[r] = Idle /\ UNCHANGED expected
           /\ UNCHANGED <<files, made, platform, caches, count, overlap, cut, gaveUp>>
  <1>1. job[r].key \in Key /\ job[r].write \in Doc
    BY JobFields
  <1>2. /\ job[r].pc = "create" /\ active[job[r].key] = NoDoc
        /\ active' = [active EXCEPT ![job[r].key] = job[r].write]
        /\ stored' = stored \cup {job[r].key}
        /\ UNCHANGED <<files, made, platform, caches, count, overlap, cut, gaveUp>>
    BY DEF CreateRow
  <1>3. /\ active' \in [Key -> Doc \cup {NoDoc}] /\ active'[job[r].key] = job[r].write
        /\ \A k \in Key : k # job[r].key => active'[k] = active[k]
        /\ stored' \subseteq Key
    BY <1>1, <1>2 DEF TypeOK
  <1>4. CASE job[r].key = "slug"
    <2>1. Go(r, "publish") /\ expected' = Overlay(expected, Asked(r))
      BY <1>4 DEF CreateRow
    <2>2. QED
      BY <1>2, <1>3, <1>4, <2>1, GoEffect
  <1>5. CASE job[r].key = "id"
    <2>1. End(r) /\ UNCHANGED expected
      BY <1>5 DEF CreateRow
    <2>2. QED
      BY <1>2, <1>3, <1>5, <2>1, EndEffect
  <1>6. QED
    BY <1>1, <1>4, <1>5 DEF Key

LEMMA RefusedEffect ==
    ASSUME TypeOK, NEW r \in Req, CreateRefused(r)
    PROVE  /\ job[r].pc = "create" /\ OnlyJob(r) /\ active[job[r].key] # NoDoc
           /\ \/ job'[r].pc = "deactivate" /\ SameRest(r) /\ UNCHANGED <<files, gaveUp>>
              \/ job'[r] = Idle /\ files' \subseteq files /\ gaveUp' = TRUE
           /\ UNCHANGED <<active, stored, made, platform, caches, count, expected, overlap, cut>>
  <1>1. CASE job[r].n < SaveMaxAttempts - 1
    BY <1>1, RetryEffect DEF CreateRefused, NextAttempt
  <1>2. CASE ~(job[r].n < SaveMaxAttempts - 1)
    BY <1>2, EndEffect DEF CreateRefused, NextAttempt, GiveUp
  <1>3. QED
    BY <1>1, <1>2

LEMMA PublishEffect ==
    ASSUME TypeOK, NEW r \in Req, PublishInvalidation(r)
    PROVE  /\ job[r].pc = "publish" /\ OnlyJob(r)
           /\ \/ job'[r].pc = "cleanup" /\ SameRest(r)
              \/ job'[r] = Idle
           /\ \E Q \in SUBSET (Proc \ {ProcOf[r]}) : InvalidateAndPublish(ProcOf[r], Q)
           /\ UNCHANGED <<storage, platform, base, load, reloads, count, history>>
  BY GoEffect, EndEffect DEF PublishInvalidation

LEMMA DeleteEffect ==
    ASSUME TypeOK, NEW r \in Req, DeleteOldFile(r)
    PROVE  /\ job[r].pc = "cleanup" /\ OnlyJob(r) /\ job'[r] = Idle
           /\ files' = files \ {job[r].old}
           /\ UNCHANGED <<active, stored, made, platform, caches, count, history>>
  BY EndEffect DEF DeleteOldFile

-----------------------------------------------------------------------------
(* The caches.                                                             *)

CachedType == {NoConfig} \cup [base : Level, doc : Doc]
LoadType == [pc : {"idle", "query", "set"}, base : {0} \cup Level, doc : Doc]
Events == {"tenant", "global"}

CachesOK ==
    /\ platform \in Level /\ base \in [Proc -> Level]
    /\ tcfg \in [Proc -> CachedType] /\ load \in [Proc -> LoadType]
    /\ \A p \in Proc : load[p].pc # "idle" => tcfg[p] = NoConfig /\ load[p].base \in Level
    /\ inbox \in [Proc -> Seq(Events)] /\ reloads \subseteq Proc
    /\ missed \in [Proc -> BOOLEAN]

LEMMA CachesTyped == TypeOK => CachesOK
  BY DEF TypeOK, CachesOK, CachedType, LoadType, Events

ProcessStep(p) ==
    \/ EnsureTenantConfig(p) \/ QueryOverrides(p) \/ SetTenantConfig(p) \/ LoadFails(p)
    \/ \E l \in Level : UpdatePlatform(p, l)
    \/ ReceiveTenantEvent(p) \/ ReceiveGlobalEvent(p) \/ Reload(p)

LEMMA NoLoadType == NoLoad \in LoadType /\ NoLoad.pc = "idle"
  BY EmptyDoc DEF NoLoad, LoadType

LEMMA EvictedEffect ==
    ASSUME CachesOK, NEW p \in Proc, NEW since, Evicted(p, since)
    PROVE  /\ tcfg' \in [Proc -> CachedType] /\ missed' \in [Proc -> BOOLEAN]
           /\ tcfg'[p] = NoConfig /\ \A q \in Proc \ {p} : tcfg'[q] = tcfg[q] /\ missed'[q] = missed[q]
           /\ missed'[p] <=> load[p].pc \in since \/ (missed[p] /\ load[p].pc # "idle")
  <1>1. NoConfig \in CachedType
    BY DEF CachedType
  <1>2. /\ tcfg' = [tcfg EXCEPT ![p] = NoConfig]
        /\ missed' = [missed EXCEPT ![p] = load[p].pc \in since \/ (missed[p] /\ load[p].pc # "idle")]
    BY DEF Evicted, CachesOK
  <1> DEFINE m == load[p].pc \in since \/ (missed[p] /\ load[p].pc # "idle")
  <1>3. m \in BOOLEAN
    OBVIOUS
  <1> HIDE DEF m
  <1>4. missed' = [missed EXCEPT ![p] = m]
    BY <1>2 DEF m
  <1>5. /\ missed' \in [Proc -> BOOLEAN] /\ missed'[p] = m
        /\ \A q \in Proc \ {p} : missed'[q] = missed[q]
    BY <1>3, <1>4, Zenon DEF CachesOK
  <1>6. /\ tcfg' \in [Proc -> CachedType] /\ tcfg'[p] = NoConfig
        /\ \A q \in Proc \ {p} : tcfg'[q] = tcfg[q]
    BY <1>1, <1>2 DEF CachesOK
  <1>7. QED
    BY <1>5, <1>6 DEF m

LEMMA BroadcastEffect ==
    ASSUME CachesOK, NEW p \in Proc, NEW Q \in SUBSET (Proc \ {p}), NEW e \in Events, Broadcast(Q, e)
    PROVE  /\ inbox' \in [Proc -> Seq(Events)] /\ inbox'[p] = inbox[p]
           /\ \A q \in Proc : inbox'[q] = IF q \in Q THEN Append(inbox[q], e) ELSE inbox[q]
  <1>1. inbox \in [Proc -> Seq(Events)]
    BY DEF CachesOK
  <1>2. \A q \in Proc : inbox[q] \in Seq(Events) /\ Append(inbox[q], e) \in Seq(Events)
    BY <1>1
  <1>3. QED
    BY <1>2 DEF Broadcast

LEMMA TailOfInbox ==
    ASSUME CachesOK, NEW p \in Proc, inbox[p] # <<>>, inbox' = [inbox EXCEPT ![p] = Tail(@)]
    PROVE  /\ inbox' \in [Proc -> Seq(Events)] /\ inbox'[p] = Tail(inbox[p])
           /\ \A q \in Proc \ {p} : inbox'[q] = inbox[q]
  BY DEF CachesOK

\* A load is set up, filled or dropped.
LEMMA LoadSteps ==
    ASSUME CachesOK, NEW p \in Proc, NEW n \in LoadType, load' = [load EXCEPT ![p] = n]
    PROVE  load' \in [Proc -> LoadType] /\ load'[p] = n /\ \A q \in Proc \ {p} : load'[q] = load[q]
  BY DEF CachesOK

EnsureEffect(p) ==
    /\ tcfg[p] = NoConfig /\ load[p].pc = "idle"
    /\ load' \in [Proc -> LoadType] /\ load'[p].pc = "query" /\ load'[p].base = base[p]
    /\ \A q \in Proc \ {p} : load'[q] = load[q]
    /\ UNCHANGED <<storage, platform, base, tcfg, inbox, reloads, missed, job, count, history>>

QueryEffect(p) ==
    /\ load[p].pc = "query"
    /\ load' \in [Proc -> LoadType] /\ load'[p].pc = "set" /\ load'[p].base = load[p].base
    /\ load'[p].doc = LoadOverrides("slug")
    /\ \A q \in Proc \ {p} : load'[q] = load[q]
    /\ UNCHANGED <<storage, platform, base, tcfg, inbox, reloads, missed, job, count, history>>

SetEffect(p) ==
    /\ load[p].pc = "set" /\ tcfg[p] = NoConfig
    /\ load' \in [Proc -> LoadType] /\ load'[p].pc = "idle"
    /\ \A q \in Proc \ {p} : load'[q] = load[q] /\ tcfg'[q] = tcfg[q]
    /\ tcfg' \in [Proc -> CachedType] /\ tcfg'[p].doc = load[p].doc /\ tcfg'[p].base = load[p].base
    /\ UNCHANGED <<storage, platform, base, inbox, reloads, missed, job, count, history>>

LEMMA EnsureSteps ==
    ASSUME TypeOK, NEW p \in Proc, EnsureTenantConfig(p)
    PROVE  EnsureEffect(p)
  <1> DEFINE n == [pc |-> "query", base |-> base[p], doc |-> Empty]
  <1>1. n \in LoadType /\ n.pc = "query" /\ n.base = base[p]
    BY EmptyDoc, CachesTyped DEF LoadType, CachesOK
  <1>2. load' = [load EXCEPT ![p] = n]
    BY DEF EnsureTenantConfig
  <1> HIDE DEF n
  <1>3. load' \in [Proc -> LoadType] /\ load'[p] = n /\ \A q \in Proc \ {p} : load'[q] = load[q]
    BY <1>1, <1>2, LoadSteps, CachesTyped
  <1>4. QED
    BY <1>1, <1>3 DEF EnsureTenantConfig, EnsureEffect

LEMMA QuerySteps ==
    ASSUME TypeOK, NEW p \in Proc, QueryOverrides(p)
    PROVE  QueryEffect(p)
  <1> DEFINE d == LoadOverrides("slug")
             l == load[p]
             n == [l EXCEPT !.pc = "set", !.doc = d]
  <1>1. d \in Doc
    BY LoadedDoc DEF Key
  <1>2. l \in LoadType
    BY CachesTyped DEF CachesOK
  <1>3. load' = [load EXCEPT ![p] = n]
    BY CachesTyped DEF QueryOverrides, CachesOK
  <1> HIDE DEF d, l
  <1>4. n \in LoadType /\ n.pc = "set" /\ n.base = l.base /\ n.doc = d
    BY <1>1, <1>2 DEF LoadType
  <1> HIDE DEF n
  <1>5. load' \in [Proc -> LoadType] /\ load'[p] = n /\ \A q \in Proc \ {p} : load'[q] = load[q]
    BY <1>3, <1>4, LoadSteps, CachesTyped
  <1>6. QED
    BY <1>4, <1>5 DEF QueryOverrides, QueryEffect, d, l

LEMMA SetSteps ==
    ASSUME TypeOK, NEW p \in Proc, SetTenantConfig(p)
    PROVE  SetEffect(p)
  <1> DEFINE c == [base |-> load[p].base, doc |-> load[p].doc]
  <1>1. load[p].pc = "set" /\ tcfg[p] = NoConfig /\ load[p].base \in Level /\ load[p].doc \in Doc
    BY CachesTyped DEF SetTenantConfig, CachesOK, LoadType
  <1>2. c \in CachedType /\ c.base = load[p].base /\ c.doc = load[p].doc
    BY <1>1 DEF CachedType
  <1>3. tcfg' = [tcfg EXCEPT ![p] = c] /\ load' = [load EXCEPT ![p] = NoLoad]
    BY DEF SetTenantConfig
  <1> HIDE DEF c
  <1>4. tcfg' \in [Proc -> CachedType] /\ tcfg'[p] = c /\ \A q \in Proc \ {p} : tcfg'[q] = tcfg[q]
    BY <1>2, <1>3, CachesTyped DEF CachesOK
  <1>5. load' \in [Proc -> LoadType] /\ load'[p] = NoLoad /\ \A q \in Proc \ {p} : load'[q] = load[q]
    BY <1>3, LoadSteps, NoLoadType, CachesTyped
  <1>6. QED
    BY <1>1, <1>2, <1>4, <1>5, NoLoadType DEF SetTenantConfig, SetEffect

\* The entry of p is dropped, and a load that has read what changed is not forgotten.
EvictStep(p) ==
    /\ CachesOK' /\ UNCHANGED load
    /\ tcfg'[p] = NoConfig /\ \A q \in Proc \ {p} : tcfg'[q] = tcfg[q] /\ (missed[q] => missed'[q])
    /\ load[p].pc = "set" => missed'[p]
    /\ missed[p] /\ load[p].pc # "idle" => missed'[p]
    /\ base'[p] # base[p] /\ load[p].pc # "idle" => missed'[p]
    /\ \A q \in Proc \ {p} :
        base'[q] = base[q] /\ (inbox'[q] = inbox[q] \/ \E e \in Events : inbox'[q] = Append(inbox[q], e))

LEMMA InvalidateSteps ==
    ASSUME TypeOK, NEW p \in Proc, NEW Q \in SUBSET (Proc \ {p}), InvalidateAndPublish(p, Q),
           UNCHANGED <<platform, base, load, reloads>>
    PROVE  /\ EvictStep(p)
           /\ \A q \in Q : inbox'[q] = Append(inbox[q], "tenant")
           /\ \A q \in Proc \ {p} : q \notin Q /\ Outdated(q) => missed'[q]
  <1>1. CachesOK /\ "tenant" \in Events /\ NoConfig \in CachedType
    BY CachesTyped DEF Events, CachedType
  <1>2. /\ tcfg' \in [Proc -> CachedType]
        /\ tcfg'[p] = NoConfig /\ \A q \in Proc \ {p} : tcfg'[q] = tcfg[q]
    BY <1>1 DEF InvalidateAndPublish, CachesOK
  <1>3. /\ missed' = [q \in Proc |-> IF q = p THEN load[p].pc = "set" \/ (missed[p] /\ load[p].pc # "idle")
                                     ELSE missed[q] \/ (q \notin Q /\ Outdated(q))]
        /\ \A q \in Proc : missed[q] \in BOOLEAN
    BY <1>1, Zenon DEF InvalidateAndPublish, CachesOK
  <1>4. missed' \in [Proc -> BOOLEAN]
    BY <1>3, Zenon
  <1>5. /\ missed'[p] <=> load[p].pc = "set" \/ (missed[p] /\ load[p].pc # "idle")
        /\ \A q \in Proc \ {p} : missed'[q] <=> missed[q] \/ (q \notin Q /\ Outdated(q))
    BY <1>3, Zenon
  <1>6. /\ inbox' \in [Proc -> Seq(Events)] /\ inbox'[p] = inbox[p]
        /\ \A q \in Proc : inbox'[q] = IF q \in Q THEN Append(inbox[q], "tenant") ELSE inbox[q]
    BY <1>1, BroadcastEffect DEF InvalidateAndPublish
  <1>7. CachesOK'
    BY <1>1, <1>2, <1>4, <1>6 DEF CachesOK
  <1>8. EvictStep(p)
    BY <1>1, <1>2, <1>5, <1>6, <1>7 DEF EvictStep
  <1>9. QED
    BY <1>5, <1>6, <1>8

CountOK == count \in [ops : [Req -> Nat], platform : Nat, crash : Nat]

LEMMA PlatformSteps ==
    ASSUME TypeOK, NEW p \in Proc, NEW l \in Level, UpdatePlatform(p, l)
    PROVE  EvictStep(p) /\ CountOK' /\ UNCHANGED <<storage, job, history>>
  <1>1. CachesOK /\ "global" \in Events
    BY CachesTyped DEF Events
  <1>2. /\ tcfg' \in [Proc -> CachedType] /\ missed' \in [Proc -> BOOLEAN]
        /\ tcfg'[p] = NoConfig /\ \A q \in Proc \ {p} : tcfg'[q] = tcfg[q] /\ missed'[q] = missed[q]
        /\ missed'[p] <=> load[p].pc \in {"query", "set"} \/ (missed[p] /\ load[p].pc # "idle")
    BY <1>1, EvictedEffect DEF UpdatePlatform
  <1>q. PICK Q \in SUBSET (Proc \ {p}) : Broadcast(Q, "global")
    BY DEF UpdatePlatform
  <1>3. /\ inbox' \in [Proc -> Seq(Events)] /\ inbox'[p] = inbox[p]
        /\ \A q \in Proc : inbox'[q] = IF q \in Q THEN Append(inbox[q], "global") ELSE inbox[q]
    BY <1>1, <1>q, BroadcastEffect
  <1>4. /\ platform' = l /\ base' \in [Proc -> Level] /\ \A q \in Proc \ {p} : base'[q] = base[q]
        /\ UNCHANGED <<storage, load, reloads, job, history>>
    BY <1>1 DEF UpdatePlatform, CachesOK
  <1>5. CachesOK'
    BY <1>1, <1>2, <1>3, <1>4 DEF CachesOK
  <1>6. load[p].pc \in {"idle", "query", "set"}
    BY <1>1 DEF CachesOK, LoadType
  <1>7. CountOK'
    <2>1. CountOK /\ count' = [count EXCEPT !.platform = count.platform + 1]
      BY DEF UpdatePlatform, TypeOK, CountOK
    <2>2. QED
      BY <2>1 DEF CountOK
  <1>8. QED
    BY <1>1, <1>2, <1>3, <1>4, <1>5, <1>6, <1>7 DEF EvictStep

LEMMA ReceiveSteps ==
    ASSUME TypeOK, NEW p \in Proc, ReceiveTenantEvent(p) \/ ReceiveGlobalEvent(p)
    PROVE  EvictStep(p) /\ UNCHANGED <<storage, job, count, history>>
  <1>1. CachesOK
    BY CachesTyped
  <1>2. /\ Evicted(p, {"set"}) /\ inbox[p] # <<>> /\ inbox' = [inbox EXCEPT ![p] = Tail(@)]
        /\ UNCHANGED <<storage, platform, base, load, job, count, history>>
        /\ reloads' \subseteq reloads \cup {p}
    BY DEF ReceiveTenantEvent, ReceiveGlobalEvent, InvalidateTenantConfig
  <1>3. /\ tcfg' \in [Proc -> CachedType] /\ missed' \in [Proc -> BOOLEAN]
        /\ tcfg'[p] = NoConfig /\ \A q \in Proc \ {p} : tcfg'[q] = tcfg[q] /\ missed'[q] = missed[q]
        /\ missed'[p] <=> load[p].pc \in {"set"} \/ (missed[p] /\ load[p].pc # "idle")
    BY <1>1, <1>2, EvictedEffect
  <1>4. /\ inbox' \in [Proc -> Seq(Events)]
        /\ \A q \in Proc \ {p} : inbox'[q] = inbox[q]
    BY <1>1, <1>2, TailOfInbox
  <1>5. CachesOK'
    BY <1>1, <1>2, <1>3, <1>4 DEF CachesOK
  <1>6. QED
    BY <1>1, <1>2, <1>3, <1>4, <1>5 DEF EvictStep

LEMMA ReloadSteps ==
    ASSUME TypeOK, NEW p \in Proc, Reload(p)
    PROVE  EvictStep(p) /\ UNCHANGED <<storage, job, count, history>>
  <1>1. CachesOK
    BY CachesTyped
  <1>2. /\ Evicted(p, {"query", "set"}) /\ base' = [base EXCEPT ![p] = platform]
        /\ UNCHANGED <<storage, platform, load, inbox, job, count, history>>
        /\ reloads' \subseteq reloads
    BY DEF Reload
  <1>3. /\ tcfg' \in [Proc -> CachedType] /\ missed' \in [Proc -> BOOLEAN]
        /\ tcfg'[p] = NoConfig /\ \A q \in Proc \ {p} : tcfg'[q] = tcfg[q] /\ missed'[q] = missed[q]
        /\ missed'[p] <=> load[p].pc \in {"query", "set"} \/ (missed[p] /\ load[p].pc # "idle")
    BY <1>1, <1>2, EvictedEffect
  <1>4. base' \in [Proc -> Level] /\ \A q \in Proc \ {p} : base'[q] = base[q]
    BY <1>1, <1>2 DEF CachesOK
  <1>5. load[p].pc \in {"idle", "query", "set"}
    BY <1>1 DEF CachesOK, LoadType
  <1>6. CachesOK'
    BY <1>1, <1>2, <1>3, <1>4 DEF CachesOK
  <1>7. QED
    BY <1>1, <1>2, <1>3, <1>4, <1>5, <1>6 DEF EvictStep

LEMMA FailSteps ==
    ASSUME TypeOK, NEW p \in Proc, LoadFails(p)
    PROVE  /\ load' \in [Proc -> LoadType] /\ load'[p].pc = "idle"
           /\ \A q \in Proc \ {p} : load'[q] = load[q]
           /\ UNCHANGED <<storage, platform, base, tcfg, inbox, reloads, missed, job, count, history>>
  BY NoLoadType, CachesTyped, LoadSteps DEF LoadFails

\* What any step of a process other than a crash changes.
LEMMA ProcessTypes ==
    ASSUME TypeOK, NEW p \in Proc, ProcessStep(p)
    PROVE  CachesOK' /\ CountOK' /\ UNCHANGED <<storage, job, history>>
  <1>0. CachesOK /\ CountOK
    BY CachesTyped DEF TypeOK, CountOK
  <1>1. CASE EnsureTenantConfig(p)
    BY <1>0, <1>1, EnsureSteps DEF EnsureEffect, CachesOK, CountOK
  <1>2. CASE QueryOverrides(p)
    BY <1>0, <1>2, QuerySteps DEF QueryEffect, CachesOK, CountOK
  <1>3. CASE SetTenantConfig(p)
    BY <1>0, <1>3, SetSteps DEF SetEffect, CachesOK, CountOK
  <1>4. CASE LoadFails(p)
    BY <1>0, <1>4, FailSteps DEF CachesOK, CountOK
  <1>5. CASE \E l \in Level : UpdatePlatform(p, l)
    BY <1>5, PlatformSteps DEF EvictStep
  <1>6. CASE ReceiveTenantEvent(p) \/ ReceiveGlobalEvent(p)
    BY <1>0, <1>6, ReceiveSteps DEF EvictStep, CountOK
  <1>7. CASE Reload(p)
    BY <1>0, <1>7, ReloadSteps DEF EvictStep, CountOK
  <1>8. QED
    BY <1>1, <1>2, <1>3, <1>4, <1>5, <1>6, <1>7 DEF ProcessStep

\* The requests that die with p, and the caches they owed an event.
Dead(p) == {r \in Req : ProcOf[r] = p /\ job[r].pc # "idle"}

LEMMA CrashEffect ==
    ASSUME TypeOK, NEW p \in Proc, Crash(p)
    PROVE  /\ CachesOK' /\ CountOK' /\ UNCHANGED <<storage, expected, overlap, gaveUp>>
           /\ job' \in [Req -> Request] /\ cut' \in BOOLEAN
           /\ \A r \in Req : job'[r] = IF r \in Dead(p) THEN Idle ELSE job[r]
           /\ cut' <=> cut \/ Dead(p) # {}
           /\ tcfg'[p] = NoConfig /\ load'[p].pc = "idle"
           /\ \A q \in Proc \ {p} :
                /\ tcfg'[q] = tcfg[q] /\ load'[q] = load[q] /\ inbox'[q] = inbox[q] /\ base'[q] = base[q]
                /\ missed'[q] <=> missed[q] \/ \E r \in Dead(p) : job[r].pc \in {"latest", "create", "publish"}
  <1>0. CachesOK /\ CountOK
    BY CachesTyped DEF TypeOK, CountOK
  <1>1. /\ count' = [count EXCEPT !.crash = count.crash + 1]
        /\ job' = [r \in Req |-> IF r \in Dead(p) THEN Idle ELSE job[r]]
        /\ base' = [base EXCEPT ![p] = platform] /\ tcfg' = [tcfg EXCEPT ![p] = NoConfig]
        /\ load' = [load EXCEPT ![p] = NoLoad] /\ inbox' = [inbox EXCEPT ![p] = <<>>]
        /\ reloads' = reloads \ {p} /\ cut' = (cut \/ Dead(p) # {})
        /\ missed' = [q \in Proc |-> q # p /\ (missed[q] \/
                        \E r \in Dead(p) : job[r].pc \in {"latest", "create", "publish"})]
        /\ UNCHANGED <<storage, platform, expected, overlap, gaveUp>>
    BY DEF Crash, Dead, TypeOK
  <1>2. CountOK'
    <2> DEFINE n == count.crash + 1
    <2>1. n \in Nat /\ count' = [count EXCEPT !.crash = n]
      BY <1>0, <1>1 DEF CountOK
    <2> HIDE DEF n
    <2>2. QED
      BY <1>0, <2>1 DEF CountOK
  <1>3. job' \in [Req -> Request] /\ \A r \in Req : job'[r] = IF r \in Dead(p) THEN Idle ELSE job[r]
    BY <1>1, IdleRequest DEF TypeOK
  <1>4. /\ missed' \in [Proc -> BOOLEAN]
        /\ \A q \in Proc \ {p} :
            missed'[q] <=> missed[q] \/ \E r \in Dead(p) : job[r].pc \in {"latest", "create", "publish"}
    <2> DEFINE owed == \E r \in Dead(p) : job[r].pc \in {"latest", "create", "publish"}
    <2>1. missed' = [q \in Proc |-> q # p /\ (missed[q] \/ owed)]
      BY <1>1
    <2> HIDE DEF owed
    <2>2. /\ missed' \in [Proc -> BOOLEAN]
          /\ \A q \in Proc : missed'[q] <=> q # p /\ (missed[q] \/ owed)
      BY <2>1, Zenon
    <2>3. QED
      BY <2>2 DEF owed
  <1>5. /\ base' \in [Proc -> Level] /\ tcfg' \in [Proc -> CachedType] /\ load' \in [Proc -> LoadType]
        /\ tcfg'[p] = NoConfig /\ load'[p].pc = "idle"
        /\ \A q \in Proc \ {p} : tcfg'[q] = tcfg[q] /\ load'[q] = load[q] /\ base'[q] = base[q]
    BY <1>0, <1>1, NoLoadType DEF CachesOK, CachedType
  <1>6. /\ inbox' \in [Proc -> Seq(Events)] /\ \A q \in Proc \ {p} : inbox'[q] = inbox[q]
    BY <1>0, <1>1 DEF CachesOK
  <1>7. CachesOK'
    BY <1>0, <1>1, <1>4, <1>5, <1>6 DEF CachesOK
  <1>8. cut' \in BOOLEAN /\ (cut' <=> cut \/ Dead(p) # {})
    BY <1>1 DEF TypeOK
  <1>9. QED
    BY <1>1, <1>2, <1>3, <1>4, <1>5, <1>6, <1>7, <1>8

-----------------------------------------------------------------------------
(* The variables have their types.                                         *)

LEMMA LowestExists == LowestLevel \in Level
  <1>1. IsWellFoundedOn(OpToRel(<, Nat), Nat)
    BY NatLessThanWellFounded
  <1>2. Level \subseteq Nat /\ Level # {}
    BY TenantAssumption
  <1>3. \E x \in Level : \A y \in Level : ~(<<y, x>> \in OpToRel(<, Nat))
    BY <1>1, <1>2, WFMin
  <1>4. \A x, y \in Nat : <<y, x>> \in OpToRel(<, Nat) <=> y < x
    BY DEF OpToRel
  <1>5. \E x \in Level : \A y \in Level : ~(y < x)
    BY <1>2, <1>3, <1>4, Zenon
  <1>6. \E x \in Level : \A y \in Level : x <= y
    BY <1>2, <1>5
  <1>7. QED
    BY <1>6 DEF LowestLevel

StoreOK ==
    /\ active \in [Key -> Doc \cup {NoDoc}] /\ stored \subseteq Key
    /\ files \subseteq 1..made /\ made \in 0..MaxFiles /\ expected \in Doc

KindsFit(q) ==
    /\ q.pc = "load" => q.kind \in BrandingKind
    /\ q.kind \in BrandingKind /\ q.pc # "load" => q.edit \in SectionDoc("branding")
    /\ q.kind # "save" => q.key = "slug"

JobsOK == job \in [Req -> Request] /\ \A r \in Req : KindsFit(job[r])

FlagsOK == overlap \in BOOLEAN /\ cut \in BOOLEAN /\ gaveUp \in BOOLEAN

LEMMA TypesTogether == TypeOK <=> StoreOK /\ CachesOK /\ JobsOK /\ CountOK /\ FlagsOK
  <1>1. TypeOK => StoreOK /\ CachesOK /\ JobsOK /\ CountOK /\ FlagsOK
    BY CachesTyped DEF TypeOK, StoreOK, JobsOK, KindsFit, CountOK, FlagsOK
  <1>2. ASSUME StoreOK, CachesOK, JobsOK, CountOK, FlagsOK PROVE TypeOK
    BY <1>2 DEF TypeOK, StoreOK, CachesOK, CachedType, LoadType, Events, JobsOK, KindsFit, CountOK, FlagsOK
  <1>3. QED
    BY <1>1, <1>2

LEMMA AskedOverrides ==
    ASSUME TypeOK, NEW r \in Req, job[r].pc # "load"
    PROVE  Overrides(Asked(r))
  <1> DEFINE e == job[r].edit
             k == job[r].kind
  <1>1. e \in Edit /\ k \in BrandingKind \cup {"save", "reset"}
    BY JobFields
  <1>2. k \in BrandingKind => e \in SectionDoc("branding")
    BY DEF TypeOK
  <1>3. Asked(r) = CASE k = "upload" -> [logo |-> e.logo]
                     [] k = "remove" -> [logo |-> 0]
                     [] k = "form" -> [colors |-> e.colors]
                     [] k = "resetColors" -> [colors |-> 0]
                     [] OTHER -> e
    BY DEF Asked
  <1>4. Overrides(e)
    BY <1>1, EditOverrides
  <1>5. k \in BrandingKind => e["logo"] \in FieldValue["logo"] /\ e["colors"] \in FieldValue["colors"]
    BY <1>2, BrandingSection, FieldValues
  <1>6. 0 \in FieldValue["logo"] /\ 0 \in FieldValue["colors"]
    BY FieldValues DEF Field
  <1> HIDE DEF e, k
  <1>7. CASE k = "upload" \/ k = "remove"
    <2>1. k \in BrandingKind
      BY <1>7 DEF BrandingKind
    <2>2. PICK v \in FieldValue["logo"] : Asked(r) = [logo |-> v]
      BY <1>3, <1>5, <1>6, <1>7, <2>1
    <2>3. QED
      BY <2>2 DEF Overrides
  <1>8. CASE k = "form" \/ k = "resetColors"
    <2>1. k \in BrandingKind
      BY <1>8 DEF BrandingKind
    <2>2. PICK v \in FieldValue["colors"] : Asked(r) = [colors |-> v]
      BY <1>3, <1>5, <1>6, <1>8, <2>1
    <2>3. QED
      BY <2>2 DEF Overrides
  <1>9. CASE k \notin {"upload", "remove", "form", "resetColors"}
    BY <1>3, <1>4, <1>9
  <1>10. QED
    BY <1>7, <1>8, <1>9

\* A step of the system, by what it is a step of.
RequestStep(r) ==
    \/ \E j : Begins(r, j)
    \/ \E c \in 0..1 : LoadBranding(r, c)
    \/ ReadActive(r) \/ Deactivate(r) \/ FindLatest(r)
    \/ CreateRow(r) \/ CreateRefused(r)
    \/ PublishInvalidation(r) \/ DeleteOldFile(r)

LEMMA Steps ==
    ASSUME TypeOK, [Next]_vars
    PROVE  \/ \E r \in Req : RequestStep(r)
           \/ \E p \in Proc : ProcessStep(p) \/ Crash(p)
           \/ UNCHANGED vars
  <1>1. ASSUME NEW r \in Req,
               \/ \E l \in Level : UpdateSection(r, l) \/ UpdateConfig(r, l)
               \/ \E s \in Section : ResetSection(r, s)
               \/ \E k \in BrandingKind : UpdateBranding(r, k)
        PROVE  RequestStep(r)
    BY <1>1, BeginEffect DEF RequestStep
  <1>2. ASSUME NEW r \in Req,
               \/ \E c \in 0..1 : LoadBranding(r, c)
               \/ ReadActive(r) \/ Deactivate(r) \/ FindLatest(r)
               \/ CreateRow(r) \/ CreateRefused(r)
               \/ PublishInvalidation(r) \/ DeleteOldFile(r)
        PROVE  RequestStep(r)
    BY <1>2 DEF RequestStep
  <1>3. QED
    BY <1>1, <1>2 DEF Next, ProcessStep

LEMMA IdleFits == KindsFit(Idle)
  BY DEF KindsFit, Idle, BrandingKind

LEMMA OneJobFits ==
    ASSUME JobsOK, NEW r \in Req, OnlyJob(r), KindsFit(job'[r])
    PROVE  JobsOK'
  BY DEF JobsOK, OnlyJob

LEMMA RestFits ==
    ASSUME JobsOK, NEW r \in Req, SameRest(r), job[r].pc # "load", job'[r].pc # "load"
    PROVE  KindsFit(job'[r])
  BY DEF JobsOK, KindsFit, SameRest

LEMMA BegunEffect ==
    ASSUME TypeOK, NEW r \in Req, NEW j, Begins(r, j)
    PROVE  /\ OnlyJob(r) /\ job'[r] = j /\ job[r].pc = "idle" /\ KindsFit(j) /\ CountOK'
           /\ overlap' \in BOOLEAN
           /\ overlap' <=> overlap \/ \E q \in Req : job[q].pc # "idle" /\ job[q].key = j.key
           /\ UNCHANGED <<storage, platform, caches, expected, cut, gaveUp>>
  <1>1. /\ job[r].pc = "idle" /\ job' = [job EXCEPT ![r] = j] /\ j \in Request
        /\ count' = [count EXCEPT !.ops[r] = @ + 1]
        /\ overlap' = (overlap \/ \E q \in Req : job[q].pc # "idle" /\ job[q].key = j.key)
        /\ UNCHANGED <<storage, platform, caches, expected, cut, gaveUp>>
    BY DEF Begins, Begin
  <1>2. OnlyJob(r) /\ job'[r] = j
    BY <1>1, SetJob
  <1>3. KindsFit(j)
    BY DEF Begins, KindsFit, BrandingKind
  <1>4. CountOK'
    <2> DEFINE n == count.ops[r] + 1
               o == [count.ops EXCEPT ![r] = n]
    <2>1. CountOK
      BY DEF TypeOK, CountOK
    <2>2. n \in Nat /\ count' = [count EXCEPT !.ops = o]
      BY <1>1, <2>1 DEF CountOK
    <2> HIDE DEF n
    <2>3. o \in [Req -> Nat]
      BY <2>1, <2>2 DEF CountOK
    <2> HIDE DEF o
    <2>4. QED
      BY <2>1, <2>2, <2>3 DEF CountOK
  <1>5. QED
    BY <1>1, <1>2, <1>3, <1>4 DEF TypeOK

LEMMA InitTypes == Init => TypeOK
  <1> SUFFICES ASSUME Init PROVE TypeOK
    OBVIOUS
  <1>1. PICK d \in StartDoc :
            /\ active = [slug |-> d, id |-> NoDoc]
            /\ stored = IF d = NoDoc THEN {} ELSE {"slug"}
            /\ made = IF d = NoDoc THEN 0 ELSE d.logo
            /\ expected = IF d = NoDoc THEN Empty ELSE d
    BY DEF Init
  <1>2. d \in Doc \cup {NoDoc}
    BY StartAssumption
  <1>3. active["slug"] = d /\ active["id"] = NoDoc /\ active \in [Key -> Doc \cup {NoDoc}]
    BY <1>1, <1>2 DEF Key
  <1>4. stored \subseteq Key /\ expected \in Doc
    BY <1>1, <1>2, EmptyDoc DEF Key
  <1>5. made \in 0..MaxFiles /\ files = 1..made
    <2>1. d # NoDoc => d.logo \in {0} \cup 1..MaxFiles
      BY <1>2, DocFields DEF File
    <2>2. MaxFiles \in Nat
      BY TenantAssumption
    <2>3. QED
      BY <1>1, <2>1, <2>2 DEF Init
  <1>6. StoreOK
    BY <1>3, <1>4, <1>5 DEF StoreOK
  <1>7. CachesOK
    <2>1. NoConfig \in CachedType /\ LowestLevel \in Level
      BY LowestExists DEF CachedType
    <2>2. \A p \in Proc : inbox[p] \in Seq(Events)
      BY DEF Init
    <2>3. QED
      BY <2>1, <2>2, NoLoadType DEF Init, CachesOK
  <1>8. JobsOK
    BY IdleRequest, IdleFits DEF Init, JobsOK
  <1>9. CountOK /\ FlagsOK
    BY DEF Init, CountOK, FlagsOK
  <1>10. QED
    BY <1>6, <1>7, <1>8, <1>9, TypesTogether

LEMMA RequestTypes ==
    ASSUME TypeOK, NEW r \in Req, RequestStep(r)
    PROVE  TypeOK'
  <1>0. StoreOK /\ CachesOK /\ JobsOK /\ CountOK /\ FlagsOK
    BY TypesTogether
  <1> DEFINE Goal == StoreOK' /\ CachesOK' /\ JobsOK' /\ CountOK' /\ FlagsOK'
  <1>a. SUFFICES Goal
    <2>1. (StoreOK /\ CachesOK /\ JobsOK /\ CountOK /\ FlagsOK)' => TypeOK'
      BY TypesTogether, PTL
    <2>2. QED
      BY <2>1
  <1>1. ASSUME NEW j, Begins(r, j) PROVE Goal
    <2>1. /\ OnlyJob(r) /\ KindsFit(job'[r]) /\ CountOK' /\ overlap' \in BOOLEAN
          /\ UNCHANGED <<storage, platform, caches, expected, cut, gaveUp>>
      BY <1>1, BegunEffect
    <2>2. JobsOK'
      BY <1>0, <2>1, OneJobFits
    <2>3. QED
      BY <1>0, <2>1, <2>2 DEF StoreOK, CachesOK, FlagsOK, storage, caches
  <1>2. ASSUME NEW c \in 0..1, LoadBranding(r, c) PROVE Goal
    <2>1. /\ job[r].kind \in BrandingKind /\ OnlyJob(r)
          /\ files' \subseteq 1..made' /\ made' \in 0..MaxFiles
          /\ UNCHANGED <<active, stored, platform, caches, count, history>>
          /\ job'[r] = Idle \/ NewSection(r)
      BY <1>2, LoadEffect
    <2>2. KindsFit(job'[r])
      BY <2>1, IdleFits DEF NewSection, KindsFit, BrandingKind
    <2>3. JobsOK'
      BY <1>0, <2>1, <2>2, OneJobFits
    <2>4. StoreOK'
      BY <1>0, <2>1 DEF StoreOK, history
    <2>5. QED
      BY <1>0, <2>1, <2>3, <2>4 DEF CachesOK, CountOK, FlagsOK, caches, history
  <1>3. CASE ReadActive(r)
    <2>1. /\ job[r].pc = "read" /\ OnlyJob(r)
          /\ job'[r].kind = job[r].kind /\ job'[r].key = job[r].key /\ job'[r].edit = job[r].edit
          /\ job'[r].pc \in {"publish", "deactivate"}
          /\ UNCHANGED <<storage, platform, caches, count, history>>
      BY <1>3, ReadEffect
    <2>2. KindsFit(job'[r])
      BY <1>0, <2>1 DEF JobsOK, KindsFit
    <2>3. JobsOK'
      BY <1>0, <2>1, <2>2, OneJobFits
    <2>4. QED
      BY <1>0, <2>1, <2>3 DEF StoreOK, CachesOK, CountOK, FlagsOK, storage, caches, history
  <1>4. CASE Deactivate(r)
    <2>1. /\ job[r].pc = "deactivate" /\ OnlyJob(r) /\ SameRest(r) /\ job'[r].pc = "latest"
          /\ active' \in [Key -> Doc \cup {NoDoc}]
          /\ UNCHANGED <<stored, files, made, platform, caches, count, history>>
      BY <1>4, DeactivateEffect
    <2>2. JobsOK'
      BY <1>0, <2>1, RestFits, OneJobFits
    <2>3. QED
      BY <1>0, <2>1, <2>2 DEF StoreOK, CachesOK, CountOK, FlagsOK, caches, history
  <1>5. CASE FindLatest(r)
    <2>1. /\ job[r].pc = "latest" /\ OnlyJob(r) /\ SameRest(r)
          /\ job'[r].pc \in {"create", "deactivate"}
          /\ UNCHANGED <<storage, platform, caches, count, history>>
      BY <1>5, LatestEffect
    <2>2. JobsOK'
      BY <1>0, <2>1, RestFits, OneJobFits
    <2>3. QED
      BY <1>0, <2>1, <2>2 DEF StoreOK, CachesOK, CountOK, FlagsOK, storage, caches, history
  <1>6. CASE CreateRow(r)
    <2>1. /\ job[r].pc = "create" /\ OnlyJob(r)
          /\ active' \in [Key -> Doc \cup {NoDoc}] /\ stored' \subseteq Key
          /\ \/ job'[r].pc = "publish" /\ SameRest(r) /\ expected' = Overlay(expected, Asked(r))
             \/ job'[r] = Idle /\ UNCHANGED expected
          /\ UNCHANGED <<files, made, platform, caches, count, overlap, cut, gaveUp>>
      BY <1>6, CreateEffect
    <2>2. JobsOK'
      BY <1>0, <2>1, RestFits, OneJobFits, IdleFits
    <2>3. expected' \in Doc
      BY <1>0, <2>1, AskedOverrides, OverlayDoc DEF StoreOK
    <2>4. QED
      BY <1>0, <2>1, <2>2, <2>3 DEF StoreOK, CachesOK, CountOK, FlagsOK, caches
  <1>7. CASE CreateRefused(r)
    <2>1. /\ job[r].pc = "create" /\ OnlyJob(r)
          /\ \/ job'[r].pc = "deactivate" /\ SameRest(r)
             \/ job'[r] = Idle
          /\ files' \subseteq files /\ gaveUp' \in BOOLEAN
          /\ UNCHANGED <<active, stored, made, platform, caches, count, expected, overlap, cut>>
      BY <1>0, <1>7, RefusedEffect DEF FlagsOK
    <2>2. JobsOK'
      BY <1>0, <2>1, RestFits, OneJobFits, IdleFits
    <2>3. QED
      BY <1>0, <2>1, <2>2 DEF StoreOK, CachesOK, CountOK, FlagsOK, caches
  <1>8. CASE PublishInvalidation(r)
    <2>1. /\ job[r].pc = "publish" /\ OnlyJob(r)
          /\ \/ job'[r].pc = "cleanup" /\ SameRest(r)
             \/ job'[r] = Idle
          /\ \E Q \in SUBSET (Proc \ {ProcOf[r]}) : InvalidateAndPublish(ProcOf[r], Q)
          /\ UNCHANGED <<storage, platform, base, load, reloads, count, history>>
      BY <1>8, PublishEffect
    <2>2. JobsOK'
      BY <1>0, <2>1, RestFits, OneJobFits, IdleFits
    <2>3. ProcOf[r] \in Proc
      BY TenantAssumption
    <2>4. CachesOK'
      BY <2>1, <2>3, InvalidateSteps DEF EvictStep
    <2>5. QED
      BY <1>0, <2>1, <2>2, <2>4 DEF StoreOK, CountOK, FlagsOK, storage, history
  <1>9. CASE DeleteOldFile(r)
    <2>1. /\ OnlyJob(r) /\ job'[r] = Idle /\ files' \subseteq files
          /\ UNCHANGED <<active, stored, made, platform, caches, count, history>>
      BY <1>9, DeleteEffect
    <2>2. JobsOK'
      BY <1>0, <2>1, OneJobFits, IdleFits
    <2>3. QED
      BY <1>0, <2>1, <2>2 DEF StoreOK, CachesOK, CountOK, FlagsOK, caches, history
  <1>10. QED
    BY <1>1, <1>2, <1>3, <1>4, <1>5, <1>6, <1>7, <1>8, <1>9 DEF RequestStep

LEMMA NextTypes == TypeOK /\ [Next]_vars => TypeOK'
  <1> SUFFICES ASSUME TypeOK, [Next]_vars PROVE TypeOK'
    OBVIOUS
  <1>0. StoreOK /\ CachesOK /\ JobsOK /\ CountOK /\ FlagsOK
    BY TypesTogether
  <1>a. (StoreOK /\ CachesOK /\ JobsOK /\ CountOK /\ FlagsOK)' => TypeOK'
    BY TypesTogether, PTL
  <1>1. ASSUME NEW r \in Req, RequestStep(r) PROVE TypeOK'
    BY <1>1, RequestTypes
  <1>2. ASSUME NEW p \in Proc, ProcessStep(p) PROVE TypeOK'
    BY <1>0, <1>a, <1>2, ProcessTypes DEF StoreOK, JobsOK, FlagsOK, storage, history
  <1>3. ASSUME NEW p \in Proc, Crash(p) PROVE TypeOK'
    <2>1. /\ CachesOK' /\ CountOK' /\ UNCHANGED <<storage, expected, overlap, gaveUp>>
          /\ job' \in [Req -> Request] /\ cut' \in BOOLEAN
          /\ \A r \in Req : job'[r] = IF r \in Dead(p) THEN Idle ELSE job[r]
      BY <1>3, CrashEffect
    <2>2. JobsOK'
      BY <1>0, <2>1, IdleFits DEF JobsOK
    <2>3. QED
      BY <1>0, <1>a, <2>1, <2>2 DEF StoreOK, FlagsOK, storage
  <1>4. CASE UNCHANGED vars
    BY <1>0, <1>a, <1>4 DEF StoreOK, CachesOK, JobsOK, CountOK, FlagsOK, vars, storage, caches, history
  <1>5. QED
    BY <1>1, <1>2, <1>3, <1>4, Steps

\* The variables of the model keep their types: rows hold documents, caches hold
\* documents or nothing, and the fields of a request stay in their ranges.
THEOREM TenantTypes == Spec => []TypeOK
  <1>1. Init => TypeOK
    BY InitTypes
  <1>2. TypeOK /\ [Next]_vars => TypeOK'
    BY NextTypes
  <1>3. QED
    BY <1>1, <1>2, PTL DEF Spec

-----------------------------------------------------------------------------
(* A save that no other one overlaps succeeds.                             *)

SoloInv == OneAtATime /\ RowTakenAway /\ SoloSaveSucceeds

LEMMA InitSolo == Init => SoloInv
  BY DEF Init, SoloInv, OneAtATime, RowTakenAway, SoloSaveSucceeds, Idle

\* A request goes on, or ends, with its key.
KeepsKey(r) ==
    /\ OnlyJob(r) /\ job[r].pc # "idle"
    /\ job'[r] = Idle \/ job'[r].key = job[r].key
    /\ UNCHANGED overlap

LEMMA AloneStill ==
    ASSUME OneAtATime, NEW r \in Req, KeepsKey(r)
    PROVE  OneAtATime'
  <1> SUFFICES ASSUME ~overlap', NEW x \in Req, NEW y \in Req, job'[x].pc # "idle", job'[y].pc # "idle",
                      job'[x].key = job'[y].key
               PROVE  x = y
    BY DEF OneAtATime
  <1>1. \A z \in {x, y} : job[z].pc # "idle" /\ job[z].key = job'[z].key
    BY DEF KeepsKey, OnlyJob, Idle
  <1>2. QED
    BY <1>1 DEF OneAtATime, KeepsKey

\* The rows stay, and whoever is between its statements was already.
LEMMA TakenStill ==
    ASSUME RowTakenAway, UNCHANGED active, overlap => overlap',
           \A x \in Req : job'[x].pc \in {"latest", "create"} =>
               job[x].pc \in {"latest", "create"} /\ job'[x].key = job[x].key
    PROVE  RowTakenAway'
  BY DEF RowTakenAway

LEMMA RequestSolo ==
    ASSUME TypeOK, SoloInv, NEW r \in Req, RequestStep(r)
    PROVE  SoloInv'
  <1>0. OneAtATime /\ RowTakenAway /\ SoloSaveSucceeds
    BY DEF SoloInv
  <1>i. Idle.pc = "idle"
    BY DEF Idle
  <1>1. ASSUME NEW j, Begins(r, j) PROVE SoloInv'
    <2>1. /\ OnlyJob(r) /\ job'[r] = j /\ job[r].pc = "idle"
          /\ overlap' <=> overlap \/ \E q \in Req : job[q].pc # "idle" /\ job[q].key = j.key
          /\ UNCHANGED <<storage, platform, caches, expected, cut, gaveUp>>
      BY <1>1, BegunEffect
    <2>2. j.pc \in {"load", "read"}
      BY <1>1 DEF Begins
    <2>3. OneAtATime'
      BY <1>0, <2>1 DEF OneAtATime, OnlyJob
    <2>4. RowTakenAway'
      BY <1>0, <2>1, <2>2, TakenStill DEF OnlyJob, storage
    <2>5. SoloSaveSucceeds'
      BY <1>0, <2>1 DEF SoloSaveSucceeds
    <2>6. QED
      BY <2>3, <2>4, <2>5 DEF SoloInv
  <1>2. ASSUME NEW c \in 0..1, LoadBranding(r, c) PROVE SoloInv'
    <2>1. /\ job[r].pc = "load" /\ job[r].key = "slug" /\ OnlyJob(r)
          /\ UNCHANGED <<active, stored, platform, caches, count, history>>
          /\ job'[r] = Idle \/ NewSection(r)
      BY <1>2, LoadEffect
    <2>2. OneAtATime'
      BY <1>0, <2>1, AloneStill DEF KeepsKey, NewSection, history
    <2>3. RowTakenAway'
      BY <1>0, <1>i, <2>1, TakenStill DEF OnlyJob, NewSection, history
    <2>4. QED
      BY <1>0, <2>1, <2>2, <2>3 DEF SoloInv, SoloSaveSucceeds, history
  <1>3. CASE ReadActive(r)
    <2>1. /\ job[r].pc = "read" /\ OnlyJob(r) /\ job'[r].key = job[r].key
          /\ job'[r].pc \in {"publish", "deactivate"}
          /\ UNCHANGED <<storage, platform, caches, count, history>>
      BY <1>3, ReadEffect
    <2>2. OneAtATime'
      BY <1>0, <2>1, AloneStill DEF KeepsKey, history
    <2>3. RowTakenAway'
      BY <1>0, <2>1, TakenStill DEF OnlyJob, history, storage
    <2>4. QED
      BY <1>0, <2>1, <2>2, <2>3 DEF SoloInv, SoloSaveSucceeds, history
  <1>4. CASE Deactivate(r)
    <2>1. /\ job[r].pc = "deactivate" /\ OnlyJob(r) /\ job'[r].key = job[r].key
          /\ job'[r].pc = "latest" /\ active'[job[r].key] = NoDoc
          /\ \A k \in Key : k # job[r].key => active'[k] = active[k]
          /\ UNCHANGED <<stored, files, made, platform, caches, count, history>>
      BY <1>4, DeactivateEffect DEF SameRest
    <2>2. OneAtATime'
      BY <1>0, <2>1, AloneStill DEF KeepsKey, history
    <2>3. RowTakenAway'
      <3> SUFFICES ASSUME NEW x \in Req, job'[x].pc \in {"latest", "create"}, active'[job'[x].key] # NoDoc
                   PROVE  overlap'
        BY DEF RowTakenAway
      <3>1. x # r
        BY <2>1
      <3>2. job'[x] = job[x] /\ job[x].key \in Key
        BY <2>1, <3>1, JobFields DEF OnlyJob
      <3>3. active[job[x].key] # NoDoc
        BY <2>1, <3>2
      <3>4. QED
        BY <1>0, <2>1, <3>2, <3>3 DEF RowTakenAway, history
    <2>4. QED
      BY <1>0, <2>1, <2>2, <2>3 DEF SoloInv, SoloSaveSucceeds, history
  <1>5. CASE FindLatest(r)
    <2>1. /\ job[r].pc = "latest" /\ OnlyJob(r) /\ job'[r].key = job[r].key
          /\ UNCHANGED <<storage, platform, caches, count, history>>
      BY <1>5, LatestEffect DEF SameRest
    <2>2. OneAtATime'
      BY <1>0, <2>1, AloneStill DEF KeepsKey, history
    <2>3. RowTakenAway'
      BY <1>0, <2>1, TakenStill DEF OnlyJob, history, storage
    <2>4. QED
      BY <1>0, <2>1, <2>2, <2>3 DEF SoloInv, SoloSaveSucceeds, history
  <1>6. CASE CreateRow(r)
    <2>1. /\ job[r].pc = "create" /\ OnlyJob(r)
          /\ \A k \in Key : k # job[r].key => active'[k] = active[k]
          /\ \/ job'[r].pc = "publish" /\ job'[r].key = job[r].key
             \/ job'[r] = Idle
          /\ UNCHANGED <<files, made, platform, caches, count, overlap, cut, gaveUp>>
      BY <1>6, CreateEffect DEF SameRest
    <2>2. OneAtATime'
      BY <1>0, <2>1, AloneStill DEF KeepsKey
    <2>3. RowTakenAway'
      <3> SUFFICES ASSUME NEW x \in Req, job'[x].pc \in {"latest", "create"}, active'[job'[x].key] # NoDoc
                   PROVE  overlap'
        BY DEF RowTakenAway
      <3>1. x # r
        BY <1>i, <2>1
      <3>2. job'[x] = job[x] /\ job[x].key \in Key
        BY <2>1, <3>1, JobFields DEF OnlyJob
      <3>3. CASE job[x].key = job[r].key
        BY <1>0, <2>1, <3>1, <3>2, <3>3 DEF OneAtATime
      <3>4. CASE job[x].key # job[r].key
        <4>1. active[job[x].key] # NoDoc
          BY <2>1, <3>2, <3>4
        <4>2. QED
          BY <1>0, <2>1, <3>2, <4>1 DEF RowTakenAway
      <3>5. QED
        BY <3>3, <3>4
    <2>4. QED
      BY <1>0, <2>1, <2>2, <2>3 DEF SoloInv, SoloSaveSucceeds
  <1>7. CASE CreateRefused(r)
    <2>1. /\ job[r].pc = "create" /\ OnlyJob(r) /\ active[job[r].key] # NoDoc
          /\ \/ job'[r].pc = "deactivate" /\ job'[r].key = job[r].key
             \/ job'[r] = Idle
          /\ UNCHANGED <<active, stored, made, platform, caches, count, expected, overlap, cut>>
      BY <1>7, RefusedEffect DEF SameRest
    <2>2. OneAtATime'
      BY <1>0, <2>1, AloneStill DEF KeepsKey
    <2>3. RowTakenAway'
      BY <1>0, <1>i, <2>1, TakenStill DEF OnlyJob
    <2>4. overlap
      BY <1>0, <2>1 DEF RowTakenAway
    <2>5. QED
      BY <2>1, <2>2, <2>3, <2>4 DEF SoloInv, SoloSaveSucceeds
  <1>8. CASE PublishInvalidation(r)
    <2>1. /\ job[r].pc = "publish" /\ OnlyJob(r)
          /\ \/ job'[r].pc = "cleanup" /\ job'[r].key = job[r].key
             \/ job'[r] = Idle
          /\ UNCHANGED <<storage, platform, base, load, reloads, count, history>>
      BY <1>8, PublishEffect DEF SameRest
    <2>2. OneAtATime'
      BY <1>0, <2>1, AloneStill DEF KeepsKey, history
    <2>3. RowTakenAway'
      BY <1>0, <1>i, <2>1, TakenStill DEF OnlyJob, history, storage
    <2>4. QED
      BY <1>0, <2>1, <2>2, <2>3 DEF SoloInv, SoloSaveSucceeds, history
  <1>9. CASE DeleteOldFile(r)
    <2>1. /\ job[r].pc = "cleanup" /\ OnlyJob(r) /\ job'[r] = Idle
          /\ UNCHANGED <<active, stored, made, platform, caches, count, history>>
      BY <1>9, DeleteEffect
    <2>2. OneAtATime'
      BY <1>0, <2>1, AloneStill DEF KeepsKey, history
    <2>3. RowTakenAway'
      BY <1>0, <1>i, <2>1, TakenStill DEF OnlyJob, history
    <2>4. QED
      BY <1>0, <2>1, <2>2, <2>3 DEF SoloInv, SoloSaveSucceeds, history
  <1>10. QED
    BY <1>1, <1>2, <1>3, <1>4, <1>5, <1>6, <1>7, <1>8, <1>9 DEF RequestStep

LEMMA NextSolo == TypeOK /\ SoloInv /\ [Next]_vars => SoloInv'
  <1> SUFFICES ASSUME TypeOK, SoloInv, [Next]_vars PROVE SoloInv'
    OBVIOUS
  <1>0. OneAtATime /\ RowTakenAway /\ SoloSaveSucceeds
    BY DEF SoloInv
  <1>1. ASSUME NEW r \in Req, RequestStep(r) PROVE SoloInv'
    BY <1>1, RequestSolo
  <1>2. ASSUME NEW p \in Proc, ProcessStep(p) PROVE SoloInv'
    <2>1. UNCHANGED <<storage, job, history>>
      BY <1>2, ProcessTypes
    <2>2. QED
      BY <1>0, <2>1 DEF SoloInv, OneAtATime, RowTakenAway, SoloSaveSucceeds, storage, history
  <1>3. ASSUME NEW p \in Proc, Crash(p) PROVE SoloInv'
    <2>1. /\ UNCHANGED <<storage, expected, overlap, gaveUp>>
          /\ \A x \in Req : job'[x] = job[x] \/ job'[x] = Idle
      BY <1>3, CrashEffect
    <2>2. Idle.pc = "idle"
      BY DEF Idle
    <2>3. QED
      BY <1>0, <2>1, <2>2 DEF SoloInv, OneAtATime, RowTakenAway, SoloSaveSucceeds, storage
  <1>4. CASE UNCHANGED vars
    BY <1>0, <1>4 DEF SoloInv, OneAtATime, RowTakenAway, SoloSaveSucceeds, vars, storage, history
  <1>5. QED
    BY <1>1, <1>2, <1>3, <1>4, Steps

\* A save runs out of attempts only where another save of the same document was in
\* progress with it: alone it never meets a row that it did not take away itself
\* (saveOverrides' loop over the unique index).
THEOREM SoloSaves == Spec => []SoloSaveSucceeds
  <1>1. Init => SoloInv
    BY InitSolo
  <1>2. SoloInv => SoloSaveSucceeds
    BY DEF SoloInv
  <1>3. QED
    BY <1>1, <1>2, TenantTypes, NextSolo, PTL DEF Spec

-----------------------------------------------------------------------------
(* A cached entry is fresh, or it is known that it is not.                 *)

\* What a process holds after a step it held before, with the events it was told
\* of still there, unless it has just read it.
HeldStep ==
    \A p \in Proc : \A d \in HeldDocs(p)' :
        (d \in HeldDocs(p) /\ (Told(p) => Told(p)')) \/ d = LoadOverrides("slug")

LEMMA ToldMore ==
    ASSUME CachesOK, NEW q \in Proc, NEW e \in Events, inbox'[q] = Append(inbox[q], e)
    PROVE  (Told(q) => Told(q)') /\ (e = "tenant" => Told(q)')
  <1> DEFINE s == inbox[q]
  <1>1. s \in Seq(Events)
    BY DEF CachesOK
  <1>2. /\ DOMAIN Append(s, e) = 1..(Len(s) + 1) /\ DOMAIN s = 1..Len(s)
        /\ Append(s, e)[Len(s) + 1] = e
        /\ \A i \in 1..Len(s) : Append(s, e)[i] = s[i]
    BY <1>1
  <1>3. Len(s) \in Nat
    BY <1>1
  <1> HIDE DEF s
  <1>4. \A i \in 1..Len(s) : i \in 1..(Len(s) + 1)
    BY <1>3
  <1>5. Len(s) + 1 \in 1..(Len(s) + 1)
    BY <1>3
  <1>6. inbox'[q] = Append(s, e)
    BY DEF s
  <1>7. ASSUME \E i \in DOMAIN s : s[i] = "tenant"
        PROVE  \E i \in DOMAIN inbox'[q] : inbox'[q][i] = "tenant"
    BY <1>2, <1>4, <1>6, <1>7
  <1>8. e = "tenant" => \E i \in DOMAIN inbox'[q] : inbox'[q][i] = "tenant"
    BY <1>2, <1>5, <1>6
  <1>9. QED
    BY <1>7, <1>8 DEF Told, s

LEMMA EvictHeld ==
    ASSUME TypeOK, NEW p \in Proc, EvictStep(p)
    PROVE  HeldStep /\ HeldDocs(p)' = {}
  <1>1. HeldDocs(p)' = {}
    BY DEF EvictStep, HeldDocs
  <1>2. ASSUME NEW q \in Proc \ {p} PROVE HeldDocs(q)' \subseteq HeldDocs(q) /\ (Told(q) => Told(q)')
    <2>1. HeldDocs(q)' \subseteq HeldDocs(q)
      BY DEF EvictStep, HeldDocs
    <2>2. CASE inbox'[q] = inbox[q]
      BY <2>1, <2>2 DEF Told
    <2>3. CASE \E e \in Events : inbox'[q] = Append(inbox[q], e)
      BY <2>1, <2>3, ToldMore, CachesTyped
    <2>4. QED
      BY <2>2, <2>3 DEF EvictStep
  <1>3. QED
    BY <1>1, <1>2 DEF HeldStep

LEMMA EvictBases ==
    ASSUME BasesFresh, NEW p \in Proc, EvictStep(p)
    PROVE  BasesFresh'
  <1>1. ASSUME NEW q \in Proc, ~missed'[q]
        PROVE  /\ tcfg'[q] # NoConfig => tcfg'[q].base = base'[q]
               /\ load'[q].pc # "idle" => load'[q].base = base'[q]
    <2>1. CASE q = p
      BY <1>1, <2>1 DEF BasesFresh, EvictStep
    <2>2. CASE q # p
      BY <1>1, <2>2 DEF BasesFresh, EvictStep
    <2>3. QED
      BY <2>1, <2>2
  <1>2. QED
    BY <1>1 DEF BasesFresh

LEMMA ProcessHeld ==
    ASSUME TypeOK, NEW p \in Proc, ProcessStep(p)
    PROVE  HeldStep /\ (BasesFresh => BasesFresh')
  <1>1. CASE EnsureTenantConfig(p)
    <2>1. EnsureEffect(p)
      BY <1>1, EnsureSteps
    <2>2. HeldStep
      <3>1. \A q \in Proc : HeldDocs(q)' = HeldDocs(q)
        BY <2>1 DEF EnsureEffect, HeldDocs
      <3>2. \A q \in Proc : Told(q) => Told(q)'
        BY <2>1 DEF EnsureEffect, Told
      <3>3. QED
        BY <3>1, <3>2 DEF HeldStep
    <2>3. BasesFresh => BasesFresh'
      BY <2>1 DEF EnsureEffect, BasesFresh
    <2>4. QED
      BY <2>2, <2>3
  <1>2. CASE QueryOverrides(p)
    <2>1. QueryEffect(p)
      BY <1>2, QuerySteps
    <2>2. HeldStep
      <3>1. \A q \in Proc : \A d \in HeldDocs(q)' : d \in HeldDocs(q) \/ d = LoadOverrides("slug")
        BY <2>1 DEF QueryEffect, HeldDocs
      <3>2. \A q \in Proc : Told(q) => Told(q)'
        BY <2>1 DEF QueryEffect, Told
      <3>3. QED
        BY <3>1, <3>2 DEF HeldStep
    <2>3. BasesFresh => BasesFresh'
      BY <2>1 DEF QueryEffect, BasesFresh
    <2>4. QED
      BY <2>2, <2>3
  <1>3. CASE SetTenantConfig(p)
    <2>1. SetEffect(p)
      BY <1>3, SetSteps
    <2>2. HeldStep
      <3>1. \A q \in Proc : HeldDocs(q)' \subseteq HeldDocs(q)
        BY <2>1 DEF SetEffect, HeldDocs
      <3>2. \A q \in Proc : Told(q) => Told(q)'
        BY <2>1 DEF SetEffect, Told
      <3>3. QED
        BY <3>1, <3>2 DEF HeldStep
    <2>3. BasesFresh => BasesFresh'
      BY <2>1 DEF SetEffect, BasesFresh
    <2>4. QED
      BY <2>2, <2>3
  <1>4. CASE LoadFails(p)
    <2>1. /\ load'[p].pc = "idle" /\ \A q \in Proc \ {p} : load'[q] = load[q]
          /\ UNCHANGED <<base, tcfg, inbox, missed>>
      BY <1>4, FailSteps
    <2>2. HeldStep
      <3>1. \A q \in Proc : HeldDocs(q)' \subseteq HeldDocs(q)
        BY <2>1 DEF HeldDocs
      <3>2. \A q \in Proc : Told(q) => Told(q)'
        BY <2>1 DEF Told
      <3>3. QED
        BY <3>1, <3>2 DEF HeldStep
    <2>3. BasesFresh => BasesFresh'
      BY <2>1 DEF BasesFresh
    <2>4. QED
      BY <2>2, <2>3
  <1>5. CASE \E l \in Level : UpdatePlatform(p, l)
    BY <1>5, PlatformSteps, EvictHeld, EvictBases
  <1>6. CASE ReceiveTenantEvent(p) \/ ReceiveGlobalEvent(p)
    BY <1>6, ReceiveSteps, EvictHeld, EvictBases
  <1>7. CASE Reload(p)
    BY <1>7, ReloadSteps, EvictHeld, EvictBases
  <1>8. QED
    BY <1>1, <1>2, <1>3, <1>4, <1>5, <1>6, <1>7 DEF ProcessStep

LEMMA CrashHeld ==
    ASSUME TypeOK, NEW p \in Proc, Crash(p)
    PROVE  HeldStep /\ (BasesFresh => BasesFresh')
  <1>1. /\ tcfg'[p] = NoConfig /\ load'[p].pc = "idle"
        /\ \A q \in Proc \ {p} :
            /\ tcfg'[q] = tcfg[q] /\ load'[q] = load[q] /\ inbox'[q] = inbox[q] /\ base'[q] = base[q]
            /\ missed[q] => missed'[q]
    BY CrashEffect
  <1>2. HeldDocs(p)' = {}
    BY <1>1 DEF HeldDocs
  <1>3. \A q \in Proc \ {p} : HeldDocs(q)' \subseteq HeldDocs(q)
    BY <1>1 DEF HeldDocs
  <1>4. \A q \in Proc \ {p} : Told(q) => Told(q)'
    BY <1>1 DEF Told
  <1>5. HeldStep
    BY <1>2, <1>3, <1>4 DEF HeldStep
  <1>6. BasesFresh => BasesFresh'
    BY <1>1 DEF BasesFresh
  <1>7. QED
    BY <1>5, <1>6

LEMMA CachesAlone ==
    ASSUME UNCHANGED caches
    PROVE  HeldStep /\ (BasesFresh => BasesFresh')
  <1>1. \A p \in Proc : HeldDocs(p)' = HeldDocs(p) /\ Told(p)' = Told(p)
    BY DEF caches, HeldDocs, Told
  <1>2. QED
    BY <1>1 DEF HeldStep, BasesFresh, caches

LEMMA SameDocument ==
    ASSUME active'["slug"] = active["slug"]
    PROVE  LoadOverrides("slug")' = LoadOverrides("slug")
  BY DEF LoadOverrides

LEMMA FreshStill ==
    ASSUME DocsFresh, HeldStep, LoadOverrides("slug")' = LoadOverrides("slug"),
           Unannounced => Unannounced'
    PROVE  DocsFresh'
  BY DEF DocsFresh, HeldStep

\* The request that will tell the caches, as Unannounced has it.
Announces(q, doc) ==
    /\ q.key = "slug"
    /\ q.pc = "publish" \/ (q.pc \in {"latest", "create"} /\ q.hit /\ doc = NoDoc)

LEMMA AnnouncedBy ==
    /\ Unannounced <=> \E r \in Req : Announces(job[r], active["slug"])
    /\ Unannounced' <=> \E r \in Req : Announces(job'[r], active'["slug"])
  BY DEF Unannounced, Announces

\* A step of r that leaves the document, and what r owes, as they were.
LEMMA RequestFresh ==
    ASSUME DocsFresh, NEW r \in Req, OnlyJob(r), UNCHANGED caches, active'["slug"] = active["slug"],
           Announces(job[r], active["slug"]) => Announces(job'[r], active["slug"])
    PROVE  DocsFresh'
  <1>1. Unannounced => Unannounced'
    BY AnnouncedBy DEF OnlyJob
  <1>2. QED
    BY <1>1, CachesAlone, SameDocument, FreshStill

FreshInv == DocsFresh /\ BasesFresh

LEMMA RequestKeepsFresh ==
    ASSUME TypeOK, FreshInv, NEW r \in Req, RequestStep(r)
    PROVE  FreshInv'
  <1>0. DocsFresh /\ BasesFresh
    BY DEF FreshInv
  <1>c. UNCHANGED caches => BasesFresh'
    BY <1>0, CachesAlone
  <1>1. ASSUME NEW j, Begins(r, j) PROVE FreshInv'
    <2>1. /\ OnlyJob(r) /\ job[r].pc = "idle" /\ UNCHANGED caches /\ UNCHANGED active
      BY <1>1, BegunEffect DEF storage
    <2>2. QED
      BY <1>0, <1>c, <2>1, RequestFresh DEF Announces, FreshInv
  <1>2. ASSUME NEW c \in 0..1, LoadBranding(r, c) PROVE FreshInv'
    <2>1. /\ OnlyJob(r) /\ job[r].pc = "load" /\ UNCHANGED caches /\ UNCHANGED active
      BY <1>2, LoadEffect
    <2>2. QED
      BY <1>0, <1>c, <2>1, RequestFresh DEF Announces, FreshInv
  <1>3. CASE ReadActive(r)
    <2>1. /\ OnlyJob(r) /\ job[r].pc = "read" /\ UNCHANGED caches /\ UNCHANGED active
      BY <1>3, ReadEffect DEF storage
    <2>2. QED
      BY <1>0, <1>c, <2>1, RequestFresh DEF Announces, FreshInv
  <1>4. CASE Deactivate(r)
    <2>1. /\ job[r].pc = "deactivate" /\ OnlyJob(r) /\ job'[r].key = job[r].key
          /\ job'[r].pc = "latest" /\ job'[r].hit = (active[job[r].key] # NoDoc)
          /\ active'[job[r].key] = NoDoc /\ \A k \in Key : k # job[r].key => active'[k] = active[k]
          /\ UNCHANGED caches
      BY <1>4, DeactivateEffect DEF SameRest
    <2>2. CASE job[r].key = "slug" /\ active["slug"] # NoDoc
      <3>1. Announces(job'[r], active'["slug"])
        BY <2>1, <2>2 DEF Announces
      <3>2. Unannounced'
        BY <3>1, AnnouncedBy
      <3>3. QED
        BY <1>c, <2>1, <3>2 DEF DocsFresh, FreshInv
    <2>3. CASE ~(job[r].key = "slug" /\ active["slug"] # NoDoc)
      <3>1. active'["slug"] = active["slug"]
        BY <2>1, <2>3 DEF Key
      <3>2. QED
        BY <1>0, <1>c, <2>1, <3>1, RequestFresh DEF Announces, FreshInv
    <2>4. QED
      BY <2>2, <2>3
  <1>5. CASE FindLatest(r)
    <2>1. /\ job[r].pc = "latest" /\ OnlyJob(r) /\ job'[r].key = job[r].key
          /\ \/ job'[r].pc = "create" /\ job'[r].hit = job[r].hit
             \/ job'[r].pc = "deactivate" /\ ~job[r].hit
          /\ UNCHANGED caches /\ UNCHANGED active
      BY <1>5, LatestEffect DEF SameRest, storage
    <2>2. QED
      BY <1>0, <1>c, <2>1, RequestFresh DEF Announces, FreshInv
  <1>6. CASE CreateRow(r)
    <2>1. /\ job[r].pc = "create" /\ OnlyJob(r)
          /\ \A k \in Key : k # job[r].key => active'[k] = active[k]
          /\ \/ job[r].key = "slug" /\ job'[r].pc = "publish" /\ job'[r].key = job[r].key
             \/ job[r].key = "id" /\ job'[r] = Idle
          /\ UNCHANGED caches
      BY <1>6, CreateEffect DEF SameRest
    <2>2. CASE job[r].key = "slug"
      <3>1. Unannounced'
        BY <2>1, <2>2, AnnouncedBy DEF Announces
      <3>2. QED
        BY <1>c, <2>1, <3>1 DEF DocsFresh, FreshInv
    <2>3. CASE job[r].key = "id"
      <3>1. active'["slug"] = active["slug"]
        BY <2>1, <2>3 DEF Key
      <3>2. QED
        BY <1>0, <1>c, <2>1, <2>3, <3>1, RequestFresh DEF Announces, FreshInv
    <2>4. QED
      BY <2>1, <2>2, <2>3
  <1>7. CASE CreateRefused(r)
    <2>1. /\ job[r].pc = "create" /\ OnlyJob(r) /\ active[job[r].key] # NoDoc
          /\ UNCHANGED caches /\ UNCHANGED active
      BY <1>7, RefusedEffect
    <2>2. QED
      BY <1>0, <1>c, <2>1, RequestFresh DEF Announces, FreshInv
  <1>8. CASE PublishInvalidation(r)
    <2>1. /\ \E Q \in SUBSET (Proc \ {ProcOf[r]}) : InvalidateAndPublish(ProcOf[r], Q)
          /\ UNCHANGED <<platform, base, load, reloads>> /\ UNCHANGED active
      BY <1>8, PublishEffect DEF storage
    <2>2. ProcOf[r] \in Proc /\ CachesOK /\ "tenant" \in Events
      BY TenantAssumption, CachesTyped DEF Events
    <2>q. PICK Q \in SUBSET (Proc \ {ProcOf[r]}) : InvalidateAndPublish(ProcOf[r], Q)
      BY <2>1
    <2>3. /\ EvictStep(ProcOf[r])
          /\ \A q \in Q : inbox'[q] = Append(inbox[q], "tenant")
          /\ \A q \in Proc \ {ProcOf[r]} : q \notin Q /\ Outdated(q) => missed'[q]
      BY <2>1, <2>q, <2>2, InvalidateSteps
    <2>4. HeldDocs(ProcOf[r])' = {}
      BY <2>2, <2>3, EvictHeld
    <2>5. \A q \in Q : Told(q)'
      BY <2>2, <2>3, ToldMore
    <2>s. LoadOverrides("slug")' = LoadOverrides("slug")
      BY <2>1, SameDocument
    <2>o. ASSUME NEW q \in Proc \ {ProcOf[r]}, q \notin Q, NEW h \in HeldDocs(q)'
          PROVE  h = LoadOverrides("slug")
      <3>1. ~missed'[q] /\ tcfg'[q] = tcfg[q] /\ load'[q] = load[q]
        BY <2>3, <2>o DEF HeldDocs, EvictStep
      <3>2. ~Outdated(q)
        BY <2>3, <2>o, <3>1
      <3>3. QED
        BY <2>o, <3>1, <3>2 DEF HeldDocs, Outdated
    <2>6. DocsFresh'
      BY <2>4, <2>5, <2>s, <2>o DEF DocsFresh
    <2>7. BasesFresh'
      BY <1>0, <2>2, <2>3, EvictBases
    <2>8. QED
      BY <2>6, <2>7 DEF FreshInv
  <1>9. CASE DeleteOldFile(r)
    <2>1. /\ OnlyJob(r) /\ job[r].pc = "cleanup" /\ UNCHANGED caches /\ UNCHANGED active
      BY <1>9, DeleteEffect
    <2>2. QED
      BY <1>0, <1>c, <2>1, RequestFresh DEF Announces, FreshInv
  <1>10. QED
    BY <1>1, <1>2, <1>3, <1>4, <1>5, <1>6, <1>7, <1>8, <1>9 DEF RequestStep

LEMMA NextFresh == TypeOK /\ FreshInv /\ [Next]_vars => FreshInv'
  <1> SUFFICES ASSUME TypeOK, FreshInv, [Next]_vars PROVE FreshInv'
    OBVIOUS
  <1>0. DocsFresh /\ BasesFresh
    BY DEF FreshInv
  <1>1. ASSUME NEW r \in Req, RequestStep(r) PROVE FreshInv'
    BY <1>1, RequestKeepsFresh
  <1>2. ASSUME NEW p \in Proc, ProcessStep(p) PROVE FreshInv'
    <2>1. UNCHANGED <<storage, job>>
      BY <1>2, ProcessTypes
    <2>2. active'["slug"] = active["slug"] /\ (Unannounced => Unannounced')
      BY <2>1 DEF Unannounced, storage
    <2>3. HeldStep /\ BasesFresh'
      BY <1>0, <1>2, ProcessHeld
    <2>4. DocsFresh'
      BY <1>0, <2>2, <2>3, FreshStill, SameDocument
    <2>5. QED
      BY <2>3, <2>4 DEF FreshInv
  <1>3. ASSUME NEW p \in Proc, Crash(p) PROVE FreshInv'
    <2>1. HeldStep /\ BasesFresh'
      BY <1>0, <1>3, CrashHeld
    <2>2. /\ UNCHANGED storage /\ tcfg'[p] = NoConfig /\ load'[p].pc = "idle"
          /\ \A r \in Req : job'[r] = IF r \in Dead(p) THEN Idle ELSE job[r]
          /\ \A q \in Proc \ {p} :
                missed'[q] <=> missed[q] \/ \E r \in Dead(p) : job[r].pc \in {"latest", "create", "publish"}
      BY <1>3, CrashEffect
    <2>3. LoadOverrides("slug")' = LoadOverrides("slug")
      BY <2>2, SameDocument DEF storage
    <2>4. HeldDocs(p)' = {}
      BY <2>2 DEF HeldDocs
    <2>5. CASE \E r \in Dead(p) : job[r].pc \in {"latest", "create", "publish"}
      <3>1. \A q \in Proc : HeldDocs(q)' = {}
        BY <2>2, <2>4, <2>5 DEF HeldDocs
      <3>2. QED
        BY <2>1, <3>1 DEF DocsFresh, FreshInv
    <2>6. CASE ~ \E r \in Dead(p) : job[r].pc \in {"latest", "create", "publish"}
      <3>1. Unannounced => Unannounced'
        BY <2>2, <2>6, AnnouncedBy DEF Announces, storage
      <3>2. QED
        BY <1>0, <2>1, <2>3, <3>1, FreshStill DEF FreshInv
    <2>7. QED
      BY <2>5, <2>6
  <1>4. CASE UNCHANGED vars
    <2>1. HeldStep /\ BasesFresh'
      BY <1>0, <1>4, CachesAlone DEF vars
    <2>2. active'["slug"] = active["slug"] /\ (Unannounced => Unannounced')
      BY <1>4 DEF Unannounced, vars, storage
    <2>3. QED
      BY <1>0, <2>1, <2>2, SameDocument, FreshStill DEF FreshInv
  <1>5. QED
    BY <1>1, <1>2, <1>3, <1>4, Steps

LEMMA InitFresh == Init => FreshInv
  <1> SUFFICES ASSUME Init PROVE FreshInv
    OBVIOUS
  <1>1. \A p \in Proc : tcfg[p] = NoConfig /\ load[p].pc = "idle"
    BY DEF Init, NoLoad
  <1>2. QED
    BY <1>1 DEF FreshInv, DocsFresh, BasesFresh, HeldDocs

LEMMA FreshIsFresh == TypeOK /\ FreshInv => CacheFresh
  <1> SUFFICES ASSUME TypeOK, FreshInv, ~Saving,
                      NEW p \in Proc, tcfg[p] # NoConfig, ~missed[p], inbox[p] = <<>>
               PROVE  tcfg[p] = [base |-> base[p], doc |-> LoadOverrides("slug")]
    BY DEF CacheFresh
  <1>1. tcfg[p] \in [base : Level, doc : Doc]
    BY CachesTyped DEF CachesOK, CachedType
  <1>2. ~Told(p) /\ ~Unannounced
    BY DEF Told, Saving, Unannounced
  <1>3. tcfg[p].doc \in HeldDocs(p)
    BY DEF HeldDocs
  <1>4. tcfg[p].doc = LoadOverrides("slug")
    BY <1>2, <1>3 DEF FreshInv, DocsFresh
  <1>5. tcfg[p].base = base[p]
    BY DEF FreshInv, BasesFresh
  <1>6. QED
    BY <1>1, <1>4, <1>5

\* "forcing reload on next ensureTenantConfig()" (config/index.ts): what a process
\* serves for a tenant is the stored document over its own platform configuration,
\* once no save is under way and no event on its way, unless a load had already read
\* the overrides when it was told to forget them, the process that owed the event
\* died, or the event did not reach a process that held what was outdated.
THEOREM CachesFresh == Spec => []CacheFresh
  BY TenantTypes, InitFresh, NextFresh, FreshIsFresh, PTL DEF Spec

-----------------------------------------------------------------------------
(* Saves that do not overlap compose.                                      *)

\* Its row was taken away, and its document will replace it.
Replacing(q) == q.key = "slug" /\ q.pc \in {"latest", "create"} /\ q.hit

\* The document is what was asked for so far, or the row is being replaced.
Current == LoadOverrides("slug") = expected \/ \E q \in Req : Replacing(job[q])

ComposedHere == Current /\ \A q \in Req : job[q].key = "slug" => SavesItsEdit(q)

LEMMA ComposedIs ==
    /\ Composed <=> (~overlap /\ ~cut => ComposedHere)
    /\ Composed' <=> (~overlap' /\ ~cut' => ComposedHere')
  BY DEF Composed, ComposedHere, Current, Replacing

\* A request keeps its promise while nobody else changes the document.
LEMMA KeepsPromise ==
    ASSUME NEW r \in Req, SavesItsEdit(r), UNCHANGED expected,
           job'[r].kind = job[r].kind, job'[r].edit = job[r].edit,
           job'[r].pc = "read" => job[r].pc = "read",
           job'[r].pc \in {"deactivate", "latest", "create"} =>
               /\ job[r].pc \in {"deactivate", "latest", "create"} /\ job'[r].write = job[r].write,
           job'[r].pc \in {"latest", "create"} =>
               /\ job[r].pc \in {"latest", "create"} /\ job'[r].hit = job[r].hit
    PROVE  SavesItsEdit(r)'
  <1>1. Asked(r)' = Asked(r)
    BY DEF Asked
  <1>2. QED
    BY <1>1 DEF SavesItsEdit

LEMMA SamePromise ==
    ASSUME NEW q \in Req, SavesItsEdit(q), UNCHANGED expected, job'[q] = job[q]
    PROVE  SavesItsEdit(q)'
  BY KeepsPromise

LEMMA NoPromise ==
    ASSUME NEW q \in Req, job'[q].pc \in {"idle", "load", "publish", "cleanup"}
    PROVE  SavesItsEdit(q)'
  BY DEF SavesItsEdit

\* One request goes on, and what it owes is known.
LEMMA OnePromise ==
    ASSUME \A q \in Req : job[q].key = "slug" => SavesItsEdit(q), UNCHANGED expected,
           NEW r \in Req, OnlyJob(r), job'[r].key = "slug" => SavesItsEdit(r)'
    PROVE  \A q \in Req : job'[q].key = "slug" => SavesItsEdit(q)'
  BY SamePromise DEF OnlyJob

\* The document is as it was, and whoever replaces it still does.
LEMMA StillCurrent ==
    ASSUME Current, UNCHANGED expected, active'["slug"] = active["slug"], NEW r \in Req, OnlyJob(r),
           Replacing(job[r]) => Replacing(job'[r])
    PROVE  Current'
  BY SameDocument DEF Current, OnlyJob

\* A request alone on the document finds what its predecessors left.
LEMMA AloneFinds ==
    ASSUME OneAtATime, ~overlap, Current, NEW r \in Req, job[r].key = "slug",
           job[r].pc \notin {"idle", "latest", "create"}
    PROVE  LoadOverrides("slug") = expected
  BY DEF OneAtATime, Current, Replacing

LEMMA LoadedPromise ==
    ASSUME TypeOK, NEW r \in Req, LoadOverrides("slug") = expected, UNCHANGED expected,
           job[r].kind \in BrandingKind, NewSection(r)
    PROVE  SavesItsEdit(r)'
  <1> DEFINE d == LoadOverrides("slug")
             e == job'[r].edit
             k == job[r].kind
             a == Asked(r)'
  <1>1. /\ job'[r].pc = "read" /\ e \in SectionDoc("branding")
        /\ \/ job'[r].kind = k
           \/ job'[r].kind = "reset" /\ k = "resetColors"
        /\ k \notin {"formFile", "upload"} => e["logo"] = IF k = "remove" THEN 0 ELSE d["logo"]
        /\ k \notin {"form", "formFile"} => e["colors"] = IF k = "resetColors" THEN 0 ELSE d["colors"]
    BY DEF NewSection
  <1>2. DOMAIN e = {"logo", "colors"}
    BY <1>1, BrandingSection
  <1>3. a = CASE job'[r].kind = "upload" -> [logo |-> e.logo]
              [] job'[r].kind = "remove" -> [logo |-> 0]
              [] job'[r].kind = "form" -> [colors |-> e.colors]
              [] job'[r].kind = "resetColors" -> [colors |-> 0]
              [] OTHER -> e
    BY DEF Asked
  <1> HIDE DEF a, e, k, d
  <1>4. \A f \in Field : (IF f \in DOMAIN e THEN e[f] ELSE d[f]) = IF f \in DOMAIN a THEN a[f] ELSE d[f]
    <2>1. CASE job'[r].kind = "upload"
      <3>1. DOMAIN a = {"logo"} /\ a["logo"] = e["logo"] /\ e["colors"] = d["colors"]
        BY <1>1, <1>3, <2>1
      <3>2. QED
        BY <1>2, <3>1 DEF Field
    <2>2. CASE job'[r].kind = "remove"
      <3>1. DOMAIN a = {"logo"} /\ a["logo"] = 0 /\ e["logo"] = 0 /\ e["colors"] = d["colors"]
        BY <1>1, <1>3, <2>2
      <3>2. QED
        BY <1>2, <3>1 DEF Field
    <2>3. CASE job'[r].kind = "form"
      <3>1. DOMAIN a = {"colors"} /\ a["colors"] = e["colors"] /\ e["logo"] = d["logo"]
        BY <1>1, <1>3, <2>3
      <3>2. QED
        BY <1>2, <3>1 DEF Field
    <2>4. CASE job'[r].kind = "resetColors"
      <3>1. DOMAIN a = {"colors"} /\ a["colors"] = 0 /\ e["colors"] = 0 /\ e["logo"] = d["logo"]
        BY <1>1, <1>3, <2>4
      <3>2. QED
        BY <1>2, <3>1 DEF Field
    <2>5. CASE job'[r].kind \notin {"upload", "remove", "form", "resetColors"}
      <3>1. a = e
        BY <1>3, <2>5
      <3>2. QED
        BY <3>1
    <2>6. QED
      BY <2>1, <2>2, <2>3, <2>4, <2>5
  <1>5. Overlay(d, e) = Overlay(d, a)
    BY <1>4, SameOverlay
  <1>6. Overlay(expected', job'[r].edit) = Overlay(expected', Asked(r)')
    BY <1>5 DEF d, e, a
  <1>7. QED
    BY <1>1, <1>6 DEF SavesItsEdit

LEMMA RequestComposes ==
    ASSUME TypeOK, SoloInv, Composed, NEW r \in Req, RequestStep(r)
    PROVE  Composed'
  <1> SUFFICES ASSUME ~overlap', ~cut' PROVE ComposedHere'
    BY ComposedIs
  <1> DEFINE Promised == \A q \in Req : job[q].key = "slug" => SavesItsEdit(q)
             Kept == \A q \in Req : job'[q].key = "slug" => SavesItsEdit(q)'
  <1>0. OneAtATime /\ RowTakenAway
    BY DEF SoloInv
  <1>a. ~overlap /\ ~cut => Current /\ Promised
    BY ComposedIs DEF ComposedHere
  <1>k. Current' /\ Kept => ComposedHere'
    BY DEF ComposedHere
  <1>i. Idle.pc = "idle"
    BY DEF Idle
  <1> HIDE DEF Promised, Kept
  <1>p. ASSUME Promised, UNCHANGED expected, OnlyJob(r), job'[r].key = "slug" => SavesItsEdit(r)'
        PROVE  Kept
    BY <1>p, OnePromise DEF Promised, Kept
  <1>1. ASSUME NEW j, Begins(r, j) PROVE ComposedHere'
    <2>1. /\ OnlyJob(r) /\ job'[r] = j /\ job[r].pc = "idle" /\ ~overlap /\ ~cut
          /\ UNCHANGED active /\ UNCHANGED expected
      BY <1>1, BegunEffect DEF storage
    <2>2. Current'
      BY <1>a, <2>1, StillCurrent DEF Replacing
    <2>3. SavesItsEdit(r)'
      <3>1. CASE j.pc = "load"
        BY <2>1, <3>1, NoPromise
      <3>2. CASE j.pc = "read" /\ j.kind \in {"save", "reset"}
        <4>1. Asked(r)' = job'[r].edit
          BY <2>1, <3>2 DEF Asked
        <4>2. QED
          BY <2>1, <3>2, <4>1 DEF SavesItsEdit
      <3>3. QED
        BY <1>1, <3>1, <3>2 DEF Begins
    <2>4. QED
      BY <1>a, <1>k, <1>p, <2>1, <2>2, <2>3
  <1>2. ASSUME NEW c \in 0..1, LoadBranding(r, c) PROVE ComposedHere'
    <2>1. /\ OnlyJob(r) /\ job[r].pc = "load" /\ job[r].key = "slug" /\ job[r].kind \in BrandingKind
          /\ ~overlap /\ ~cut
          /\ UNCHANGED active /\ UNCHANGED expected
          /\ job'[r] = Idle \/ NewSection(r)
      BY <1>2, LoadEffect DEF history
    <2>2. Current'
      BY <1>a, <2>1, StillCurrent DEF Replacing
    <2>3. LoadOverrides("slug") = expected
      BY <1>0, <1>a, <2>1, AloneFinds
    <2>4. SavesItsEdit(r)'
      <3>1. CASE job'[r] = Idle
        BY <1>i, <3>1, NoPromise
      <3>2. CASE NewSection(r)
        BY <2>1, <2>3, <3>2, LoadedPromise
      <3>3. QED
        BY <2>1, <3>1, <3>2
    <2>5. QED
      BY <1>a, <1>k, <1>p, <2>1, <2>2, <2>4
  <1>3. CASE ReadActive(r)
    <2>1. /\ job[r].pc = "read" /\ OnlyJob(r)
          /\ job'[r].kind = job[r].kind /\ job'[r].key = job[r].key /\ job'[r].edit = job[r].edit
          /\ \/ job'[r].pc = "publish"
             \/ /\ job'[r].pc = "deactivate"
                /\ job'[r].write = Overlay(LoadOverrides(job[r].key), job[r].edit)
          /\ ~overlap /\ ~cut /\ UNCHANGED active /\ UNCHANGED expected
      BY <1>3, ReadEffect DEF history, storage
    <2>2. Current'
      BY <1>a, <2>1, StillCurrent DEF Replacing
    <2>3. ASSUME job'[r].key = "slug" PROVE SavesItsEdit(r)'
      <3>1. CASE job'[r].pc = "publish"
        BY <3>1, NoPromise
      <3>2. CASE job'[r].pc = "deactivate" /\ job'[r].write = Overlay(LoadOverrides(job[r].key), job[r].edit)
        <4>1. job[r].key = "slug" /\ SavesItsEdit(r)
          BY <1>a, <2>1, <2>3 DEF Promised
        <4>2. LoadOverrides("slug") = expected
          BY <1>0, <1>a, <2>1, <4>1, AloneFinds
        <4>3. Asked(r)' = Asked(r)
          BY <2>1 DEF Asked
        <4>4. job'[r].write = Overlay(expected', Asked(r)')
          BY <2>1, <3>2, <4>1, <4>2, <4>3 DEF SavesItsEdit
        <4>5. QED
          BY <3>2, <4>4 DEF SavesItsEdit
      <3>3. QED
        BY <2>1, <3>1, <3>2
    <2>4. QED
      BY <1>a, <1>k, <1>p, <2>1, <2>2, <2>3
  <1>4. CASE Deactivate(r)
    <2>1. /\ job[r].pc = "deactivate" /\ OnlyJob(r) /\ SameRest(r)
          /\ job'[r].pc = "latest" /\ job'[r].hit = (active[job[r].key] # NoDoc)
          /\ active'[job[r].key] = NoDoc /\ \A k \in Key : k # job[r].key => active'[k] = active[k]
          /\ ~overlap /\ ~cut /\ UNCHANGED expected
      BY <1>4, DeactivateEffect DEF history
    <2>2. CASE job[r].key = "slug"
      <3>1. LoadOverrides("slug") = expected /\ SavesItsEdit(r)
        BY <1>0, <1>a, <2>1, <2>2, AloneFinds DEF Promised
      <3>2. Current'
        <4>1. CASE active["slug"] # NoDoc
          <5>1. Replacing(job'[r])
            BY <2>1, <2>2, <4>1 DEF Replacing, SameRest
          <5>2. QED
            BY <5>1 DEF Current
        <4>2. CASE active["slug"] = NoDoc
          <5>1. active'["slug"] = active["slug"]
            BY <2>1, <2>2, <4>2
          <5>2. QED
            BY <2>1, <3>1, <5>1, SameDocument DEF Current
        <4>3. QED
          BY <4>1, <4>2
      <3>3. ~job'[r].hit => expected = Empty
        BY <2>1, <2>2, <3>1 DEF LoadOverrides
      <3>4. Asked(r)' = Asked(r)
        BY <2>1 DEF Asked, SameRest
      <3>5. SavesItsEdit(r)'
        BY <2>1, <3>1, <3>3, <3>4 DEF SavesItsEdit, SameRest
      <3>6. QED
        BY <1>a, <1>k, <1>p, <2>1, <3>2, <3>5
    <2>3. CASE job[r].key = "id"
      <3>1. active'["slug"] = active["slug"] /\ job'[r].key = "id"
        BY <2>1, <2>3 DEF Key, SameRest
      <3>2. Current'
        BY <1>a, <2>1, <2>3, <3>1, StillCurrent DEF Replacing
      <3>3. QED
        BY <1>a, <1>k, <1>p, <2>1, <3>1, <3>2
    <2>4. QED
      BY <2>2, <2>3, JobFields DEF Key
  <1>5. CASE FindLatest(r)
    <2>1. /\ job[r].pc = "latest" /\ OnlyJob(r) /\ SameRest(r)
          /\ \/ job'[r].pc = "create" /\ job'[r].hit = job[r].hit
             \/ job'[r].pc = "deactivate" /\ ~job[r].hit
          /\ ~overlap /\ ~cut /\ UNCHANGED active /\ UNCHANGED expected
      BY <1>5, LatestEffect DEF history, storage
    <2>2. Current'
      BY <1>a, <2>1, StillCurrent DEF Replacing, SameRest
    <2>3. ASSUME job'[r].key = "slug" PROVE SavesItsEdit(r)'
      <3>1. SavesItsEdit(r)
        BY <1>a, <2>1, <2>3 DEF Promised, SameRest
      <3>2. QED
        BY <2>1, <3>1, KeepsPromise DEF SameRest
    <2>4. QED
      BY <1>a, <1>k, <1>p, <2>1, <2>2, <2>3
  <1>6. CASE CreateRow(r)
    <2>1. /\ job[r].pc = "create" /\ OnlyJob(r)
          /\ active' \in [Key -> Doc \cup {NoDoc}] /\ active'[job[r].key] = job[r].write
          /\ \A k \in Key : k # job[r].key => active'[k] = active[k]
          /\ \/ /\ job[r].key = "slug" /\ job'[r].pc = "publish"
                /\ expected' = Overlay(expected, Asked(r))
             \/ job[r].key = "id" /\ job'[r] = Idle /\ UNCHANGED expected
          /\ ~overlap /\ ~cut
      BY <1>6, CreateEffect
    <2>2. CASE job[r].key = "slug"
      <3>1. expected' = Overlay(expected, Asked(r)) /\ job'[r].pc = "publish"
        BY <2>1, <2>2
      <3>2. job[r].write = Overlay(expected, Asked(r)) /\ job[r].write \in Doc
        BY <1>a, <2>1, <2>2, JobFields DEF Promised, SavesItsEdit
      <3>3. Current'
        BY <2>1, <2>2, <3>1, <3>2, StartAssumption DEF Current, LoadOverrides
      <3>4. ASSUME NEW q \in Req, job'[q].key = "slug" PROVE SavesItsEdit(q)'
        <4>1. CASE q = r
          BY <3>1, <4>1, NoPromise
        <4>2. CASE q # r
          <5>1. job'[q].pc = "idle"
            BY <1>0, <2>1, <2>2, <3>4, <4>2 DEF OneAtATime, OnlyJob
          <5>2. QED
            BY <5>1, NoPromise
        <4>3. QED
          BY <4>1, <4>2
      <3>5. QED
        BY <1>k, <3>3, <3>4 DEF Kept
    <2>3. CASE job[r].key = "id"
      <3>1. active'["slug"] = active["slug"] /\ job'[r] = Idle /\ UNCHANGED expected
        BY <2>1, <2>3 DEF Key
      <3>2. Current'
        BY <1>a, <2>1, <2>3, <3>1, StillCurrent DEF Replacing
      <3>3. SavesItsEdit(r)'
        BY <1>i, <3>1, NoPromise
      <3>4. QED
        BY <1>a, <1>k, <1>p, <2>1, <3>1, <3>2, <3>3
    <2>4. QED
      BY <2>1, <2>2, <2>3
  <1>7. CASE CreateRefused(r)
    <2>1. job[r].pc = "create" /\ active[job[r].key] # NoDoc /\ UNCHANGED overlap
      BY <1>7, RefusedEffect
    <2>2. QED
      BY <1>0, <2>1 DEF RowTakenAway
  <1>8. CASE PublishInvalidation(r)
    <2>1. /\ job[r].pc = "publish" /\ OnlyJob(r)
          /\ job'[r].pc = "cleanup" \/ job'[r] = Idle
          /\ ~overlap /\ ~cut /\ UNCHANGED active /\ UNCHANGED expected
      BY <1>8, PublishEffect DEF storage, history
    <2>2. Current'
      BY <1>a, <2>1, StillCurrent DEF Replacing
    <2>3. SavesItsEdit(r)'
      BY <1>i, <2>1, NoPromise
    <2>4. QED
      BY <1>a, <1>k, <1>p, <2>1, <2>2, <2>3
  <1>9. CASE DeleteOldFile(r)
    <2>1. /\ job[r].pc = "cleanup" /\ OnlyJob(r) /\ job'[r] = Idle
          /\ ~overlap /\ ~cut /\ UNCHANGED active /\ UNCHANGED expected
      BY <1>9, DeleteEffect DEF history
    <2>2. Current'
      BY <1>a, <2>1, StillCurrent DEF Replacing
    <2>3. SavesItsEdit(r)'
      BY <1>i, <2>1, NoPromise
    <2>4. QED
      BY <1>a, <1>k, <1>p, <2>1, <2>2, <2>3
  <1>10. QED
    BY <1>1, <1>2, <1>3, <1>4, <1>5, <1>6, <1>7, <1>8, <1>9 DEF RequestStep

LEMMA SameComposed ==
    ASSUME Composed, UNCHANGED <<active, job, expected, overlap, cut>>
    PROVE  Composed'
  <1>1. \A q \in Req : SavesItsEdit(q)' <=> SavesItsEdit(q)
    BY DEF SavesItsEdit, Asked
  <1>2. Current' <=> Current
    BY DEF Current, LoadOverrides
  <1>3. QED
    BY <1>1, <1>2, ComposedIs DEF ComposedHere

LEMMA NextComposed == TypeOK /\ SoloInv /\ Composed /\ [Next]_vars => Composed'
  <1> SUFFICES ASSUME TypeOK, SoloInv, Composed, [Next]_vars PROVE Composed'
    OBVIOUS
  <1>1. ASSUME NEW r \in Req, RequestStep(r) PROVE Composed'
    BY <1>1, RequestComposes
  <1>2. ASSUME NEW p \in Proc, ProcessStep(p) PROVE Composed'
    BY <1>2, ProcessTypes, SameComposed DEF storage, history
  <1>3. ASSUME NEW p \in Proc, Crash(p) PROVE Composed'
    <2>1. /\ UNCHANGED <<storage, expected, overlap>>
          /\ job' \in [Req -> Request] /\ (cut' <=> cut \/ Dead(p) # {})
          /\ \A r \in Req : job'[r] = IF r \in Dead(p) THEN Idle ELSE job[r]
          /\ cut' \in BOOLEAN
      BY <1>3, CrashEffect
    <2>2. CASE Dead(p) = {}
      <3>1. job \in [Req -> Request] /\ \A r \in Req : job'[r] = job[r]
        BY <2>1, <2>2, TypesTogether DEF JobsOK
      <3>2. UNCHANGED job
        BY <2>1, <3>1
      <3>3. UNCHANGED cut
        BY <2>1, <2>2, TypesTogether DEF FlagsOK
      <3>4. QED
        BY <2>1, <3>2, <3>3, SameComposed DEF storage
    <2>3. CASE Dead(p) # {}
      BY <2>1, <2>3, ComposedIs
    <2>4. QED
      BY <2>2, <2>3
  <1>4. CASE UNCHANGED vars
    BY <1>4, SameComposed DEF vars, storage, history
  <1>5. QED
    BY <1>1, <1>2, <1>3, <1>4, Steps

LEMMA InitComposed == Init => Composed
  <1> SUFFICES ASSUME Init PROVE Composed
    OBVIOUS
  <1>1. LoadOverrides("slug") = expected
    BY DEF Init, LoadOverrides
  <1>2. \A r \in Req : SavesItsEdit(r)
    BY DEF Init, SavesItsEdit, Idle
  <1>3. QED
    BY <1>1, <1>2, ComposedIs DEF ComposedHere, Current

LEMMA ComposedSaves == Composed => SavesCompose
  BY DEF Composed, SavesCompose, Saving

\* "Carry forward existing whitelisted sections" (saveOverrides): requests that did
\* not overlap leave the document that their edits make one after another; the other
\* section, and the other fields of branding, are kept.
THEOREM SavesKeepTheRest == Spec => []SavesCompose
  BY TenantTypes, InitSolo, NextSolo, InitComposed, NextComposed, ComposedSaves, PTL
     DEF Spec, SoloInv

-----------------------------------------------------------------------------
(* The logos in use are in the storage.                                    *)

Stocked(x) == x \in files \cup {0}

DocLogo == Stocked(LoadOverrides("slug")["logo"])
HeldLogos == \A p \in Proc : \A d \in HeldDocs(p) : ~Told(p) => Stocked(d["logo"])
AllSpare == \A r \in Req : SparesItsLogo(r)

LEMMA LogosAre ==
    /\ LogosKept <=> (~overlap => DocLogo /\ HeldLogos /\ AllSpare)
    /\ LogosKept' <=> (~overlap' => DocLogo' /\ HeldLogos' /\ AllSpare')
  BY DEF LogosKept, DocLogo, HeldLogos, AllSpare, Stocked

LEMMA HeldLogosStill ==
    ASSUME HeldLogos, HeldStep, DocLogo, files \subseteq files'
    PROVE  HeldLogos'
  BY DEF HeldLogos, HeldStep, DocLogo, Stocked

LEMMA DocLogoStill ==
    ASSUME DocLogo, active'["slug"] = active["slug"], files \subseteq files'
    PROVE  DocLogo'
  BY SameDocument DEF DocLogo, Stocked

LEMMA SparesStill ==
    ASSUME NEW q \in Req, SparesItsLogo(q), job'[q] = job[q],
           job[q].key = "slug" /\ job[q].pc # "idle" =>
               files \subseteq files' /\ LoadOverrides("slug")' = LoadOverrides("slug")
    PROVE  SparesItsLogo(q)'
  BY DEF SparesItsLogo

LEMMA IdleSpares ==
    ASSUME NEW q \in Req, job'[q] = Idle
    PROVE  SparesItsLogo(q)'
  BY DEF SparesItsLogo, Idle

\* Nobody else works on the document of r.
LEMMA OthersSpare ==
    ASSUME OneAtATime, ~overlap, AllSpare, NEW r \in Req, OnlyJob(r), SparesItsLogo(r)',
           \/ job[r].key = "slug" /\ job[r].pc # "idle"
           \/ files \subseteq files' /\ LoadOverrides("slug")' = LoadOverrides("slug")
    PROVE  AllSpare'
  <1>1. ASSUME NEW q \in Req \ {r} PROVE SparesItsLogo(q)'
    <2>1. job'[q] = job[q] /\ SparesItsLogo(q)
      BY DEF OnlyJob, AllSpare
    <2>2. job[q].key = "slug" /\ job[q].pc # "idle" =>
              files \subseteq files' /\ LoadOverrides("slug")' = LoadOverrides("slug")
      BY DEF OneAtATime
    <2>3. QED
      BY <2>1, <2>2, SparesStill
  <1>2. QED
    BY <1>1 DEF AllSpare

\* What a branding request saves names a logo in the storage, not the one it replaces.
LEMMA LoadedSpares ==
    ASSUME TypeOK, NEW r \in Req, DocLogo, job[r].kind \in BrandingKind, NewSection(r),
           files \subseteq files'
    PROVE  SparesItsLogo(r)'
  <1> DEFINE l == LoadOverrides("slug")["logo"]
             e == job'[r].edit
             k == job[r].kind
             o == job'[r].old
  <1>1. /\ job'[r].pc = "read" /\ job'[r].key = "slug" /\ e \in SectionDoc("branding")
        /\ \/ job'[r].kind = k
           \/ job'[r].kind = "reset" /\ k = "resetColors"
        /\ k \in {"formFile", "upload"} => e["logo"] = made + 1 /\ made + 1 \in files' /\ o = l
        /\ k \notin {"formFile", "upload"} =>
            e["logo"] = (IF k = "remove" THEN 0 ELSE l) /\ o = (IF k = "remove" THEN l ELSE 0)
    BY DEF NewSection
  <1>2. "logo" \in DOMAIN e
    BY <1>1, BrandingSection
  <1>3. l \in files \cup {0} /\ l # made + 1
    <2>1. l \in files \cup {0}
      BY DEF DocLogo, Stocked
    <2>2. files \subseteq 1..made /\ made \in Nat
      BY TenantAssumption DEF TypeOK
    <2> HIDE DEF l
    <2>3. QED
      BY <2>1, <2>2
  <1> DEFINE m == made + 1
  <1> HIDE DEF m, l, e, k, o
  <1>4. e["logo"] \in files' \cup {0} /\ (o # 0 => e["logo"] # o)
    BY <1>1, <1>3 DEF m
  <1>5. job'[r].kind = "reset" => o = 0
    BY <1>1 DEF BrandingKind, k
  <1>6. job'[r].edit["logo"] \in files' \cup {0} /\ (job'[r].old # 0 => job'[r].edit["logo"] # job'[r].old)
    BY <1>4 DEF e, o
  <1>7. job'[r].kind = "reset" => job'[r].old = 0
    BY <1>5 DEF o
  <1>8. "logo" \in DOMAIN job'[r].edit
    BY <1>2 DEF e
  <1>9. QED
    BY <1>1, <1>6, <1>7, <1>8 DEF SparesItsLogo

LEMMA RequestKeepsLogos ==
    ASSUME TypeOK, SoloInv, DocsFresh, LogosKept, NEW r \in Req, RequestStep(r)
    PROVE  LogosKept'
  <1> SUFFICES ASSUME ~overlap' PROVE DocLogo' /\ HeldLogos' /\ AllSpare'
    BY LogosAre
  <1>0. OneAtATime /\ RowTakenAway
    BY DEF SoloInv
  <1>a. ~overlap => DocLogo /\ HeldLogos /\ AllSpare
    BY LogosAre
  <1>h. ASSUME UNCHANGED caches, DocLogo, HeldLogos, files \subseteq files' PROVE HeldLogos'
    BY <1>h, HeldLogosStill, CachesAlone
  <1>1. ASSUME NEW j, Begins(r, j) PROVE DocLogo' /\ HeldLogos' /\ AllSpare'
    <2>1. /\ OnlyJob(r) /\ job'[r] = j /\ ~overlap
          /\ UNCHANGED active /\ UNCHANGED files /\ UNCHANGED caches
      BY <1>1, BegunEffect DEF storage
    <2>2. SparesItsLogo(r)'
      BY <1>1, <2>1 DEF Begins, SparesItsLogo
    <2>3. AllSpare'
      BY <1>0, <1>a, <2>1, <2>2, OthersSpare, SameDocument
    <2>4. QED
      BY <1>a, <1>h, <2>1, <2>3, DocLogoStill
  <1>2. ASSUME NEW c \in 0..1, LoadBranding(r, c) PROVE DocLogo' /\ HeldLogos' /\ AllSpare'
    <2>1. /\ OnlyJob(r) /\ job[r].kind \in BrandingKind /\ ~overlap
          /\ UNCHANGED active /\ files \subseteq files' /\ UNCHANGED caches
          /\ job'[r] = Idle \/ NewSection(r)
      BY <1>2, LoadEffect DEF history
    <2>2. SparesItsLogo(r)'
      BY <1>a, <2>1, IdleSpares, LoadedSpares
    <2>3. AllSpare'
      BY <1>0, <1>a, <2>1, <2>2, OthersSpare, SameDocument
    <2>4. QED
      BY <1>a, <1>h, <2>1, <2>3, DocLogoStill
  <1>3. CASE ReadActive(r)
    <2>1. /\ job[r].pc = "read" /\ OnlyJob(r)
          /\ job'[r].kind = job[r].kind /\ job'[r].key = job[r].key /\ job'[r].old = job[r].old
          /\ \/ job'[r].pc = "publish" /\ job[r].kind = "reset"
             \/ /\ job'[r].pc = "deactivate"
                /\ job'[r].write = Overlay(LoadOverrides(job[r].key), job[r].edit)
          /\ ~overlap /\ UNCHANGED active /\ UNCHANGED files /\ UNCHANGED caches
      BY <1>3, ReadEffect DEF history, storage
    <2>2. SparesItsLogo(r)
      BY <1>a, <2>1 DEF AllSpare
    <2>3. SparesItsLogo(r)'
      <3>1. CASE job'[r].pc = "publish" /\ job[r].kind = "reset"
        BY <2>1, <2>2, <3>1 DEF SparesItsLogo
      <3>2. CASE job'[r].pc = "deactivate" /\ job'[r].write = Overlay(LoadOverrides(job[r].key), job[r].edit)
        <4>1. ASSUME job[r].key = "slug"
              PROVE  job'[r].write["logo"] \in (files' \cup {0}) \ ({job'[r].old} \ {0})
          <5> DEFINE d == LoadOverrides("slug")
                     e == job[r].edit
                     w == job'[r].write
          <5>1. d \in Doc /\ Overrides(e) /\ w = Overlay(d, e)
            BY <3>2, <4>1, LoadedDoc, EditOverrides, JobFields DEF Key
          <5>2. "logo" \in Field
            BY DEF Field
          <5>3. w["logo"] = IF "logo" \in DOMAIN e THEN e["logo"] ELSE d["logo"]
            BY <5>1, <5>2, OverlayDoc
          <5>4. /\ "logo" \in DOMAIN e => e["logo"] \in files \cup {0}
                /\ job[r].old # 0 => "logo" \in DOMAIN e /\ e["logo"] # job[r].old
            BY <2>1, <2>2, <4>1 DEF SparesItsLogo
          <5>5. d["logo"] \in files \cup {0}
            BY <1>a, <2>1 DEF DocLogo, Stocked
          <5> HIDE DEF d, e, w
          <5>6. w["logo"] \in (files' \cup {0}) \ ({job'[r].old} \ {0})
            BY <2>1, <5>3, <5>4, <5>5
          <5>7. QED
            BY <5>6 DEF w
        <4>2. QED
          BY <2>1, <2>2, <3>2, <4>1 DEF SparesItsLogo
      <3>3. QED
        BY <2>1, <3>1, <3>2
    <2>4. AllSpare'
      BY <1>0, <1>a, <2>1, <2>3, OthersSpare, SameDocument
    <2>5. QED
      BY <1>a, <1>h, <2>1, <2>4, DocLogoStill
  <1>4. CASE Deactivate(r)
    <2>1. /\ job[r].pc = "deactivate" /\ OnlyJob(r) /\ SameRest(r) /\ job'[r].pc = "latest"
          /\ active'[job[r].key] = NoDoc /\ \A k \in Key : k # job[r].key => active'[k] = active[k]
          /\ ~overlap /\ UNCHANGED files /\ UNCHANGED caches
      BY <1>4, DeactivateEffect DEF history
    <2>2. SparesItsLogo(r)'
      BY <1>a, <2>1 DEF AllSpare, SparesItsLogo, SameRest
    <2>3. CASE job[r].key = "slug"
      <3>1. LoadOverrides("slug")' = Empty
        BY <2>1, <2>3 DEF LoadOverrides
      <3>2. DocLogo'
        BY <3>1, EmptyDoc DEF DocLogo, Stocked, Field
      <3>3. AllSpare'
        BY <1>0, <1>a, <2>1, <2>2, <2>3, OthersSpare
      <3>4. QED
        BY <1>a, <1>h, <2>1, <3>2, <3>3
    <2>4. CASE job[r].key = "id"
      <3>1. active'["slug"] = active["slug"]
        BY <2>1, <2>4 DEF Key
      <3>2. AllSpare'
        BY <1>0, <1>a, <2>1, <2>2, <3>1, OthersSpare, SameDocument
      <3>3. QED
        BY <1>a, <1>h, <2>1, <3>1, <3>2, DocLogoStill
    <2>5. QED
      BY <2>3, <2>4, JobFields DEF Key
  <1>5. CASE FindLatest(r)
    <2>1. /\ job[r].pc = "latest" /\ OnlyJob(r) /\ SameRest(r) /\ job'[r].pc \in {"create", "deactivate"}
          /\ ~overlap /\ UNCHANGED active /\ UNCHANGED files /\ UNCHANGED caches
      BY <1>5, LatestEffect DEF history, storage
    <2>2. SparesItsLogo(r)'
      BY <1>a, <2>1 DEF AllSpare, SparesItsLogo, SameRest
    <2>3. AllSpare'
      BY <1>0, <1>a, <2>1, <2>2, OthersSpare, SameDocument
    <2>4. QED
      BY <1>a, <1>h, <2>1, <2>3, DocLogoStill
  <1>6. CASE CreateRow(r)
    <2>1. /\ job[r].pc = "create" /\ OnlyJob(r) /\ active'[job[r].key] = job[r].write
          /\ \A k \in Key : k # job[r].key => active'[k] = active[k]
          /\ \/ job[r].key = "slug" /\ job'[r].pc = "publish" /\ SameRest(r)
             \/ job[r].key = "id" /\ job'[r] = Idle
          /\ ~overlap /\ UNCHANGED files /\ UNCHANGED caches
      BY <1>6, CreateEffect
    <2>2. CASE job[r].key = "slug"
      <3>1. job[r].write \in Doc
        BY JobFields
      <3>2. LoadOverrides("slug")' = job[r].write
        BY <2>1, <2>2, <3>1, StartAssumption DEF LoadOverrides
      <3>3. job[r].write["logo"] \in (files \cup {0}) \ ({job[r].old} \ {0}) /\ SparesItsLogo(r)
        BY <1>a, <2>1, <2>2 DEF AllSpare, SparesItsLogo
      <3>4. DocLogo'
        BY <2>1, <3>2, <3>3 DEF DocLogo, Stocked
      <3>5. SparesItsLogo(r)'
        BY <2>1, <2>2, <3>2, <3>3 DEF SparesItsLogo, SameRest
      <3>6. AllSpare'
        BY <1>0, <1>a, <2>1, <2>2, <3>5, OthersSpare
      <3>7. QED
        BY <1>a, <1>h, <2>1, <3>4, <3>6
    <2>3. CASE job[r].key = "id"
      <3>1. active'["slug"] = active["slug"]
        BY <2>1, <2>3 DEF Key
      <3>2. SparesItsLogo(r)'
        BY <2>1, <2>3, IdleSpares
      <3>3. AllSpare'
        BY <1>0, <1>a, <2>1, <3>1, <3>2, OthersSpare, SameDocument
      <3>4. QED
        BY <1>a, <1>h, <2>1, <3>1, <3>3, DocLogoStill
    <2>4. QED
      BY <2>1, <2>2, <2>3
  <1>7. CASE CreateRefused(r)
    <2>1. job[r].pc = "create" /\ active[job[r].key] # NoDoc /\ UNCHANGED overlap
      BY <1>7, RefusedEffect
    <2>2. QED
      BY <1>0, <2>1 DEF RowTakenAway
  <1>8. CASE PublishInvalidation(r)
    <2>1. /\ job[r].pc = "publish" /\ OnlyJob(r)
          /\ \/ job'[r].pc = "cleanup" /\ SameRest(r)
             \/ job'[r] = Idle
          /\ \E Q \in SUBSET (Proc \ {ProcOf[r]}) : InvalidateAndPublish(ProcOf[r], Q)
          /\ UNCHANGED <<platform, base, load, reloads>>
          /\ ~overlap /\ UNCHANGED active /\ UNCHANGED files
      BY <1>8, PublishEffect DEF storage, history
    <2>2. ProcOf[r] \in Proc
      BY TenantAssumption
    <2>3. HeldStep
      BY <2>1, <2>2, InvalidateSteps, EvictHeld
    <2>4. LoadOverrides("slug")' = LoadOverrides("slug")
      BY <2>1, SameDocument
    <2>5. SparesItsLogo(r)'
      BY <1>a, <2>1, <2>4, IdleSpares DEF AllSpare, SparesItsLogo, SameRest
    <2>6. AllSpare'
      BY <1>0, <1>a, <2>1, <2>4, <2>5, OthersSpare
    <2>7. QED
      BY <1>a, <2>1, <2>3, <2>6, DocLogoStill, HeldLogosStill
  <1>9. CASE DeleteOldFile(r)
    <2> DEFINE o == job[r].old
    <2>1. /\ OnlyJob(r) /\ job[r].pc = "cleanup" /\ job'[r] = Idle /\ files' = files \ {o}
          /\ ~overlap /\ UNCHANGED active /\ UNCHANGED caches
      BY <1>9, DeleteEffect DEF history
    <2>2. SparesItsLogo(r)'
      BY <2>1, IdleSpares
    <2>3. LoadOverrides("slug")' = LoadOverrides("slug") /\ DocLogo /\ HeldLogos /\ AllSpare
      BY <1>a, <2>1, SameDocument
    <2>4. CASE o = 0
      <3>1. 0 \notin files
        <4>1. files \subseteq 1..made
          BY DEF TypeOK
        <4>2. 0 \notin 1..made
          BY TenantAssumption DEF TypeOK
        <4>3. QED
          BY <4>1, <4>2
      <3>2. files \subseteq files'
        BY <2>1, <2>4, <3>1
      <3>3. AllSpare'
        BY <1>0, <2>1, <2>2, <2>3, <3>2, OthersSpare
      <3>4. QED
        BY <1>h, <2>1, <2>3, <3>2, <3>3, DocLogoStill
    <2>5. CASE o # 0
      <3>1. job[r].key = "slug" /\ LoadOverrides("slug")["logo"] # o
        <4>1. SparesItsLogo(r) /\ job[r].key \in Key
          BY <2>3, JobFields DEF AllSpare
        <4>2. QED
          BY <2>1, <2>5, <4>1 DEF SparesItsLogo, Key
      <3>2. ~Unannounced
        BY <1>0, <2>1, <3>1 DEF OneAtATime, Unannounced
      <3>3. AllSpare'
        BY <1>0, <2>1, <2>2, <2>3, <3>1, OthersSpare
      <3>4. DocLogo'
        BY <2>1, <2>3, <3>1 DEF DocLogo, Stocked
      <3>5. HeldLogos'
        <4>1. \A p \in Proc : HeldDocs(p)' = HeldDocs(p) /\ Told(p)' = Told(p)
          BY <2>1 DEF caches, HeldDocs, Told
        <4>2. \A p \in Proc : \A d \in HeldDocs(p) : ~Told(p) => d = LoadOverrides("slug")
          BY <3>2 DEF DocsFresh
        <4>3. Stocked(LoadOverrides("slug")["logo"])'
          BY <3>4 DEF DocLogo
        <4>4. LoadOverrides("slug")["logo"] \in files' \cup {0}
          BY <2>3, <4>3 DEF Stocked
        <4>5. QED
          BY <4>1, <4>2, <4>4 DEF HeldLogos, Stocked
      <3>6. QED
        BY <3>3, <3>4, <3>5
    <2>6. QED
      BY <2>4, <2>5
  <1>10. QED
    BY <1>1, <1>2, <1>3, <1>4, <1>5, <1>6, <1>7, <1>8, <1>9 DEF RequestStep

LEMMA NextLogos == TypeOK /\ SoloInv /\ DocsFresh /\ LogosKept /\ [Next]_vars => LogosKept'
  <1> SUFFICES ASSUME TypeOK, SoloInv, DocsFresh, LogosKept, [Next]_vars PROVE LogosKept'
    OBVIOUS
  <1>a. ~overlap => DocLogo /\ HeldLogos /\ AllSpare
    BY LogosAre
  <1>1. ASSUME NEW r \in Req, RequestStep(r) PROVE LogosKept'
    BY <1>1, RequestKeepsLogos
  <1>2. ASSUME HeldStep, UNCHANGED <<active, files, overlap>>,
               \A q \in Req : job'[q] = job[q] \/ job'[q] = Idle
        PROVE  LogosKept'
    <2>1. AllSpare => AllSpare'
      BY <1>2, SparesStill, IdleSpares, SameDocument DEF AllSpare
    <2>2. QED
      BY <1>2, <1>a, <2>1, LogosAre, HeldLogosStill, DocLogoStill
  <1>3. ASSUME NEW p \in Proc, ProcessStep(p) PROVE LogosKept'
    BY <1>2, <1>3, ProcessTypes, ProcessHeld DEF storage, history
  <1>4. ASSUME NEW p \in Proc, Crash(p) PROVE LogosKept'
    <2>1. UNCHANGED <<storage, overlap>> /\ \A q \in Req : job'[q] = job[q] \/ job'[q] = Idle
      BY <1>4, CrashEffect
    <2>2. QED
      BY <1>2, <1>4, <2>1, CrashHeld DEF storage
  <1>5. CASE UNCHANGED vars
    BY <1>2, <1>5, CachesAlone DEF vars, storage, history
  <1>6. QED
    BY <1>1, <1>3, <1>4, <1>5, Steps

LEMMA InitLogos == Init => LogosKept
  <1> SUFFICES ASSUME Init PROVE DocLogo /\ HeldLogos /\ AllSpare
    BY LogosAre
  <1>1. HeldLogos
    BY DEF Init, NoLoad, HeldLogos, HeldDocs
  <1>2. AllSpare
    BY DEF Init, AllSpare, SparesItsLogo, Idle
  <1>3. DocLogo
    <2>1. PICK d \in StartDoc :
            /\ active = [slug |-> d, id |-> NoDoc]
            /\ made = IF d = NoDoc THEN 0 ELSE d.logo
      BY DEF Init
    <2>2. CASE d = NoDoc
      BY <2>1, <2>2, EmptyDoc DEF DocLogo, Stocked, LoadOverrides, Field
    <2>3. CASE d # NoDoc
      <3>1. d \in Doc
        BY <2>3, StartAssumption
      <3>2. d["logo"] \in {0} \cup File
        BY <3>1, DocFields
      <3>3. \A x \in File : x \in 1..x
        BY TenantAssumption DEF File
      <3>4. LoadOverrides("slug") = d /\ files = 1..d["logo"]
        BY <2>1, <2>3 DEF LoadOverrides, Init
      <3>5. QED
        BY <3>2, <3>3, <3>4 DEF DocLogo, Stocked
    <2>4. QED
      BY <2>2, <2>3
  <1>4. QED
    BY <1>1, <1>2, <1>3

LEMMA KeptIsBacked == LogosKept => LogoBacked
  <1> SUFFICES ASSUME LogosKept, ~overlap PROVE
               /\ LoadOverrides("slug").logo \in files \cup {0}
               /\ \A p \in Proc : (tcfg[p] # NoConfig /\ ~missed[p] /\ inbox[p] = <<>>) =>
                    tcfg[p].doc.logo \in files \cup {0}
    BY DEF LogoBacked
  <1>1. ASSUME NEW p \in Proc, tcfg[p] # NoConfig, ~missed[p], inbox[p] = <<>>
        PROVE  tcfg[p].doc.logo \in files \cup {0}
    BY <1>1 DEF LogosKept, HeldDocs, Told
  <1>2. QED
    BY <1>1 DEF LogosKept

\* A logo that the document names, or that the entry of a process told of every change
\* names, is in the storage as long as no two requests overlapped: the old file goes
\* only after the document and the entries that named it (_deleteFileBestEffort comes
\* last), and a failed save takes back only its own.  A process that the event does not
\* reach (missed) goes on serving the name of a deleted file.
THEOREM LogosBacked == Spec => []LogoBacked
  BY TenantTypes, InitSolo, NextSolo, InitFresh, NextFresh, InitLogos, NextLogos, KeptIsBacked, PTL
     DEF Spec, FreshInv
=============================================================================
