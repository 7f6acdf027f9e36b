------------------------- MODULE ConfigUpdateProofs -------------------------
(***************************************************************************)
(* Proofs about ConfigUpdate, for any writers, processes, reloads and      *)
(* attempts, and any of them failing: types; the protocol of claim and     *)
(* insertion, by which versions grow, a configuration is there to load and *)
(* a save that knows its version loses no edit, as long as no save inserts *)
(* in the hand-off of another; and the caches: what a process is told of   *)
(* it installs, and its saves never move it back.                          *)
(***************************************************************************)
EXTENDS ConfigUpdate, FiniteSetTheorems, WellFoundedInduction, TLAPS

Number == Version \cup {NoVersion}
Attempt == 0..MaxAttempts
SaveAttempt == 0..SaveMaxAttempts - 1
Rows == SUBSET Rev
WriterType == [pc: WriterPc, exp: Number, seen: Rev, base: Rev, cur: Number,
               latest: Number, claimed: BOOLEAN, attempt: Attempt, saves: SaveAttempt,
               prev: Rev, old: Rows]
ReloadType == [pc: ReloadPc, poll: BOOLEAN, prev: Rev, got: Rev]

\* The numbers behind the constants.
LEMMA Constants ==
    /\ IsFiniteSet(Rev) /\ Cardinality(Writer) \in Nat /\ IsFiniteSet(Writer)
    /\ \A S \in SUBSET Rev : IsFiniteSet(S) /\ Cardinality(S) \in Nat
    /\ \A S \in SUBSET Writer : IsFiniteSet(S) /\ Cardinality(S) \in Nat
                                /\ Cardinality(S) <= Cardinality(Writer)
    /\ Version = 1..(Cardinality(Writer) + 1) /\ NoVersion \notin Version /\ Version \subseteq Nat
    /\ NoVersion = 0 /\ 1 \in Version /\ Genesis \in Rev /\ Writer \subseteq Rev
    /\ MaxAttempts \in Nat \ {0} /\ SaveMaxAttempts \in Nat \ {0} /\ KeepCount \in Nat \ {0}
<1>1. IsFiniteSet(Writer) /\ Cardinality(Writer) \in Nat
  BY RevisionAssumption, FS_CardinalityType
<1>2. IsFiniteSet(Rev)
  BY <1>1, FS_AddElement DEF Rev
<1>3. \A S \in SUBSET Rev : IsFiniteSet(S) /\ Cardinality(S) \in Nat
  BY <1>2, FS_Subset, FS_CardinalityType
<1>4. \A S \in SUBSET Writer : IsFiniteSet(S) /\ Cardinality(S) \in Nat
                               /\ Cardinality(S) <= Cardinality(Writer)
  BY <1>1, FS_Subset, FS_CardinalityType
<1>5. /\ Version = 1..(Cardinality(Writer) + 1) /\ NoVersion \notin Version /\ Version \subseteq Nat
      /\ NoVersion = 0 /\ 1 \in Version /\ Genesis \in Rev /\ Writer \subseteq Rev
  BY <1>1 DEF Version, NoVersion, Rev
<1> QED BY <1>1, <1>2, <1>3, <1>4, <1>5, RevisionAssumption, ConfigAssumption

\* A set of positive numbers up to n has a greatest one.
LEMMA GreatestExists ==
    ASSUME NEW n \in Nat, NEW T, T \subseteq 1..n, T # {}
    PROVE  \E x \in T : \A y \in T : y <= x
<1> DEFINE M == {n - x : x \in T}
<1>1. PICK z \in T : TRUE
  OBVIOUS
<1>2. M \subseteq Nat /\ n - z \in M
  BY <1>1
<1>3. \E x \in M : \A y \in M : ~(<<y, x>> \in OpToRel(<, Nat))
  <2>1. M # {}
    BY <1>2
  <2> HIDE DEF M
  <2> QED BY <1>2, <2>1, NatLessThanWellFounded, WFMin
<1>4. \E x \in M : \A y \in M : ~(y < x)
  BY <1>2, <1>3 DEF OpToRel
<1>5. PICK x \in T : \A y \in T : ~(n - y < n - x)
  BY <1>4
<1> QED BY <1>5

-----------------------------------------------------------------------------
(* The statements of the repository.                                       *)

\* findFirst by version returns the greatest one present.
LEMMA LatestIsGreatest ==
    ASSUME NEW t \in [Rev -> Revision], \A r \in Present(t) : t[r].ver # NoVersion
    PROVE  /\ Present(t) = {} => LatestVersion(t) = NoVersion
           /\ Present(t) # {} => /\ LatestVersion(t) \in Version
                                 /\ \E r \in Present(t) : t[r].ver = LatestVersion(t)
                                 /\ \A r \in Present(t) : t[r].ver <= LatestVersion(t)
<1>1. Present(t) = {} => LatestVersion(t) = NoVersion
  BY DEF LatestVersion
<1>2. ASSUME Present(t) # {}
      PROVE  \E v \in Version : /\ \E r \in Present(t) : t[r].ver = v
                                /\ \A r \in Present(t) : t[r].ver <= v
  <2> DEFINE T == {t[r].ver : r \in Present(t)}
  <2>1. \A r \in Present(t) : t[r].ver \in Version
    BY DEF Present, Revision
  <2>2. T \subseteq 1..(Cardinality(Writer) + 1) /\ T # {} /\ Cardinality(Writer) + 1 \in Nat
    BY <1>2, <2>1, Constants
  <2>3. \E x \in T : \A y \in T : y <= x
    <3> HIDE DEF T
    <3> QED BY <2>2, GreatestExists
  <2> QED BY <2>1, <2>3
<1> QED BY <1>1, <1>2 DEF LatestVersion

\* What updateMany writes: only the state of rows that were active.
LEMMA DeactivateFacts ==
    ASSUME NEW t \in [Rev -> Revision], NEW v
    PROVE  LET u == Deactivate(t, Claimed(t, v)) IN
           /\ u \in [Rev -> Revision]
           /\ \A r \in Rev : /\ u[r].ver = t[r].ver /\ u[r].content = t[r].content
                             /\ u[r].at = t[r].at
                             /\ (u[r].state = "gone" <=> t[r].state = "gone")
                             /\ (u[r].state = "active" <=>
                                    t[r].state = "active" /\ r \notin Claimed(t, v))
BY DEF Deactivate, Claimed, Active, Revision

\* What the cleanup writes.
LEMMA DeleteFacts ==
    ASSUME NEW t \in [Rev -> Revision], NEW D
    PROVE  LET u == DeleteRows(t, D) IN
           /\ u \in [Rev -> Revision]
           /\ \A r \in Rev : /\ u[r].ver = t[r].ver /\ u[r].content = t[r].content
                             /\ u[r].at = t[r].at
                             /\ u[r].state = IF r \in D THEN "gone" ELSE t[r].state
BY DEF DeleteRows, Revision

\* What create writes.
LEMMA CreateFacts ==
    ASSUME NEW t \in [Rev -> Revision], NEW h \in Writer, NEW v \in Version, NEW c \in SUBSET Writer
    PROVE  LET u == CreateRow(t, h, v, c) IN
           /\ u \in [Rev -> Revision]
           /\ u[h].ver = v /\ u[h].content = c /\ u[h].state = "active"
           /\ u[h].at = 1 + SavesSoFar(t) /\ SavesSoFar(t) \in Nat
           /\ \A r \in Rev \ {h} : u[r] = t[r]
<1>1. SavesSoFar(t) \in Nat
  BY Constants DEF SavesSoFar
<1>2. h \in Rev
  BY Constants
<1> QED BY <1>1, <1>2 DEF CreateRow, Revision

\* The initial table.
LEMMA InitialFacts ==
    /\ InitialRows \in [Rev -> Revision]
    /\ InitialRows[Genesis].state = "active" /\ InitialRows[Genesis].ver = 1
    /\ InitialRows[Genesis].content = {} /\ \A r \in Rev : InitialRows[r].at = 0
    /\ \A h \in Writer : InitialRows[h].state = "gone" /\ InitialRows[h].ver = NoVersion
BY Constants, RevisionAssumption DEF InitialRows, Revision, Rev

\* The active row, if there is one.
LEMMA ActiveFacts ==
    ASSUME NEW t \in [Rev -> Revision]
    PROVE  /\ Active(t) # {} => /\ ActiveRev(t) \in Active(t)
                                /\ ActiveVersion(t) = t[ActiveRev(t)].ver
                                /\ ActiveRev(t) \in Rev
           /\ Active(t) = {} => ActiveVersion(t) = NoVersion
           /\ ActiveVersion(t) \in Version \cup {NoVersion}
BY Constants DEF Active, ActiveRev, ActiveVersion, Revision

-----------------------------------------------------------------------------
(* What an action does to the writer that takes it.                        *)

Others(h) == \A g \in Writer : g # h => wr'[g] = wr[g]

KeptNumbers(h) ==
    /\ wr'[h].exp = wr[h].exp /\ wr'[h].cur = wr[h].cur /\ wr'[h].latest = wr[h].latest
    /\ wr'[h].claimed = wr[h].claimed /\ wr'[h].attempt = wr[h].attempt
    /\ wr'[h].saves = wr[h].saves
KeptSets(h) ==
    /\ wr'[h].seen = wr[h].seen /\ wr'[h].base = wr[h].base
    /\ wr'[h].prev = wr[h].prev /\ wr'[h].old = wr[h].old

\* The writer moves on with what it has.
OnlyPc(h) == Others(h) /\ KeptNumbers(h) /\ KeptSets(h)

LEMMA GoToEffect ==
    ASSUME TypeOK, NEW h \in Writer, NEW pc, GoTo(h, pc)
    PROVE  OnlyPc(h) /\ wr'[h].pc = pc
BY DEF TypeOK, GoTo, OnlyPc, Others, KeptNumbers, KeptSets

\* The actions that only move on.
LEMMA SubmitEffect ==
    ASSUME TypeOK, NEW h \in Writer, Submit(h)
    PROVE  /\ OnlyPc(h) /\ wr'[h].pc = "queued" /\ h \notin Boot
           /\ wr[h].pc = (IF h \in Form THEN "form" ELSE "idle")
           /\ UNCHANGED <<rows, cache, primed, stamp, inbox, rl>>
<1>1. GoTo(h, "queued") /\ h \notin Boot /\ UNCHANGED <<rows, view>>
      /\ wr[h].pc = (IF h \in Form THEN "form" ELSE "idle")
  BY DEF Submit
<1> QED BY <1>1, GoToEffect DEF view

LEMMA BootEffect ==
    ASSUME TypeOK, NEW h \in Writer, BootLoad(h) \/ BootFlush(h)
    PROVE  /\ OnlyPc(h) /\ UNCHANGED <<rows, queue>>
           /\ \/ BootLoad(h) /\ h \in Boot /\ wr[h].pc = "idle" /\ wr'[h].pc \in {"failed", "flush"}
              \/ BootFlush(h) /\ wr[h].pc = "flush" /\ wr'[h].pc \in {"check", "reread"}
<1>1. CASE BootLoad(h)
  <2>1. PICK pc \in {"failed", "flush"} : GoTo(h, pc)
    BY <1>1 DEF BootLoad
  <2> QED BY <1>1, <2>1, GoToEffect DEF BootLoad
<1>2. CASE BootFlush(h)
  <2>1. PICK pc \in {"check", "reread"} : GoTo(h, pc)
    BY <1>2 DEF BootFlush
  <2> QED BY <1>2, <2>1, GoToEffect DEF BootFlush
<1> QED BY <1>1, <1>2

LEMMA FailEffect ==
    ASSUME TypeOK, NEW h \in Writer, Fail(h)
    PROVE  OnlyPc(h) /\ wr'[h].pc = IF h \in Boot THEN "done" ELSE "failed"
BY GoToEffect DEF Fail

\* Whose query throws: a start, or a save that holds the lock.
LEMMA QueryFailsEffect ==
    ASSUME TypeOK, Booting, NEW h \in Writer, QueryFails(h)
    PROVE  /\ Fail(h) /\ OnlyPc(h) /\ h \in Failing /\ wr[h].pc \in Querying
           /\ wr'[h].pc = IF h \in Boot THEN "done" ELSE "failed"
           /\ h \notin Boot => AtWork(h)
           /\ UNCHANGED <<rows, primed, stamp, inbox, rl, past>>
BY FailEffect DEF QueryFails, Querying, Booting, AtWork

LEMMA ConflictEffect ==
    ASSUME TypeOK, NEW h \in Writer, Conflict(h)
    PROVE  /\ OnlyPc(h)
           /\ \/ /\ h \notin Form \cup Boot /\ wr[h].attempt < MaxAttempts
                 /\ wr'[h].pc = "queued" /\ UNCHANGED <<queue, cache>>
              \/ Fail(h) /\ wr'[h].pc = IF h \in Boot THEN "done" ELSE "failed"
BY GoToEffect, FailEffect DEF Conflict, Retries

LEMMA OpenFormEffect ==
    ASSUME TypeOK, NEW h \in Writer, OpenForm(h)
    PROVE  /\ Others(h) /\ wr'[h].pc = "form" /\ wr'[h].exp = ActiveVersion(rows)
           /\ wr'[h].seen = cache[ProcOf[h]] /\ wr'[h].seen \in Rev
           /\ wr'[h].cur = wr[h].cur /\ wr'[h].latest = wr[h].latest
           /\ wr'[h].claimed = wr[h].claimed /\ wr'[h].attempt = wr[h].attempt
           /\ wr'[h].saves = wr[h].saves
           /\ wr'[h].base = wr[h].base /\ wr'[h].prev = wr[h].prev /\ wr'[h].old = wr[h].old
<1>1. ProcOf[h] \in Proc
  BY ConfigAssumption
<1> DEFINE c == cache[ProcOf[h]]
           v == ActiveVersion(rows)
<1>2. c \in Rev
  BY <1>1 DEF TypeOK
<1>3. wr' = [wr EXCEPT ![h].pc = "form", ![h].exp = v, ![h].seen = c]
  BY DEF OpenForm
<1> HIDE DEF c, v
<1>4. /\ Others(h) /\ wr'[h].pc = "form" /\ wr'[h].exp = v
      /\ wr'[h].seen = c /\ wr'[h].seen \in Rev
      /\ wr'[h].cur = wr[h].cur /\ wr'[h].latest = wr[h].latest
      /\ wr'[h].claimed = wr[h].claimed /\ wr'[h].attempt = wr[h].attempt
      /\ wr'[h].saves = wr[h].saves
      /\ wr'[h].base = wr[h].base /\ wr'[h].prev = wr[h].prev /\ wr'[h].old = wr[h].old
  BY <1>2, <1>3 DEF TypeOK, Others
<1> QED BY <1>4 DEF v, c

LEMMA ReadVersionEffect ==
    ASSUME TypeOK, NEW h \in Writer, ReadVersion(h)
    PROVE  /\ wr[h].pc = "queued" /\ HoldsLock(h) /\ UNCHANGED <<rows, queue, cache, stamp, inbox, rl>>
           /\ Others(h) /\ wr'[h].pc = "load" /\ wr'[h].attempt = wr[h].attempt + 1
           /\ wr'[h].saves = 0 /\ wr'[h].prev \in Rev
           /\ wr'[h].prev = IF wr[h].attempt = 0 THEN cache[ProcOf[h]] ELSE wr[h].prev
           /\ wr'[h].exp = IF h \in Form THEN wr[h].exp ELSE ActiveVersion(rows)
           /\ wr'[h].cur = wr[h].cur /\ wr'[h].latest = wr[h].latest
           /\ wr'[h].claimed = wr[h].claimed /\ wr'[h].seen = wr[h].seen
           /\ wr'[h].base = wr[h].base /\ wr'[h].old = wr[h].old
<1>1. ProcOf[h] \in Proc
  BY ConfigAssumption
<1>2. cache[ProcOf[h]] \in Rev
  BY <1>1 DEF TypeOK
<1> DEFINE n == wr[h].attempt + 1
<1>3. wr' = [wr EXCEPT ![h].pc = "load", ![h].attempt = n, ![h].saves = 0,
                       ![h].exp = IF h \in Form THEN @ ELSE ActiveVersion(rows),
                       ![h].prev = IF wr[h].attempt = 0 THEN cache[ProcOf[h]] ELSE @]
  BY DEF ReadVersion
<1> HIDE DEF n
<1>4. /\ Others(h) /\ wr'[h].pc = "load" /\ wr'[h].attempt = n
      /\ wr'[h].saves = 0 /\ wr'[h].prev \in Rev
      /\ wr'[h].prev = IF wr[h].attempt = 0 THEN cache[ProcOf[h]] ELSE wr[h].prev
      /\ wr'[h].exp = IF h \in Form THEN wr[h].exp ELSE ActiveVersion(rows)
      /\ wr'[h].cur = wr[h].cur /\ wr'[h].latest = wr[h].latest
      /\ wr'[h].claimed = wr[h].claimed /\ wr'[h].seen = wr[h].seen
      /\ wr'[h].base = wr[h].base /\ wr'[h].old = wr[h].old
  BY <1>2, <1>3 DEF TypeOK, Others
<1>5. wr[h].pc = "queued" /\ HoldsLock(h) /\ UNCHANGED <<rows, queue, cache, stamp, inbox, rl>>
  BY DEF ReadVersion
<1> QED BY <1>4, <1>5 DEF n

LEMMA LoadEffect ==
    ASSUME TypeOK, NEW h \in Writer, Load(h)
    PROVE  \/ Active(rows) = {} /\ Fail(h)
           \/ /\ Active(rows) # {} /\ Others(h) /\ KeptNumbers(h)
              /\ wr'[h].pc = "check" /\ wr'[h].base = ActiveRev(rows)
              /\ wr'[h].seen = wr[h].seen /\ wr'[h].prev = wr[h].prev /\ wr'[h].old = wr[h].old
              /\ UNCHANGED <<queue, cache>>
BY DEF TypeOK, Load, Others, KeptNumbers

LEMMA CheckEffect ==
    ASSUME TypeOK, NEW h \in Writer, Check(h)
    PROVE  \/ /\ wr[h].exp \in {ActiveVersion(rows), NoVersion}
              /\ Others(h) /\ KeptSets(h)
              /\ wr'[h].pc = (IF Active(rows) = {} THEN "claim" ELSE "history")
              /\ wr'[h].cur = ActiveVersion(rows)
              /\ wr'[h].exp = wr[h].exp /\ wr'[h].latest = wr[h].latest
              /\ wr'[h].claimed = wr[h].claimed /\ wr'[h].attempt = wr[h].attempt
              /\ wr'[h].saves = wr[h].saves
              /\ UNCHANGED <<queue, cache>>
           \/ wr[h].exp \notin {ActiveVersion(rows), NoVersion} /\ Conflict(h)
BY DEF TypeOK, Check, Others, KeptSets

LEMMA ClaimEffect ==
    ASSUME TypeOK, NEW h \in Writer, Claim(h)
    PROVE  /\ Others(h) /\ KeptSets(h) /\ wr'[h].pc = "latest"
           /\ wr'[h].claimed = (Claimed(rows, wr[h].exp) # {})
           /\ wr'[h].exp = wr[h].exp /\ wr'[h].cur = wr[h].cur /\ wr'[h].latest = wr[h].latest
           /\ wr'[h].attempt = wr[h].attempt /\ wr'[h].saves = wr[h].saves
<1> DEFINE c == Claimed(rows, wr[h].exp) # {}
<1>1. wr' = [wr EXCEPT ![h].pc = "latest", ![h].claimed = c]
  BY DEF Claim
<1> HIDE DEF c
<1>2. /\ Others(h) /\ KeptSets(h) /\ wr'[h].pc = "latest" /\ wr'[h].claimed = c
      /\ wr'[h].exp = wr[h].exp /\ wr'[h].cur = wr[h].cur /\ wr'[h].latest = wr[h].latest
      /\ wr'[h].attempt = wr[h].attempt /\ wr'[h].saves = wr[h].saves
  BY <1>1 DEF TypeOK, Others, KeptSets
<1> QED BY <1>2 DEF c

\* Another attempt of save().
AnotherSave(h) ==
    /\ ~LastSave(h) /\ Others(h) /\ KeptSets(h)
    /\ wr'[h].pc = "claim" /\ wr'[h].saves = wr[h].saves + 1
    /\ wr'[h].exp = wr[h].exp /\ wr'[h].cur = wr[h].cur /\ wr'[h].latest = wr[h].latest
    /\ wr'[h].claimed = wr[h].claimed /\ wr'[h].attempt = wr[h].attempt
    /\ UNCHANGED <<queue, cache>>

LEMMA AnotherSaveEffect ==
    ASSUME TypeOK, NEW h \in Writer, ~LastSave(h), UNCHANGED <<queue, cache>>,
           wr' = [wr EXCEPT ![h].pc = "claim", ![h].saves = @ + 1]
    PROVE  AnotherSave(h)
<1> DEFINE n == wr[h].saves + 1
<1>1. wr' = [wr EXCEPT ![h].pc = "claim", ![h].saves = n]
  BY DEF TypeOK
<1> HIDE DEF n
<1>2. /\ Others(h) /\ KeptSets(h) /\ wr'[h].pc = "claim" /\ wr'[h].saves = n
      /\ wr'[h].exp = wr[h].exp /\ wr'[h].cur = wr[h].cur /\ wr'[h].latest = wr[h].latest
      /\ wr'[h].claimed = wr[h].claimed /\ wr'[h].attempt = wr[h].attempt
  BY <1>1 DEF TypeOK, Others, KeptSets
<1> QED BY <1>2 DEF n, AnotherSave

LEMMA LatestEffect ==
    ASSUME TypeOK, NEW h \in Writer, Latest(h)
    PROVE  \/ ~wr[h].claimed /\ wr[h].exp # NoVersion /\ Conflict(h)
           \/ ~wr[h].claimed /\ wr[h].exp = NoVersion /\ AnotherSave(h)
           \/ /\ wr[h].claimed \/ wr[h].exp = NoVersion
              /\ Others(h) /\ KeptSets(h)
              /\ wr'[h].pc = "create" /\ wr'[h].latest = LatestVersion(rows)
              /\ wr'[h].exp = wr[h].exp /\ wr'[h].cur = wr[h].cur
              /\ wr'[h].claimed = wr[h].claimed /\ wr'[h].attempt = wr[h].attempt
              /\ wr'[h].saves = wr[h].saves
              /\ UNCHANGED <<queue, cache>>
<1>1. CASE wr' = [wr EXCEPT ![h].pc = "create", ![h].latest = LatestVersion(rows)]
  <2>1. /\ Others(h) /\ KeptSets(h)
        /\ wr'[h].pc = "create" /\ wr'[h].latest = LatestVersion(rows)
        /\ wr'[h].exp = wr[h].exp /\ wr'[h].cur = wr[h].cur
        /\ wr'[h].claimed = wr[h].claimed /\ wr'[h].attempt = wr[h].attempt
        /\ wr'[h].saves = wr[h].saves
    BY <1>1 DEF TypeOK, Others, KeptSets
  <2>2. CASE wr[h].claimed \/ wr[h].exp = NoVersion
    <3>1. UNCHANGED <<queue, cache>>
      BY <2>1, ConflictEffect DEF Latest, GoTo, Conflict, Fail
    <3> QED BY <2>1, <2>2, <3>1
  <2>3. CASE ~(wr[h].claimed \/ wr[h].exp = NoVersion)
    BY <2>3 DEF Latest
  <2> QED BY <2>2, <2>3
<1>2. CASE ~(wr' = [wr EXCEPT ![h].pc = "create", ![h].latest = LatestVersion(rows)])
  BY <1>2, AnotherSaveEffect DEF Latest
<1> QED BY <1>1, <1>2

LEMMA CreateEffect ==
    ASSUME TypeOK, NEW h \in Writer, Create(h)
    PROVE  \/ /\ CanCreate(rows) /\ OnlyPc(h) /\ wr'[h].pc = "cleanup"
              /\ rows' = CreateRow(rows, h, wr[h].latest + 1, Merged(h))
              /\ UNCHANGED <<queue, cache>>
           \/ ~CanCreate(rows) /\ rows' = rows /\ (AnotherSave(h) \/ (LastSave(h) /\ Fail(h)))
BY GoToEffect, AnotherSaveEffect DEF Create

LEMMA CleanupEffect ==
    ASSUME TypeOK, NEW h \in Writer, Cleanup(h)
    PROVE  /\ Others(h) /\ KeptNumbers(h) /\ wr'[h].pc = "prune"
           /\ wr'[h].old \in SUBSET Rev /\ Surplus(rows, wr'[h].old)
           /\ wr'[h].seen = wr[h].seen /\ wr'[h].base = wr[h].base /\ wr'[h].prev = wr[h].prev
BY DEF TypeOK, Cleanup, Others, KeptNumbers

LEMMA PruneEffect ==
    ASSUME TypeOK, NEW h \in Writer, Prune(h)
    PROVE  /\ Others(h) /\ KeptNumbers(h) /\ wr'[h].pc = "reread" /\ wr'[h].old = {}
           /\ wr'[h].seen = wr[h].seen /\ wr'[h].base = wr[h].base /\ wr'[h].prev = wr[h].prev
BY DEF TypeOK, Prune, Others, KeptNumbers

LEMMA RereadEffect ==
    ASSUME TypeOK, NEW h \in Writer, Reread(h)
    PROVE  \/ Active(rows) = {} /\ Fail(h)
           \/ /\ Active(rows) # {} /\ Others(h) /\ KeptNumbers(h)
              /\ wr'[h].pc = "install" /\ wr'[h].base = ActiveRev(rows)
              /\ wr'[h].seen = wr[h].seen /\ wr'[h].prev = wr[h].prev /\ wr'[h].old = wr[h].old
              /\ UNCHANGED <<queue, cache>>
BY DEF TypeOK, Reread, Others, KeptNumbers

\* What was read back is put in the cache.
LEMMA InstallEffect ==
    ASSUME TypeOK, NEW h \in Writer, Install(h) \/ InstallFlushed(h)
    PROVE  /\ OnlyPc(h) /\ wr[h].pc = "install"
           /\ wr'[h].pc = IF h \in Boot THEN "done" ELSE "publish"
           /\ PutInCache(ProcOf[h], wr[h].base, h \notin Boot)
           /\ UNCHANGED <<rows, queue, inbox, rl>>
<1>1. CASE Install(h)
  <2>1. /\ GoTo(h, "publish") /\ wr[h].pc = "install" /\ h \notin Boot
        /\ PutInCache(ProcOf[h], wr[h].base, TRUE) /\ UNCHANGED <<rows, queue, inbox, rl>>
    BY <1>1 DEF Install
  <2>2. (h \notin Boot) = TRUE
    BY <2>1
  <2> QED BY <2>1, <2>2, GoToEffect
<1>2. CASE InstallFlushed(h)
  <2>1. /\ GoTo(h, "done") /\ wr[h].pc = "install" /\ h \in Boot
        /\ PutInCache(ProcOf[h], wr[h].base, FALSE) /\ UNCHANGED <<rows, queue, inbox, rl>>
    BY <1>2 DEF InstallFlushed
  <2>2. (h \notin Boot) = FALSE
    BY <2>1
  <2> QED BY <2>1, <2>2, GoToEffect
<1> QED BY <1>1, <1>2

LEMMA CrashEffect ==
    ASSUME TypeOK, NEW p \in Proc, Crash(p), NEW h \in Writer
    PROVE  IF ProcOf[h] = p /\ ~Finished(h)
           THEN wr'[h].pc = "lost" /\ KeptNumbers(h) /\ KeptSets(h)
           ELSE wr'[h] = wr[h]
BY DEF TypeOK, Crash, KeptNumbers, KeptSets

-----------------------------------------------------------------------------
(* Types.                                                                  *)

\* What Booting says of one writer.
BootingOf(h, w) ==
    /\ h \in Boot => w.pc \notin {"form", "queued", "load", "publish"}
    /\ w.pc = "flush" => h \in Boot
    /\ w.pc \in {"idle", "form"} => w.attempt = 0
    /\ w.pc = "queued" => w.attempt < MaxAttempts

\* A flush of the defaults never waits for the update lock, and only a caller
\* without a version is tried again (updateConfig).
LEMMA BootingKept ==
    ASSUME TypeOK, Booting, [Next]_vars
    PROVE  Booting'
<1>1. \A h \in Writer : BootingOf(h, wr[h])
  BY ConfigAssumption DEF Booting, BootingOf
<1>a. ASSUME \A h \in Writer : BootingOf(h, wr'[h]) PROVE Booting'
  BY <1>a, ConfigAssumption DEF Booting, BootingOf
<1>b. ASSUME NEW h \in Writer, Others(h), BootingOf(h, wr'[h]) PROVE Booting'
  BY <1>1, <1>a, <1>b DEF Others
<1>c. ASSUME NEW h \in Writer, OnlyPc(h),
             wr'[h].pc \notin {"idle", "form", "flush", "queued", "load"},
             wr'[h].pc = "publish" => h \notin Boot
      PROVE  Booting'
  BY <1>b, <1>c DEF OnlyPc, BootingOf
<1>d. ASSUME NEW h \in Writer, Fail(h) PROVE Booting'
  BY <1>c, <1>d, FailEffect
<1>e. ASSUME NEW h \in Writer, Conflict(h) PROVE Booting'
  <2>1. CASE Fail(h)
    BY <1>d, <2>1
  <2>2. CASE ~Fail(h)
    <3>1. OnlyPc(h) /\ wr[h].attempt < MaxAttempts /\ wr'[h].pc = "queued" /\ h \notin Boot
      BY <1>e, <2>2, ConflictEffect
    <3> QED BY <1>b, <3>1 DEF OnlyPc, KeptNumbers, BootingOf
  <2> QED BY <2>1, <2>2
<1>f. ASSUME NEW h \in Writer, AnotherSave(h) PROVE Booting'
  BY <1>b, <1>f DEF AnotherSave, BootingOf
<1>g. ASSUME wr' = wr PROVE Booting'
  BY <1>g DEF Booting
<1>2. ASSUME NEW h \in Writer, OpenForm(h) PROVE Booting'
  <2>1. /\ Others(h) /\ wr'[h].pc = "form" /\ wr'[h].attempt = wr[h].attempt
        /\ wr[h].pc = "idle" /\ h \notin Boot
    BY <1>2, OpenFormEffect, ConfigAssumption DEF OpenForm
  <2> QED BY <1>1, <1>b, <2>1 DEF BootingOf
<1>3. ASSUME NEW h \in Writer, Submit(h) PROVE Booting'
  <2>1. wr[h].attempt = 0
    BY <1>1, <1>3 DEF Submit, BootingOf
  <2>2. OnlyPc(h) /\ wr'[h].pc = "queued" /\ h \notin Boot
    BY <1>3, SubmitEffect
  <2>3. BootingOf(h, wr'[h])
    BY <2>1, <2>2, Constants DEF OnlyPc, KeptNumbers, BootingOf
  <2> QED BY <1>b, <2>2, <2>3 DEF OnlyPc
<1>4. ASSUME NEW h \in Writer, BootLoad(h) PROVE Booting'
  BY <1>4, <1>b, BootEffect DEF OnlyPc, BootingOf
<1>q. ASSUME NEW h \in Writer, QueryFails(h) PROVE Booting'
  BY <1>q, <1>d, QueryFailsEffect
<1>5. ASSUME NEW h \in Writer, BootFlush(h) PROVE Booting'
  BY <1>5, <1>c, GoToEffect DEF BootFlush
<1>6. ASSUME NEW h \in Writer, ReadVersion(h) PROVE Booting'
  <2>1. Others(h) /\ wr'[h].pc = "load" /\ wr[h].pc = "queued"
    BY <1>6, ReadVersionEffect
  <2> QED BY <1>1, <1>b, <2>1 DEF BootingOf
<1>7. ASSUME NEW h \in Writer, Load(h) PROVE Booting'
  BY <1>7, <1>b, <1>d, LoadEffect DEF BootingOf
<1>8. ASSUME NEW h \in Writer, Check(h) PROVE Booting'
  BY <1>8, <1>b, <1>e, CheckEffect DEF BootingOf
<1>9. ASSUME NEW h \in Writer, History(h) PROVE Booting'
  BY <1>9, <1>c, <1>e, GoToEffect DEF History
<1>10. ASSUME NEW h \in Writer, Claim(h) PROVE Booting'
  BY <1>10, <1>b, ClaimEffect DEF BootingOf
<1>11. ASSUME NEW h \in Writer, Latest(h) PROVE Booting'
  BY <1>11, <1>b, <1>e, <1>f, LatestEffect DEF BootingOf
<1>12. ASSUME NEW h \in Writer, Create(h) PROVE Booting'
  BY <1>12, <1>c, <1>d, <1>f, CreateEffect
<1>13. ASSUME NEW h \in Writer, Cleanup(h) PROVE Booting'
  BY <1>13, <1>b, CleanupEffect DEF BootingOf
<1>14. ASSUME NEW h \in Writer, Prune(h) PROVE Booting'
  BY <1>14, <1>b, PruneEffect DEF BootingOf
<1>15. ASSUME NEW h \in Writer, Reread(h) PROVE Booting'
  BY <1>15, <1>b, <1>d, RereadEffect DEF BootingOf
<1>16. ASSUME NEW h \in Writer, Install(h) \/ InstallFlushed(h) PROVE Booting'
  BY <1>16, <1>c, InstallEffect
<1>17. ASSUME NEW h \in Writer, Publish(h) PROVE Booting'
  BY <1>17, <1>c, GoToEffect DEF Publish
<1>18. ASSUME NEW r \in Reload, Deliver(r) \/ Poll(r) \/ ReloadStep(r) PROVE Booting'
  BY <1>18, <1>g DEF Deliver, Poll, ReloadStep, ReloadRead, ReloadFails, ReloadInstall
<1>19. ASSUME NEW p \in Proc, Crash(p) PROVE Booting'
  BY <1>1, <1>19, <1>a, CrashEffect DEF BootingOf
<1>20. CASE UNCHANGED vars
  BY <1>20, <1>g DEF vars
<1> QED
  BY <1>2, <1>3, <1>4, <1>5, <1>6, <1>7, <1>8, <1>9, <1>10, <1>11, <1>12, <1>13, <1>14, <1>15, <1>16,
     <1>17, <1>18, <1>19, <1>20, <1>q DEF Next, SaveStep

\* The queue of an update lock: what Append and Tail do to those who wait.
LEMMA QueueFacts ==
    ASSUME NEW q \in Seq(Writer), NEW h \in Writer
    PROVE  /\ Append(q, h) \in Seq(Writer)
           /\ Len(Append(q, h)) = Len(q) + 1 /\ Append(q, h)[Len(q) + 1] = h
           /\ \A i \in 1..Len(q) : Append(q, h)[i] = q[i]
           /\ Len(q) > 0 => Head(Append(q, h)) = Head(q)
           /\ Len(q) > 0 => /\ Tail(q) \in Seq(Writer) /\ Len(Tail(q)) = Len(q) - 1
                            /\ Head(q) = q[1]
                            /\ \A i \in 2..Len(q) : Tail(q)[i - 1] = q[i]
OBVIOUS

\* Who is at work in a process works alone.
LEMMA WorksAlone ==
    ASSUME LockKept, NEW g \in Writer, NEW h \in Writer, AtWork(g), AtWork(h), ProcOf[g] = ProcOf[h]
    PROVE  g = h
BY DEF LockKept, HoldsLock

\* Nobody joins or leaves a queue, and the lock is taken by its holder.
LEMMA LockFrame ==
    ASSUME LockKept, queue' = queue,
           \A h \in Writer : AtWork(h)' => AtWork(h) \/ (wr[h].pc = "queued" /\ HoldsLock(h)),
           \A h \in Writer : wr'[h].pc = "queued" => wr[h].pc = "queued" \/ AtWork(h)
    PROVE  LockKept'
BY DEF LockKept, Waits, HoldsLock

\* The same for a step of one writer.
LEMMA LockStep ==
    ASSUME LockKept, queue' = queue, NEW h \in Writer, Others(h),
           AtWork(h)' => AtWork(h) \/ (wr[h].pc = "queued" /\ HoldsLock(h)),
           wr'[h].pc = "queued" => wr[h].pc = "queued" \/ AtWork(h)
    PROVE  LockKept'
<1>1. \A g \in Writer : g # h => (AtWork(g)' <=> AtWork(g))
  BY DEF Others, AtWork
<1> QED BY <1>1, LockFrame DEF Others

\* The holder releases the lock.
LEMMA LockReleased ==
    ASSUME TypeOK, LockKept, NEW h \in Writer, AtWork(h), Others(h),
           wr'[h].pc \in {"done", "failed"}, queue' = [queue EXCEPT ![ProcOf[h]] = Tail(@)]
    PROVE  LockKept'
<1> DEFINE p == ProcOf[h]
           q == queue[p]
<1>1. p \in Proc /\ queue \in [Proc -> Seq(Writer)] /\ q \in Seq(Writer)
  BY ConfigAssumption DEF TypeOK
<1>2. Len(q) > 0 /\ q[1] = h
  <2>1. \E i \in 1..Len(q) : q[i] = h
    BY DEF LockKept, Waits
  <2>2. Head(q) = h
    BY DEF LockKept, HoldsLock
  <2> QED BY <1>1, <2>1, <2>2, QueueFacts
<1>3. queue'[p] = Tail(q) /\ \A o \in Proc : o # p => queue'[o] = queue[o]
  BY <1>1
<1>4. \A g \in Writer : g # h => (AtWork(g)' <=> AtWork(g)) /\ wr'[g].pc = wr[g].pc
  BY DEF Others, AtWork
<1>5. ~AtWork(h)' /\ wr'[h].pc # "queued"
  BY DEF AtWork
<1>6. ASSUME NEW g \in Writer, wr'[g].pc = "queued" \/ AtWork(g)'
      PROVE  Waits(g)'
  <2>1. g # h /\ Waits(g)
    BY <1>4, <1>5, <1>6 DEF LockKept
  <2>2. CASE ProcOf[g] = p
    <3>1. PICK i \in 1..Len(q) : q[i] = g
      BY <2>1, <2>2 DEF Waits
    <3>2. i \in 2..Len(q) /\ Tail(q)[i - 1] = g /\ i - 1 \in 1..Len(Tail(q))
      BY <1>1, <1>2, <2>1, <3>1, QueueFacts
    <3> QED BY <1>3, <2>2, <3>2 DEF Waits
  <2>3. CASE ProcOf[g] # p
    <3>1. ProcOf[g] \in Proc
      BY ConfigAssumption
    <3> QED BY <1>3, <2>1, <2>3, <3>1 DEF Waits
  <2> QED BY <2>2, <2>3
<1>7. ASSUME NEW g \in Writer, AtWork(g)'
      PROVE  HoldsLock(g)'
  <2>1. g # h /\ AtWork(g)
    BY <1>4, <1>5, <1>7
  <2>2. ProcOf[g] # p /\ ProcOf[g] \in Proc
    BY <2>1, WorksAlone, ConfigAssumption
  <2> QED BY <1>3, <2>1, <2>2 DEF LockKept, HoldsLock
<1> QED BY <1>6, <1>7 DEF LockKept

\* Failing ends the work of a holder; a flush holds no lock.
LEMMA LockFails ==
    ASSUME TypeOK, LockKept, NEW h \in Writer, h \notin Boot => AtWork(h), Fail(h)
    PROVE  LockKept'
<1>1. OnlyPc(h) /\ wr'[h].pc = IF h \in Boot THEN "done" ELSE "failed"
  BY FailEffect
<1>2. CASE h \in Boot
  BY <1>1, <1>2, LockStep DEF Fail, Release, OnlyPc, AtWork
<1>3. CASE h \notin Boot
  BY <1>1, <1>3, LockReleased DEF Fail, Release, OnlyPc
<1> QED BY <1>2, <1>3

\* A conflict keeps the lock or ends the work.
LEMMA LockConflict ==
    ASSUME TypeOK, LockKept, NEW h \in Writer, h \notin Boot => AtWork(h), Conflict(h)
    PROVE  LockKept'
<1>1. CASE Fail(h)
  BY <1>1, LockFails
<1>2. CASE ~Fail(h)
  <2>1. OnlyPc(h) /\ wr'[h].pc = "queued" /\ queue' = queue /\ h \notin Boot
    BY <1>2, ConflictEffect
  <2> QED BY <2>1, LockStep DEF OnlyPc
<1> QED BY <1>1, <1>2

\* A submission joins the queue at its end.
LEMMA LockSubmitted ==
    ASSUME TypeOK, Booting, LockKept, NEW h \in Writer, Submit(h)
    PROVE  LockKept'
<1> DEFINE p == ProcOf[h]
           q == queue[p]
<1>1. p \in Proc /\ queue \in [Proc -> Seq(Writer)] /\ q \in Seq(Writer)
  BY ConfigAssumption DEF TypeOK
<1>2. /\ queue'[p] = Append(q, h) /\ \A o \in Proc : o # p => queue'[o] = queue[o]
  BY <1>1 DEF Submit
<1>3. OnlyPc(h) /\ wr'[h].pc = "queued" /\ wr[h].attempt = 0
  BY GoToEffect DEF Submit, Booting
<1>4. \A g \in Writer : (AtWork(g)' => AtWork(g) /\ g # h) /\ (g # h => wr'[g] = wr[g])
  BY <1>3 DEF AtWork, OnlyPc, Others, KeptNumbers
<1>5. ASSUME NEW g \in Writer, Waits(g) PROVE Waits(g)'
  <2>1. PICK i \in 1..Len(queue[ProcOf[g]]) : queue[ProcOf[g]][i] = g
    BY <1>5 DEF Waits
  <2>2. CASE ProcOf[g] = p
    <3>1. i \in 1..Len(Append(q, h)) /\ Append(q, h)[i] = g
      BY <1>1, <2>1, <2>2, QueueFacts
    <3> QED BY <1>2, <2>2, <3>1 DEF Waits
  <2>3. CASE ProcOf[g] # p
    <3>1. ProcOf[g] \in Proc
      BY ConfigAssumption
    <3> QED BY <1>2, <2>1, <2>3, <3>1 DEF Waits
  <2> QED BY <2>2, <2>3
<1>6. Waits(h)'
  <2>1. Len(q) + 1 \in 1..Len(Append(q, h)) /\ Append(q, h)[Len(q) + 1] = h
    BY <1>1, QueueFacts
  <2> QED BY <1>2, <2>1 DEF Waits
<1>7. ASSUME NEW g \in Writer, AtWork(g) PROVE HoldsLock(g)'
  <2>1. Waits(g) /\ HoldsLock(g) /\ ProcOf[g] \in Proc
    BY <1>7, ConfigAssumption DEF LockKept
  <2>2. CASE ProcOf[g] = p
    <3>1. Len(q) > 0
      BY <1>1, <2>1, <2>2 DEF Waits
    <3>2. Head(Append(q, h)) = Head(q)
      BY <1>1, <3>1, QueueFacts
    <3>3. Head(q) = g /\ queue'[ProcOf[g]] = Append(q, h)
      BY <1>2, <2>1, <2>2 DEF HoldsLock
    <3> QED BY <3>2, <3>3 DEF HoldsLock
  <2>3. CASE ProcOf[g] # p
    BY <1>2, <2>1, <2>3 DEF HoldsLock
  <2> QED BY <2>2, <2>3
<1>8. \A g \in Writer : wr'[g].pc = "queued" \/ AtWork(g)' => Waits(g)'
  BY <1>4, <1>5, <1>6 DEF LockKept
<1> QED BY <1>4, <1>7, <1>8 DEF LockKept

\* A crash empties the queue of its process.
LEMMA LockCrashed ==
    ASSUME TypeOK, LockKept, NEW p \in Proc, Crash(p)
    PROVE  LockKept'
<1>1. \A h \in Writer : ProcOf[h] = p => ~AtWork(h)' /\ wr'[h].pc # "queued"
  BY CrashEffect DEF AtWork, Finished
<1>2. \A h \in Writer : ProcOf[h] # p => wr'[h] = wr[h] /\ queue'[ProcOf[h]] = queue[ProcOf[h]]
  BY CrashEffect, ConfigAssumption DEF Crash, TypeOK
<1>3. \A h \in Writer : AtWork(h)' => AtWork(h) /\ ProcOf[h] # p
  BY <1>1, <1>2 DEF AtWork
<1>4. \A h \in Writer : AtWork(h)' => HoldsLock(h)'
  BY <1>2, <1>3 DEF LockKept, HoldsLock
<1>5. \A h \in Writer : wr'[h].pc = "queued" \/ AtWork(h)' => Waits(h)'
  BY <1>1, <1>2, <1>3 DEF LockKept, Waits
<1> QED BY <1>4, <1>5 DEF LockKept

\* The update lock of a process excludes (acquireConfigUpdateLock).
LEMMA LockKeeps ==
    ASSUME TypeOK, Booting, LockKept, [Next]_vars
    PROVE  LockKept'
<1>a. ASSUME NEW h \in Writer, Others(h), queue' = queue, h \in Boot \/ AtWork(h),
             wr'[h].pc # "queued"
      PROVE  LockKept'
  BY <1>a, LockStep DEF AtWork
<1>b. ASSUME NEW h \in Writer, AnotherSave(h), h \in Boot \/ AtWork(h) PROVE LockKept'
  BY <1>a, <1>b DEF AnotherSave
<1>c. ASSUME wr' = wr, queue' = queue PROVE LockKept'
  BY <1>c, LockFrame DEF AtWork
<1>2. ASSUME NEW h \in Writer, OpenForm(h) PROVE LockKept'
  <2>1. Others(h) /\ wr'[h].pc = "form"
    BY <1>2, OpenFormEffect
  <2> QED BY <1>2, <2>1, LockStep DEF OpenForm, AtWork
<1>3. ASSUME NEW h \in Writer, Submit(h) PROVE LockKept'
  BY <1>3, LockSubmitted
<1>4. ASSUME NEW h \in Writer, BootLoad(h) \/ BootFlush(h) PROVE LockKept'
  <2>1. OnlyPc(h) /\ queue' = queue /\ wr'[h].pc # "queued" /\ h \in Boot
    BY <1>4, BootEffect DEF Booting
  <2> QED BY <1>a, <2>1 DEF OnlyPc
<1>6. ASSUME NEW h \in Writer, ReadVersion(h) PROVE LockKept'
  <2>1. Others(h) /\ wr'[h].pc = "load" /\ queue' = queue /\ wr[h].pc = "queued" /\ HoldsLock(h)
    BY <1>6, ReadVersionEffect
  <2> QED BY <2>1, LockStep
<1>7. ASSUME NEW h \in Writer, Load(h) PROVE LockKept'
  <2>1. h \notin Boot => AtWork(h)
    BY <1>7 DEF Load, AtWork
  <2> QED BY <1>7, <1>a, <2>1, LoadEffect, LockFails
<1>8. ASSUME NEW h \in Writer, Check(h) PROVE LockKept'
  <2>1. h \notin Boot => AtWork(h)
    BY <1>8 DEF Check, AtWork
  <2> QED BY <1>8, <1>a, <2>1, CheckEffect, LockConflict
<1>9. ASSUME NEW h \in Writer, History(h) PROVE LockKept'
  <2>1. h \notin Boot => AtWork(h)
    BY <1>9 DEF History, AtWork
  <2> QED BY <1>9, <1>a, <2>1, GoToEffect, LockConflict DEF History, OnlyPc
<1>10. ASSUME NEW h \in Writer, Claim(h) PROVE LockKept'
  <2>1. h \notin Boot => AtWork(h)
    BY <1>10 DEF Claim, AtWork
  <2> QED BY <1>10, <1>a, <2>1, ClaimEffect DEF Claim
<1>11. ASSUME NEW h \in Writer, Latest(h) PROVE LockKept'
  <2>1. h \notin Boot => AtWork(h)
    BY <1>11 DEF Latest, AtWork
  <2> QED BY <1>11, <1>a, <1>b, <2>1, LatestEffect, LockConflict
<1>12. ASSUME NEW h \in Writer, Create(h) PROVE LockKept'
  <2>1. h \notin Boot => AtWork(h)
    BY <1>12 DEF Create, AtWork
  <2> QED BY <1>12, <1>a, <1>b, <2>1, CreateEffect, LockFails DEF OnlyPc
<1>13. ASSUME NEW h \in Writer, Cleanup(h) \/ Prune(h) PROVE LockKept'
  <2>1. h \notin Boot => AtWork(h)
    BY <1>13 DEF Cleanup, Prune, AtWork
  <2> QED BY <1>13, <1>a, <2>1, CleanupEffect, PruneEffect DEF Cleanup, Prune
<1>15. ASSUME NEW h \in Writer, Reread(h) PROVE LockKept'
  <2>1. h \notin Boot => AtWork(h)
    BY <1>15 DEF Reread, AtWork
  <2> QED BY <1>15, <1>a, <2>1, RereadEffect, LockFails
<1>16. ASSUME NEW h \in Writer, Install(h) \/ InstallFlushed(h) PROVE LockKept'
  <2>1. h \notin Boot => AtWork(h)
    BY <1>16 DEF Install, InstallFlushed, AtWork
  <2> QED BY <1>16, <1>a, <2>1, InstallEffect DEF OnlyPc
<1>17. ASSUME NEW h \in Writer, Publish(h) PROVE LockKept'
  <2>1. AtWork(h) /\ h \notin Boot
    BY <1>17 DEF Publish, AtWork, Booting
  <2>2. OnlyPc(h) /\ wr'[h].pc = "done" /\ queue' = [queue EXCEPT ![ProcOf[h]] = Tail(@)]
    BY <1>17, <2>1, GoToEffect DEF Publish, Release
  <2> QED BY <2>1, <2>2, LockReleased DEF OnlyPc
<1>q. ASSUME NEW h \in Writer, QueryFails(h) PROVE LockKept'
  BY <1>q, QueryFailsEffect, LockFails
<1>18. ASSUME NEW r \in Reload, Deliver(r) \/ Poll(r) \/ ReloadStep(r) PROVE LockKept'
  BY <1>18, <1>c DEF Deliver, Poll, ReloadStep, ReloadRead, ReloadFails, ReloadInstall
<1>19. ASSUME NEW p \in Proc, Crash(p) PROVE LockKept'
  BY <1>19, LockCrashed
<1>20. CASE UNCHANGED vars
  BY <1>20, <1>c DEF vars
<1> QED
  BY <1>2, <1>3, <1>4, <1>6, <1>7, <1>8, <1>9, <1>10, <1>11, <1>12, <1>13, <1>15, <1>16, <1>17,
     <1>18, <1>19, <1>20, <1>q DEF Next, SaveStep

\* Nothing is inserted, and who comes to the insertion has read a version.
LEMMA NumberingFrame ==
    ASSUME TypeOK, Numbering,
           \A r \in Rev : /\ rows'[r].ver = rows[r].ver
                          /\ rows'[r].state # "gone" => rows[r].state # "gone",
           \A h \in Writer : wr'[h].pc \in BeforeCreate => wr[h].pc \in BeforeCreate,
           \A h \in Writer : wr'[h].pc = "create" =>
                \/ wr[h].pc = "create" /\ wr'[h].latest = wr[h].latest
                \/ wr'[h].latest <= Cardinality(Made) + 1
    PROVE  Numbering'
<1>1. Made' = Made
  BY Constants DEF Made
<1>2. (\A r \in Rev : rows[r].ver <= Cardinality(Made) + 1)'
  BY <1>1 DEF Numbering
<1>3. (\A r \in Present(rows) : rows[r].ver # NoVersion)'
  BY DEF Numbering, Present
<1>4. (\A h \in Writer : wr[h].pc \in BeforeCreate => rows[h].ver = NoVersion)'
  BY Constants DEF Numbering
<1>5. (\A h \in Writer : wr[h].pc = "create" => wr[h].latest <= Cardinality(Made) + 1)'
  BY <1>1 DEF Numbering
<1> QED BY <1>2, <1>3, <1>4, <1>5 DEF Numbering

\* The same for a step of one writer.
LEMMA NumberingStep ==
    ASSUME TypeOK, Numbering, NEW h \in Writer, Others(h),
           \A r \in Rev : /\ rows'[r].ver = rows[r].ver
                          /\ rows'[r].state # "gone" => rows[r].state # "gone",
           wr'[h].pc \in BeforeCreate => wr[h].pc \in BeforeCreate,
           wr'[h].pc = "create" => wr'[h].latest <= Cardinality(Made) + 1
    PROVE  Numbering'
BY NumberingFrame DEF Others

\* The greatest version is at most the number of insertions.
LEMMA LatestBounded ==
    ASSUME TypeOK, Numbering
    PROVE  LatestVersion(rows) \in Version \cup {NoVersion} /\ LatestVersion(rows) <= Cardinality(Made) + 1
<1>1. Cardinality(Made) \in Nat
  BY Constants DEF Made
<1>2. rows \in [Rev -> Revision]
  BY DEF TypeOK
<1>3. CASE Present(rows) = {}
  BY <1>1, <1>2, <1>3, LatestIsGreatest, Constants DEF Numbering
<1>4. CASE Present(rows) # {}
  <2>1. PICK r \in Present(rows) : rows[r].ver = LatestVersion(rows)
    BY <1>2, <1>4, LatestIsGreatest DEF Numbering
  <2>2. LatestVersion(rows) \in Version /\ r \in Rev
    BY <1>2, <1>4, <2>1, LatestIsGreatest DEF Numbering, Present
  <2> QED BY <2>1, <2>2 DEF Numbering
<1> QED BY <1>3, <1>4

\* The version of a row to be inserted is still a version.
LEMMA NextVersion ==
    ASSUME TypeOK, Numbering, NEW h \in Writer, wr[h].pc = "create"
    PROVE  /\ wr[h].latest + 1 \in Version
           /\ wr[h].latest + 1 <= Cardinality(Made) + 2
           /\ Cardinality(Made \cup {h}) = Cardinality(Made) + 1
           /\ h \notin Made /\ Cardinality(Made) \in Nat
<1>1. h \notin Made /\ IsFiniteSet(Made) /\ Cardinality(Made) \in Nat
  BY Constants DEF Made, Numbering, BeforeCreate
<1>2. Cardinality(Made \cup {h}) = Cardinality(Made) + 1
  BY <1>1, FS_AddElement
<1>3. Cardinality(Made \cup {h}) <= Cardinality(Writer)
  BY Constants DEF Made
<1>4. wr[h].latest \in Nat /\ wr[h].latest <= Cardinality(Made) + 1
  BY Constants DEF TypeOK, Numbering
<1> QED BY <1>1, <1>2, <1>3, <1>4, Constants

\* A row counts one more insertion.
LEMMA NumberingCreated ==
    ASSUME TypeOK, Numbering, NEW h \in Writer, wr[h].pc = "create", OnlyPc(h), wr'[h].pc = "cleanup",
           rows' = CreateRow(rows, h, wr[h].latest + 1, Merged(h)), Merged(h) \in SUBSET Writer
    PROVE  Numbering'
<1> DEFINE v == wr[h].latest + 1
<1>1. /\ v \in Version /\ v <= Cardinality(Made) + 2 /\ Cardinality(Made) \in Nat
      /\ Cardinality(Made \cup {h}) = Cardinality(Made) + 1
  BY NextVersion
<1>2. rows \in [Rev -> Revision] /\ h \in Rev /\ v # NoVersion
  BY <1>1, Constants DEF TypeOK
<1>3. /\ rows'[h].ver = v /\ rows'[h].state = "active"
      /\ \A r \in Rev \ {h} : rows'[r] = rows[r]
  <2> HIDE DEF v
  <2>1. rows' = CreateRow(rows, h, v, Merged(h))
    BY DEF v
  <2> QED BY <1>1, <1>2, <2>1, CreateFacts
<1>4. Made' = Made \cup {h}
  BY <1>2, <1>3, Constants DEF Made
<1> HIDE DEF v
<1>5. (\A r \in Rev : rows[r].ver <= Cardinality(Made) + 1)'
  <2>1. \A r \in Rev : rows[r].ver \in Nat /\ rows[r].ver <= Cardinality(Made) + 1
    BY <1>2, Constants DEF Numbering, Revision
  <2> QED BY <1>1, <1>3, <1>4, <2>1, Constants
<1>6. (\A r \in Present(rows) : rows[r].ver # NoVersion)'
  BY <1>2, <1>3 DEF Numbering, Present
<1>7. (\A g \in Writer : wr[g].pc \in BeforeCreate => rows[g].ver = NoVersion)'
  BY <1>3, Constants DEF Numbering, OnlyPc, Others, BeforeCreate
<1>8. (\A g \in Writer : wr[g].pc = "create" => wr[g].latest <= Cardinality(Made) + 1)'
  <2>1. ASSUME NEW g \in Writer, wr'[g].pc = "create"
        PROVE  wr'[g].latest \in Nat /\ wr'[g].latest <= Cardinality(Made) + 1
    <3>1. g # h /\ wr'[g] = wr[g]
      BY <2>1 DEF OnlyPc, Others
    <3>2. wr[g].latest \in Version \cup {NoVersion}
      BY DEF TypeOK
    <3>3. wr[g].latest \in Nat
      BY <3>2, Constants
    <3> QED BY <2>1, <3>1, <3>3 DEF Numbering
  <2> QED BY <1>1, <1>4, <2>1
<1> QED BY <1>5, <1>6, <1>7, <1>8 DEF Numbering

\* What an edit makes of the configuration it read.
LEMMA MergedType ==
    ASSUME TypeOK, NEW h \in Writer
    PROVE  Merged(h) \in SUBSET Writer
<1>1. rows[wr[h].base].content \in SUBSET Writer /\ rows[wr[h].seen].content \in SUBSET Writer
  BY DEF TypeOK, Revision
<1> QED BY <1>1, ConfigAssumption DEF Merged

\* Every save inserts one row, whose version counts the insertions.
LEMMA NumberingKept ==
    ASSUME TypeOK, Numbering, Booting, [Next]_vars
    PROVE  Numbering'
<1> USE DEF BeforeCreate
<1>0. rows \in [Rev -> Revision]
  BY DEF TypeOK
<1>a. ASSUME NEW h \in Writer, Others(h), rows' = rows, wr'[h].pc # "create",
             wr'[h].pc \in BeforeCreate => wr[h].pc \in BeforeCreate
      PROVE  Numbering'
  BY <1>a, NumberingStep
<1>b. ASSUME NEW h \in Writer, Fail(h), rows' = rows PROVE Numbering'
  BY <1>a, <1>b, FailEffect DEF OnlyPc
<1>c. ASSUME NEW h \in Writer, Conflict(h), rows' = rows, wr[h].pc \in BeforeCreate PROVE Numbering'
  BY <1>a, <1>b, <1>c, ConflictEffect DEF OnlyPc
<1>d. ASSUME NEW h \in Writer, AnotherSave(h), rows' = rows, wr[h].pc \in BeforeCreate PROVE Numbering'
  BY <1>a, <1>d DEF AnotherSave
<1>e. ASSUME UNCHANGED <<rows, wr>> PROVE Numbering'
  BY <1>e, NumberingFrame
<1>2. ASSUME NEW h \in Writer, OpenForm(h) PROVE Numbering'
  <2>1. /\ Others(h) /\ rows' = rows /\ wr'[h].pc = "form" /\ wr[h].pc \in BeforeCreate
    BY <1>2, OpenFormEffect DEF OpenForm
  <2> QED BY <1>a, <2>1
<1>3. ASSUME NEW h \in Writer, Submit(h) PROVE Numbering'
  <2>1. /\ OnlyPc(h) /\ rows' = rows /\ wr'[h].pc = "queued" /\ wr[h].pc \in BeforeCreate
    BY <1>3, SubmitEffect
  <2> QED BY <1>a, <2>1 DEF OnlyPc
<1>4. ASSUME NEW h \in Writer, BootLoad(h) PROVE Numbering'
  <2>1. /\ OnlyPc(h) /\ rows' = rows /\ wr'[h].pc # "create" /\ wr[h].pc \in BeforeCreate
    BY <1>4, BootEffect
  <2> QED BY <1>a, <2>1 DEF OnlyPc
<1>5. ASSUME NEW h \in Writer, BootFlush(h) PROVE Numbering'
  <2>1. /\ OnlyPc(h) /\ rows' = rows /\ wr'[h].pc # "create" /\ wr[h].pc \in BeforeCreate
    BY <1>5, BootEffect
  <2> QED BY <1>a, <2>1 DEF OnlyPc
<1>6. ASSUME NEW h \in Writer, ReadVersion(h) PROVE Numbering'
  <2>1. /\ Others(h) /\ rows' = rows /\ wr'[h].pc = "load" /\ wr[h].pc \in BeforeCreate
    BY <1>6, ReadVersionEffect
  <2> QED BY <1>a, <2>1
<1>7. ASSUME NEW h \in Writer, Load(h) PROVE Numbering'
  BY <1>7, <1>a, <1>b, LoadEffect DEF Load
<1>8. ASSUME NEW h \in Writer, Check(h) PROVE Numbering'
  BY <1>8, <1>a, <1>c, CheckEffect DEF Check
<1>9. ASSUME NEW h \in Writer, History(h) PROVE Numbering'
  BY <1>9, <1>a, <1>c, GoToEffect DEF History, OnlyPc
<1>10. ASSUME NEW h \in Writer, Claim(h) PROVE Numbering'
  <2>1. \A r \in Rev : /\ rows'[r].ver = rows[r].ver
                       /\ rows'[r].state # "gone" => rows[r].state # "gone"
    BY <1>0, <1>10, DeactivateFacts DEF Claim
  <2> QED BY <1>10, <2>1, ClaimEffect, NumberingStep DEF Claim
<1>11. ASSUME NEW h \in Writer, Latest(h) PROVE Numbering'
  <2>1. CASE wr'[h].pc = "create" /\ Others(h) /\ wr'[h].latest = LatestVersion(rows)
    BY <1>11, <2>1, LatestBounded, NumberingStep DEF Latest
  <2>2. CASE ~(wr'[h].pc = "create" /\ Others(h) /\ wr'[h].latest = LatestVersion(rows))
    BY <1>11, <1>c, <1>d, <2>2, LatestEffect DEF Latest
  <2> QED BY <2>1, <2>2
<1>12. ASSUME NEW h \in Writer, Create(h) PROVE Numbering'
  <2>1. CASE CanCreate(rows)
    BY <1>12, <2>1, CreateEffect, NumberingCreated, MergedType DEF Create
  <2>2. CASE ~CanCreate(rows)
    BY <1>12, <1>b, <1>d, <2>2, CreateEffect DEF Create
  <2> QED BY <2>1, <2>2
<1>13. ASSUME NEW h \in Writer, Cleanup(h) PROVE Numbering'
  BY <1>13, <1>a, CleanupEffect DEF Cleanup
<1>14. ASSUME NEW h \in Writer, Prune(h) PROVE Numbering'
  <2>1. \A r \in Rev : /\ rows'[r].ver = rows[r].ver
                       /\ rows'[r].state # "gone" => rows[r].state # "gone"
    <3>1. PICK D : rows' = DeleteRows(rows, D)
      BY <1>14 DEF Prune
    <3> QED BY <1>0, <3>1, DeleteFacts
  <2> QED BY <1>14, <2>1, PruneEffect, NumberingStep DEF Prune
<1>15. ASSUME NEW h \in Writer, Reread(h) PROVE Numbering'
  BY <1>15, <1>a, <1>b, RereadEffect DEF Reread
<1>16. ASSUME NEW h \in Writer, Install(h) \/ InstallFlushed(h) PROVE Numbering'
  BY <1>16, <1>a, InstallEffect DEF OnlyPc
<1>17. ASSUME NEW h \in Writer, Publish(h) PROVE Numbering'
  BY <1>17, <1>a, GoToEffect DEF Publish, OnlyPc
<1>q. ASSUME NEW h \in Writer, QueryFails(h) PROVE Numbering'
  BY <1>q, <1>b DEF QueryFails
<1>18. ASSUME NEW r \in Reload, Deliver(r) \/ Poll(r) \/ ReloadStep(r) PROVE Numbering'
  BY <1>18, <1>e DEF Deliver, Poll, ReloadStep, ReloadRead, ReloadFails, ReloadInstall
<1>19. ASSUME NEW p \in Proc, Crash(p) PROVE Numbering'
  <2>1. \A h \in Writer : wr'[h] = wr[h] \/ wr'[h].pc = "lost"
    BY <1>19, CrashEffect
  <2> QED BY <1>19, <2>1, NumberingFrame DEF Crash
<1>20. CASE UNCHANGED vars
  BY <1>20, <1>e DEF vars
<1> QED
  BY <1>2, <1>3, <1>4, <1>5, <1>6, <1>7, <1>8, <1>9, <1>10, <1>11, <1>12, <1>13, <1>14, <1>15, <1>16,
     <1>17, <1>18, <1>19, <1>20, <1>q DEF Next, SaveStep

LEMMA WriterTypeOK == TypeOK => wr \in [Writer -> WriterType]
BY DEF TypeOK, WriterType, Number, Attempt, SaveAttempt, Rows

\* A typed value in a field.
LEMMA FieldTyped ==
    ASSUME NEW f \in [Writer -> WriterType], NEW h \in Writer, NEW x
    PROVE  /\ x \in WriterPc => [f EXCEPT ![h].pc = x] \in [Writer -> WriterType]
           /\ x \in Number => /\ [f EXCEPT ![h].exp = x] \in [Writer -> WriterType]
                              /\ [f EXCEPT ![h].cur = x] \in [Writer -> WriterType]
                              /\ [f EXCEPT ![h].latest = x] \in [Writer -> WriterType]
           /\ x \in BOOLEAN => [f EXCEPT ![h].claimed = x] \in [Writer -> WriterType]
           /\ x \in Rev => /\ [f EXCEPT ![h].seen = x] \in [Writer -> WriterType]
                             /\ [f EXCEPT ![h].base = x] \in [Writer -> WriterType]
                             /\ [f EXCEPT ![h].prev = x] \in [Writer -> WriterType]
           /\ x \in Rows => [f EXCEPT ![h].old = x] \in [Writer -> WriterType]
           /\ x \in Attempt => [f EXCEPT ![h].attempt = x] \in [Writer -> WriterType]
           /\ x \in SaveAttempt => [f EXCEPT ![h].saves = x] \in [Writer -> WriterType]
BY DEF WriterType

\* A writer that moves on keeps its type.
LEMMA GoToTyped ==
    ASSUME TypeOK, NEW h \in Writer, NEW pc \in WriterPc, GoTo(h, pc)
    PROVE  wr' \in [Writer -> WriterType]
BY WriterTypeOK DEF GoTo, WriterType

\* A writer that moves on with one value.
LEMMA MoveTyped ==
    ASSUME TypeOK, NEW h \in Writer, NEW pc \in WriterPc, NEW x
    PROVE  /\ x \in Rev => [wr EXCEPT ![h].pc = pc, ![h].base = x] \in [Writer -> WriterType]
           /\ x \in Rows => [wr EXCEPT ![h].pc = pc, ![h].old = x] \in [Writer -> WriterType]
           /\ x \in Number => /\ [wr EXCEPT ![h].pc = pc, ![h].cur = x] \in [Writer -> WriterType]
                              /\ [wr EXCEPT ![h].pc = pc, ![h].latest = x] \in [Writer -> WriterType]
           /\ x \in BOOLEAN => [wr EXCEPT ![h].pc = pc, ![h].claimed = x] \in [Writer -> WriterType]
<1> DEFINE f == [wr EXCEPT ![h].pc = pc]
<1>1. f \in [Writer -> WriterType]
  BY WriterTypeOK, FieldTyped
<1>2. /\ [wr EXCEPT ![h].pc = pc, ![h].base = x] = [f EXCEPT ![h].base = x]
      /\ [wr EXCEPT ![h].pc = pc, ![h].old = x] = [f EXCEPT ![h].old = x]
      /\ [wr EXCEPT ![h].pc = pc, ![h].cur = x] = [f EXCEPT ![h].cur = x]
      /\ [wr EXCEPT ![h].pc = pc, ![h].latest = x] = [f EXCEPT ![h].latest = x]
      /\ [wr EXCEPT ![h].pc = pc, ![h].claimed = x] = [f EXCEPT ![h].claimed = x]
  OBVIOUS
<1>3. /\ x \in Rev => [f EXCEPT ![h].base = x] \in [Writer -> WriterType]
      /\ x \in Rows => [f EXCEPT ![h].old = x] \in [Writer -> WriterType]
      /\ x \in Number => /\ [f EXCEPT ![h].cur = x] \in [Writer -> WriterType]
                         /\ [f EXCEPT ![h].latest = x] \in [Writer -> WriterType]
      /\ x \in BOOLEAN => [f EXCEPT ![h].claimed = x] \in [Writer -> WriterType]
  <2> HIDE DEF f
  <2> QED BY <1>1, FieldTyped
<1> HIDE DEF f
<1> QED BY <1>2, <1>3

LEMMA FailTyped ==
    ASSUME TypeOK, NEW h \in Writer, Fail(h)
    PROVE  wr' \in [Writer -> WriterType]
BY GoToTyped DEF Fail, WriterPc

LEMMA ConflictTyped ==
    ASSUME TypeOK, NEW h \in Writer, Conflict(h)
    PROVE  wr' \in [Writer -> WriterType]
BY GoToTyped, FailTyped DEF Conflict, WriterPc

LEMMA AnotherSaveTyped ==
    ASSUME TypeOK, NEW h \in Writer, ~LastSave(h)
    PROVE  [wr EXCEPT ![h].pc = "claim", ![h].saves = @ + 1] \in [Writer -> WriterType]
<1> DEFINE n == wr[h].saves + 1
           f == [wr EXCEPT ![h].pc = "claim"]
<1>1. n \in SaveAttempt
  BY Constants DEF TypeOK, LastSave, SaveAttempt
<1>2. f \in [Writer -> WriterType]
  <2>1. "claim" \in WriterPc
    BY DEF WriterPc
  <2> QED BY <2>1, WriterTypeOK, FieldTyped
<1>3. [wr EXCEPT ![h].pc = "claim", ![h].saves = @ + 1] = [f EXCEPT ![h].saves = n]
  BY DEF TypeOK
<1> HIDE DEF f, n
<1>4. [f EXCEPT ![h].saves = n] \in [Writer -> WriterType]
  BY <1>1, <1>2, FieldTyped
<1> QED BY <1>3, <1>4

\* The writers keep their types: an update makes no more attempts than it may,
\* and reads versions of the table.
LEMMA WritersTyped ==
    ASSUME TypeOK, Numbering, Booting, [Next]_vars
    PROVE  wr' \in [Writer -> WriterType]
<1>0. /\ rows \in [Rev -> Revision] /\ wr \in [Writer -> WriterType]
      /\ ActiveVersion(rows) \in Number
      /\ Active(rows) # {} => ActiveRev(rows) \in Rev
  BY ActiveFacts, WriterTypeOK DEF TypeOK, Number
<1>1. \A h \in Writer : cache[ProcOf[h]] \in Rev
  BY ConfigAssumption DEF TypeOK
<1>p. {"form", "load", "check", "claim", "history", "latest", "create", "prune", "reread", "install", "lost"} \subseteq WriterPc
  BY DEF WriterPc
<1>r. {} \in Rows
  BY DEF Rows
<1>a. ASSUME wr' = wr PROVE wr' \in [Writer -> WriterType]
  BY <1>0, <1>a
<1>2. ASSUME NEW h \in Writer, OpenForm(h) PROVE wr' \in [Writer -> WriterType]
  <2> DEFINE v == ActiveVersion(rows)
             c == cache[ProcOf[h]]
  <2>1. v \in Number /\ c \in Rev
    BY <1>0, <1>1
  <2> DEFINE f == [wr EXCEPT ![h].pc = "form"]
             g == [f EXCEPT ![h].exp = v]
  <2>2. wr' = [g EXCEPT ![h].seen = c]
    BY <1>2 DEF OpenForm
  <2> HIDE DEF v, c
  <2>3. f \in [Writer -> WriterType]
    BY <1>0, <1>p, FieldTyped
  <2> HIDE DEF f
  <2>4. g \in [Writer -> WriterType]
    BY <2>1, <2>3, FieldTyped
  <2> HIDE DEF g
  <2> QED BY <2>1, <2>2, <2>4, FieldTyped
<1>3. ASSUME NEW h \in Writer, Submit(h) PROVE wr' \in [Writer -> WriterType]
  BY <1>3, GoToTyped DEF Submit, WriterPc
<1>4. ASSUME NEW h \in Writer, BootLoad(h) PROVE wr' \in [Writer -> WriterType]
  BY <1>4, GoToTyped DEF BootLoad, WriterPc
<1>5. ASSUME NEW h \in Writer, BootFlush(h) PROVE wr' \in [Writer -> WriterType]
  BY <1>5, GoToTyped DEF BootFlush, WriterPc
<1>6. ASSUME NEW h \in Writer, ReadVersion(h) PROVE wr' \in [Writer -> WriterType]
  <2> DEFINE n == wr[h].attempt + 1
             v == IF h \in Form THEN wr[h].exp ELSE ActiveVersion(rows)
             c == IF wr[h].attempt = 0 THEN cache[ProcOf[h]] ELSE wr[h].prev
  <2>1. wr[h].attempt \in Nat /\ wr[h].attempt < MaxAttempts
    BY <1>6 DEF TypeOK, Booting, ReadVersion
  <2>2. n \in Attempt
    BY <2>1, Constants DEF Attempt
  <2>3. v \in Number /\ c \in Rev
    BY <1>0, <1>1 DEF WriterType
  <2> DEFINE f1 == [wr EXCEPT ![h].pc = "load"]
             f2 == [f1 EXCEPT ![h].attempt = n]
             f3 == [f2 EXCEPT ![h].saves = 0]
             f4 == [f3 EXCEPT ![h].exp = v]
  <2>4. wr' = [f4 EXCEPT ![h].prev = c]
    <3> HIDE DEF n
    <3>1. wr' = [wr EXCEPT ![h].pc = "load", ![h].attempt = n, ![h].saves = 0, ![h].exp = v,
                           ![h].prev = c]
      BY <1>6 DEF ReadVersion, n
    <3> HIDE DEF v, c
    <3> QED BY <3>1
  <2>5. 0 \in SaveAttempt
    BY Constants DEF SaveAttempt
  <2> HIDE DEF n, v, c
  <2>6. f1 \in [Writer -> WriterType]
    BY <1>0, <1>p, FieldTyped
  <2> HIDE DEF f1
  <2>7. f2 \in [Writer -> WriterType]
    BY <2>2, <2>6, FieldTyped
  <2> HIDE DEF f2
  <2>8. f3 \in [Writer -> WriterType]
    BY <2>5, <2>7, FieldTyped
  <2> HIDE DEF f3
  <2>9. f4 \in [Writer -> WriterType]
    BY <2>3, <2>8, FieldTyped
  <2> HIDE DEF f4
  <2> QED BY <2>3, <2>4, <2>9, FieldTyped
<1>7. ASSUME NEW h \in Writer, Load(h) PROVE wr' \in [Writer -> WriterType]
  <2>1. CASE Active(rows) = {}
    BY <1>7, <2>1, FailTyped DEF Load
  <2>2. CASE Active(rows) # {}
    <3> DEFINE c == ActiveRev(rows)
    <3>1. c \in Rev /\ wr' = [wr EXCEPT ![h].pc = "check", ![h].base = c]
      BY <1>0, <1>7, <2>2 DEF Load
    <3> HIDE DEF c
    <3> QED BY <1>p, <3>1, MoveTyped
  <2> QED BY <2>1, <2>2
<1>8. ASSUME NEW h \in Writer, Check(h) PROVE wr' \in [Writer -> WriterType]
  <2>1. CASE Conflict(h)
    BY <2>1, ConflictTyped
  <2>2. CASE ~Conflict(h)
    <3> DEFINE v == ActiveVersion(rows)
               pc == IF Active(rows) = {} THEN "claim" ELSE "history"
    <3>1. /\ v \in Number /\ pc \in WriterPc
          /\ wr' = [wr EXCEPT ![h].pc = pc, ![h].cur = v]
      BY <1>0, <1>8, <2>2 DEF Check, WriterPc
    <3> HIDE DEF v, pc
    <3> QED BY <1>p, <3>1, MoveTyped
  <2> QED BY <2>1, <2>2
<1>9. ASSUME NEW h \in Writer, History(h) PROVE wr' \in [Writer -> WriterType]
  BY <1>9, GoToTyped, ConflictTyped DEF History, WriterPc
<1>10. ASSUME NEW h \in Writer, Claim(h) PROVE wr' \in [Writer -> WriterType]
  <2> DEFINE c == Claimed(rows, wr[h].exp) # {}
  <2>1. wr' = [wr EXCEPT ![h].pc = "latest", ![h].claimed = c] /\ c \in BOOLEAN
    BY <1>10 DEF Claim
  <2> HIDE DEF c
  <2> QED BY <1>p, <2>1, MoveTyped
<1>11. ASSUME NEW h \in Writer, Latest(h) PROVE wr' \in [Writer -> WriterType]
  <2>1. CASE Conflict(h)
    BY <2>1, ConflictTyped
  <2>2. CASE ~Conflict(h) /\ wr' = [wr EXCEPT ![h].pc = "claim", ![h].saves = @ + 1] /\ ~LastSave(h)
    BY <2>2, AnotherSaveTyped
  <2>3. CASE ~Conflict(h) /\ ~(wr' = [wr EXCEPT ![h].pc = "claim", ![h].saves = @ + 1] /\ ~LastSave(h))
    <3> DEFINE v == LatestVersion(rows)
    <3>1. v \in Number /\ wr' = [wr EXCEPT ![h].pc = "create", ![h].latest = v]
      BY <1>11, <2>3, LatestBounded DEF Latest, Number
    <3> HIDE DEF v
    <3> QED BY <1>p, <3>1, MoveTyped
  <2> QED BY <2>1, <2>2, <2>3
<1>12. ASSUME NEW h \in Writer, Create(h) PROVE wr' \in [Writer -> WriterType]
  BY <1>12, GoToTyped, FailTyped, AnotherSaveTyped DEF Create, WriterPc
<1>13. ASSUME NEW h \in Writer, Cleanup(h) PROVE wr' \in [Writer -> WriterType]
  <2>1. PICK D \in Rows : wr' = [wr EXCEPT ![h].pc = "prune", ![h].old = D]
    BY <1>13 DEF Cleanup, Rows
  <2> QED BY <1>p, <2>1, MoveTyped
<1>14. ASSUME NEW h \in Writer, Prune(h) PROVE wr' \in [Writer -> WriterType]
  <2>1. wr' = [wr EXCEPT ![h].pc = "reread", ![h].old = {}]
    BY <1>14 DEF Prune
  <2> QED BY <1>p, <1>r, <2>1, MoveTyped
<1>15. ASSUME NEW h \in Writer, Reread(h) PROVE wr' \in [Writer -> WriterType]
  <2>1. CASE Active(rows) = {}
    BY <1>15, <2>1, FailTyped DEF Reread
  <2>2. CASE Active(rows) # {}
    <3> DEFINE c == ActiveRev(rows)
    <3>1. c \in Rev /\ wr' = [wr EXCEPT ![h].pc = "install", ![h].base = c]
      BY <1>0, <1>15, <2>2 DEF Reread
    <3> HIDE DEF c
    <3> QED BY <1>p, <3>1, MoveTyped
  <2> QED BY <2>1, <2>2
<1>16. ASSUME NEW h \in Writer, Install(h) \/ InstallFlushed(h) PROVE wr' \in [Writer -> WriterType]
  BY <1>16, GoToTyped DEF Install, InstallFlushed, WriterPc
<1>17. ASSUME NEW h \in Writer, Publish(h) PROVE wr' \in [Writer -> WriterType]
  BY <1>17, GoToTyped DEF Publish, WriterPc
<1>q. ASSUME NEW h \in Writer, QueryFails(h) PROVE wr' \in [Writer -> WriterType]
  BY <1>q, FailTyped DEF QueryFails
<1>18. ASSUME NEW r \in Reload, Deliver(r) \/ Poll(r) \/ ReloadStep(r)
       PROVE  wr' \in [Writer -> WriterType]
  BY <1>18, <1>a DEF Deliver, Poll, ReloadStep, ReloadRead, ReloadFails, ReloadInstall
<1>19. ASSUME NEW p \in Proc, Crash(p) PROVE wr' \in [Writer -> WriterType]
  BY <1>0, <1>p, <1>19 DEF Crash, WriterType
<1>20. CASE UNCHANGED vars
  BY <1>20, <1>a DEF vars
<1> QED
  BY <1>2, <1>3, <1>4, <1>5, <1>6, <1>7, <1>8, <1>9, <1>10, <1>11, <1>12, <1>13, <1>14, <1>15, <1>16,
     <1>17, <1>18, <1>19, <1>20, <1>q DEF Next, SaveStep

\* The rows keep their types, and so does the time.
LEMMA RowsTyped ==
    ASSUME TypeOK, Numbering, [Next]_vars
    PROVE  rows' \in [Rev -> Revision]
<1>1. rows \in [Rev -> Revision]
  BY DEF TypeOK
<1>2. ASSUME NEW h \in Writer, Claim(h) PROVE rows' \in [Rev -> Revision]
  BY <1>1, <1>2, DeactivateFacts DEF Claim
<1>3. ASSUME NEW h \in Writer, Create(h) PROVE rows' \in [Rev -> Revision]
  <2>1. CASE rows' = CreateRow(rows, h, wr[h].latest + 1, Merged(h))
    <3> DEFINE v == wr[h].latest + 1
    <3>1. v \in Version
      BY <1>3, NextVersion DEF Create
    <3>2. rows' = CreateRow(rows, h, v, Merged(h))
      BY <2>1
    <3> HIDE DEF v
    <3> QED BY <1>1, <3>1, <3>2, CreateFacts, MergedType
  <2>2. CASE rows' = rows
    BY <1>1, <2>2
  <2> QED BY <1>3, <2>1, <2>2, CreateEffect
<1>4. ASSUME NEW h \in Writer, Prune(h) PROVE rows' \in [Rev -> Revision]
  <2>1. PICK D : rows' = DeleteRows(rows, D)
    BY <1>4 DEF Prune
  <2> QED BY <1>1, <2>1, DeleteFacts
<1>5. ASSUME rows' = rows PROVE rows' \in [Rev -> Revision]
  BY <1>1, <1>5
<1>6. ASSUME NEW h \in Writer, OpenForm(h) \/ Submit(h) \/ BootLoad(h) \/ SaveStep(h) \/ QueryFails(h)
      PROVE  rows' \in [Rev -> Revision]
  BY <1>2, <1>3, <1>4, <1>5, <1>6
     DEF OpenForm, Submit, BootLoad, SaveStep, BootFlush, ReadVersion, Load, Check, History, Latest,
         Cleanup, Reread, Install, InstallFlushed, Publish, QueryFails
<1>7. ASSUME NEW r \in Reload, Deliver(r) \/ Poll(r) \/ ReloadStep(r)
      PROVE  rows' \in [Rev -> Revision]
  BY <1>5, <1>7 DEF Deliver, Poll, ReloadStep, ReloadRead, ReloadFails, ReloadInstall
<1>8. ASSUME NEW p \in Proc, Crash(p) PROVE rows' \in [Rev -> Revision]
  BY <1>5, <1>8 DEF Crash
<1>9. CASE UNCHANGED vars
  BY <1>5, <1>9 DEF vars
<1> QED BY <1>6, <1>7, <1>8, <1>9 DEF Next

\* Whoever fails releases a lock it holds, and puts a cache back.
LEMMA FailFrame ==
    ASSUME TypeOK, LockKept, NEW h \in Writer, h \notin Boot => AtWork(h), Fail(h)
    PROVE  queue' \in [Proc -> Seq(Writer)] /\ cache' \in [Proc -> Rev]
<1>1. ProcOf[h] \in Proc /\ queue[ProcOf[h]] \in Seq(Writer) /\ wr[h].prev \in Rev
  BY ConfigAssumption DEF TypeOK
<1>2. CASE h \in Boot
  BY <1>2 DEF Fail, Release, TypeOK
<1>3. CASE h \notin Boot
  <2>1. Len(queue[ProcOf[h]]) > 0
    BY <1>1, <1>3 DEF LockKept, Waits
  <2>2. Tail(queue[ProcOf[h]]) \in Seq(Writer)
    BY <1>1, <2>1, QueueFacts
  <2> QED BY <1>1, <1>3, <2>2 DEF Fail, Release, TypeOK
<1> QED BY <1>2, <1>3

LEMMA ConflictFrame ==
    ASSUME TypeOK, LockKept, NEW h \in Writer, h \notin Boot => AtWork(h), Conflict(h)
    PROVE  queue' \in [Proc -> Seq(Writer)] /\ cache' \in [Proc -> Rev]
BY FailFrame DEF Conflict, TypeOK

\* The update locks and the caches keep their types.
LEMMA ProcessesTyped ==
    ASSUME TypeOK, Booting, LockKept, [Next]_vars
    PROVE  queue' \in [Proc -> Seq(Writer)] /\ cache' \in [Proc -> Rev]
<1> DEFINE Goal == queue' \in [Proc -> Seq(Writer)] /\ cache' \in [Proc -> Rev]
<1>1. /\ queue \in [Proc -> Seq(Writer)] /\ cache \in [Proc -> Rev]
      /\ Active(rows) # {} => ActiveRev(rows) \in Rev
      /\ \A h \in Writer : wr[h].base \in Rev /\ ProcOf[h] \in Proc
      /\ \A r \in Reload : /\ rl[r].prev \in Rev /\ rl[r].got \in Rev
                           /\ ReloadProcOf[r] \in Proc
  BY ActiveFacts, ConfigAssumption DEF TypeOK
<1>a. ASSUME queue' = queue, cache' = cache PROVE Goal
  BY <1>1, <1>a
<1>b. ASSUME NEW h \in Writer, Submit(h) PROVE Goal
  <2>1. Append(queue[ProcOf[h]], h) \in Seq(Writer)
    BY <1>1, QueueFacts
  <2> QED BY <1>1, <1>b, <2>1 DEF Submit, view
<1>c. ASSUME NEW h \in Writer, BootLoad(h) PROVE Goal
  <2>1. queue' = queue /\ (cache' = cache \/ \E r \in Rev : PutInCache(ProcOf[h], r, FALSE))
    BY <1>1, <1>c DEF BootLoad
  <2>2. CASE cache' = cache
    BY <1>a, <2>1, <2>2
  <2>3. CASE cache' # cache
    <3>1. PICK r \in Rev : cache' = [cache EXCEPT ![ProcOf[h]] = r]
      BY <2>1, <2>3 DEF PutInCache
    <3> QED BY <1>1, <2>1, <3>1
  <2> QED BY <2>2, <2>3
<1>d. ASSUME NEW h \in Writer, Load(h) PROVE Goal
  <2>1. h \notin Boot => AtWork(h)
    BY <1>d DEF Load, AtWork
  <2> QED BY <1>a, <1>d, <2>1, FailFrame DEF Load
<1>e. ASSUME NEW h \in Writer, Check(h) PROVE Goal
  <2>1. h \notin Boot => AtWork(h)
    BY <1>e DEF Check, AtWork
  <2> QED BY <1>a, <1>e, <2>1, ConflictFrame DEF Check
<1>f. ASSUME NEW h \in Writer, History(h) PROVE Goal
  <2>1. h \notin Boot => AtWork(h)
    BY <1>f DEF History, AtWork
  <2> QED BY <1>a, <1>f, <2>1, ConflictFrame DEF History
<1>g. ASSUME NEW h \in Writer, Latest(h) PROVE Goal
  <2>1. h \notin Boot => AtWork(h)
    BY <1>g DEF Latest, AtWork
  <2> QED BY <1>a, <1>g, <2>1, ConflictFrame DEF Latest
<1>h. ASSUME NEW h \in Writer, Create(h) PROVE Goal
  <2>1. h \notin Boot => AtWork(h)
    BY <1>h DEF Create, AtWork
  <2> QED BY <1>a, <1>h, <2>1, FailFrame DEF Create
<1>i. ASSUME NEW h \in Writer, Reread(h) PROVE Goal
  <2>1. h \notin Boot => AtWork(h)
    BY <1>i DEF Reread, AtWork
  <2> QED BY <1>a, <1>i, <2>1, FailFrame DEF Reread
<1>j. ASSUME NEW h \in Writer, Install(h) \/ InstallFlushed(h) PROVE Goal
  BY <1>1, <1>j DEF Install, InstallFlushed, PutInCache
<1>k. ASSUME NEW h \in Writer, Publish(h) PROVE Goal
  <2>1. AtWork(h) /\ h \notin Boot
    BY <1>k DEF Publish, AtWork, Booting
  <2>2. Len(queue[ProcOf[h]]) > 0 /\ queue[ProcOf[h]] \in Seq(Writer)
    BY <1>1, <2>1 DEF LockKept, Waits
  <2>3. Tail(queue[ProcOf[h]]) \in Seq(Writer)
    BY <2>2, QueueFacts
  <2> QED BY <1>1, <1>k, <2>3 DEF Publish, Release
<1>l. ASSUME NEW r \in Reload, Deliver(r) \/ Poll(r) \/ ReloadStep(r) PROVE Goal
  BY <1>1, <1>l DEF PutInCache, Deliver, Poll, ReloadStep, ReloadRead, ReloadFails, ReloadInstall
<1>m. ASSUME NEW p \in Proc, Crash(p) PROVE Goal
  <2>1. <<>> \in Seq(Writer)
    OBVIOUS
  <2> QED BY <1>1, <1>m, <2>1 DEF Crash
<1>q. ASSUME NEW h \in Writer, QueryFails(h) PROVE Goal
  BY <1>q, QueryFailsEffect, FailFrame
<1>n. ASSUME NEW h \in Writer, OpenForm(h) \/ SaveStep(h) PROVE Goal
  BY <1>n, <1>a, <1>d, <1>e, <1>f, <1>g, <1>h, <1>i, <1>j, <1>k
     DEF OpenForm, SaveStep, BootFlush, ReadVersion, Claim, Cleanup, Prune, view
<1> QED BY <1>a, <1>b, <1>c, <1>l, <1>m, <1>n, <1>q DEF Next, vars

\* A reload installs what it read.
LEMMA ReloadsTyped ==
    ASSUME TypeOK, [Next]_vars
    PROVE  rl' \in [Reload -> ReloadType]
<1>1. /\ rl \in [Reload -> ReloadType]
      /\ Active(rows) # {} => ActiveRev(rows) \in Rev
      /\ \A r \in Reload : ReloadProcOf[r] \in Proc
      /\ \A p \in Proc : cache[p] \in Rev
  BY ActiveFacts, ConfigAssumption DEF TypeOK, ReloadType
<1>2. IdleReload \in ReloadType
  BY Constants DEF IdleReload, ReloadType, ReloadPc
<1>3. ASSUME rl' = rl PROVE rl' \in [Reload -> ReloadType]
  BY <1>1, <1>3
<1>4. ASSUME NEW r \in Reload, NEW x \in BOOLEAN, StartReload(r, x)
      PROVE  rl' \in [Reload -> ReloadType]
  <2> DEFINE c == cache[ReloadProcOf[r]]
             i == [IdleReload EXCEPT !.pc = "read", !.poll = x, !.prev = c]
  <2>1. c \in Rev
    BY <1>1
  <2>2. rl' = [rl EXCEPT ![r] = i]
    BY <1>4 DEF StartReload
  <2>3. i \in ReloadType
    <3> HIDE DEF c
    <3> QED BY <2>1, Constants DEF IdleReload, ReloadType, ReloadPc
  <2> HIDE DEF i
  <2> QED BY <1>1, <2>2, <2>3
<1>5. ASSUME NEW r \in Reload, Deliver(r) \/ Poll(r) PROVE rl' \in [Reload -> ReloadType]
  BY <1>4, <1>5 DEF Deliver, Poll
<1>6. ASSUME NEW r \in Reload, ReloadRead(r) PROVE rl' \in [Reload -> ReloadType]
  <2> DEFINE c == ActiveRev(rows)
             f == [rl EXCEPT ![r].pc = "install"]
  <2>1. c \in Rev /\ rl' = [rl EXCEPT ![r].pc = "install", ![r].got = c]
    BY <1>1, <1>6 DEF ReloadRead
  <2> HIDE DEF c
  <2>2. f \in [Reload -> ReloadType]
    BY <1>1 DEF ReloadType, ReloadPc
  <2>3. rl' = [f EXCEPT ![r].got = c]
    BY <2>1
  <2> HIDE DEF f
  <2> QED BY ZenonT(40), <2>1, <2>2, <2>3 DEF ReloadType
<1>7. ASSUME NEW r \in Reload, ReloadInstall(r) \/ ReloadFails(r) PROVE rl' \in [Reload -> ReloadType]
  BY <1>1, <1>2, <1>7 DEF ReloadInstall, ReloadFails
<1>8. ASSUME NEW p \in Proc, Crash(p) PROVE rl' \in [Reload -> ReloadType]
  BY SMTT(30), <1>1, <1>2, <1>8 DEF Crash
<1>9. ASSUME NEW h \in Writer, OpenForm(h) \/ Submit(h) \/ BootLoad(h) \/ SaveStep(h) \/ QueryFails(h)
      PROVE  rl' \in [Reload -> ReloadType]
  BY <1>3, <1>9
     DEF OpenForm, Submit, BootLoad, SaveStep, BootFlush, ReadVersion, Load, Check, History, Claim,
         Latest, Create, Cleanup, Prune, Reread, Install, InstallFlushed, Publish, QueryFails, view
<1>10. CASE UNCHANGED vars
  BY <1>3, <1>10 DEF vars
<1> QED BY <1>5, <1>6, <1>7, <1>8, <1>9, <1>10 DEF Next, ReloadStep

\* Times and events are counted.
LEMMA CountersTyped ==
    ASSUME TypeOK, [Next]_vars
    PROVE  /\ primed' \in [Proc -> BOOLEAN] /\ stamp' \in [Proc -> SUBSET Nat]
           /\ inbox' \in [Proc -> Nat]
<1> DEFINE Goal == /\ primed' \in [Proc -> BOOLEAN] /\ stamp' \in [Proc -> SUBSET Nat]
                   /\ inbox' \in [Proc -> Nat]
<1>1. /\ primed \in [Proc -> BOOLEAN] /\ stamp \in [Proc -> SUBSET Nat] /\ inbox \in [Proc -> Nat]
      /\ \A h \in Writer : ProcOf[h] \in Proc
      /\ \A r \in Reload : ReloadProcOf[r] \in Proc
  BY ConfigAssumption DEF TypeOK
<1>2. StampNow \in SUBSET Nat /\ {SavesSoFar(rows)} \in SUBSET Nat
  <2>1. \A r \in Rev : rows[r].at \in Nat
    BY DEF TypeOK, Revision
  <2>2. StampNow \in SUBSET Nat
    BY <2>1 DEF StampNow, Active
  <2>3. SavesSoFar(rows) \in Nat
    BY Constants DEF SavesSoFar
  <2> QED BY <2>2, <2>3
<1>3. ASSUME UNCHANGED <<primed, stamp, inbox>> PROVE Goal
  BY <1>1, <1>3
<1>4. ASSUME NEW h \in Writer, BootLoad(h) PROVE Goal
  BY <1>1, <1>2, <1>4 DEF BootLoad
<1>5. ASSUME NEW h \in Writer, Check(h) PROVE Goal
  <2>1. /\ inbox' = inbox
        /\ \/ UNCHANGED <<primed, stamp>>
           \/ /\ primed' = [primed EXCEPT ![ProcOf[h]] = TRUE]
              /\ stamp' = [stamp EXCEPT ![ProcOf[h]] = StampNow]
    BY <1>5 DEF Check
  <2> QED BY <1>1, <1>2, <2>1
<1>6. ASSUME NEW h \in Writer, ReadVersion(h) \/ Prune(h) PROVE Goal
  BY <1>1, <1>6 DEF ReadVersion, Prune
<1>7. ASSUME NEW h \in Writer, Install(h) PROVE Goal
  BY <1>1, <1>2, <1>7 DEF Install
<1>8. ASSUME NEW h \in Writer, InstallFlushed(h) PROVE Goal
  <2> DEFINE t == {SavesSoFar(rows)}
  <2>1. stamp' = [stamp EXCEPT ![ProcOf[h]] = t] /\ t \in SUBSET Nat
    BY <1>2, <1>8 DEF InstallFlushed
  <2> HIDE DEF t
  <2> QED BY <1>1, <1>8, <2>1 DEF InstallFlushed
<1>9. ASSUME NEW h \in Writer, Publish(h) PROVE Goal
  <2>1. inbox' \in [Proc -> Nat]
    BY <1>1, <1>9 DEF Publish, Broadcast
  <2> QED BY <1>1, <1>9, <2>1 DEF Publish
<1>10. ASSUME NEW r \in Reload, Deliver(r) PROVE Goal
  BY <1>1, <1>10 DEF Deliver, StartReload
<1>11. ASSUME NEW r \in Reload, Poll(r) \/ ReloadRead(r) \/ ReloadFails(r) PROVE Goal
  BY <1>1, <1>11 DEF Poll, StartReload, ReloadRead, ReloadFails
<1>12. ASSUME NEW r \in Reload, ReloadInstall(r) PROVE Goal
  BY <1>1, <1>2, <1>12 DEF ReloadInstall
<1>13. ASSUME NEW p \in Proc, Crash(p) PROVE Goal
  BY <1>1, <1>13 DEF Crash
<1>14. ASSUME NEW h \in Writer, OpenForm(h) \/ Submit(h) \/ SaveStep(h) \/ QueryFails(h) PROVE Goal
  BY <1>3, <1>5, <1>6, <1>7, <1>8, <1>9, <1>14
     DEF OpenForm, Submit, SaveStep, BootFlush, Load, History, Claim, Latest, Create, Cleanup, Reread,
         QueryFails, view
<1>15. CASE UNCHANGED vars
  BY <1>3, <1>15 DEF vars
<1> QED BY <1>4, <1>10, <1>11, <1>12, <1>13, <1>14, <1>15 DEF Next, ReloadStep

PastType == [told: Nat, reached: Nat, disturbed: BOOLEAN]

\* What is put in the cache is counted by its age.
LEMMA CachePutTyped ==
    ASSUME TypeOK, NEW p \in Proc, NEW r \in Rev, NEW x \in BOOLEAN, PutInCache(p, r, x)
    PROVE  past' \in [Proc -> PastType]
<1> DEFINE n == IF Age(r) > past[p].reached THEN Age(r) ELSE past[p].reached
           d == past[p].disturbed \/ ~x
<1>1. past \in [Proc -> PastType] /\ Age(r) \in Nat
  BY DEF TypeOK, PastType, Age, Revision
<1>2. n \in Nat /\ d \in BOOLEAN
  BY <1>1 DEF PastType
<1>3. past' = [past EXCEPT ![p].reached = n, ![p].disturbed = d]
  BY <1>1 DEF PutInCache, PastType
<1> HIDE DEF n, d
<1> QED BY <1>1, <1>2, <1>3 DEF PastType

\* The record of the caches' past.
LEMMA PastTyped ==
    ASSUME TypeOK, [Next]_vars
    PROVE  past' \in [Proc -> PastType]
<1>1. /\ past \in [Proc -> PastType] /\ \A r \in Rev : Age(r) \in Nat
      /\ \A h \in Writer : wr[h].base \in Rev /\ ProcOf[h] \in Proc /\ h \in Rev
      /\ \A r \in Reload : rl[r].got \in Rev /\ ReloadProcOf[r] \in Proc
      /\ Active(rows) # {} => ActiveRev(rows) \in Rev
  BY ActiveFacts, ConfigAssumption, Constants DEF TypeOK, PastType, Age, Revision
<1>2. ASSUME past' = past PROVE past' \in [Proc -> PastType]
  BY <1>1, <1>2
<1>3. ASSUME NEW h \in Writer, BootLoad(h) PROVE past' \in [Proc -> PastType]
  BY <1>1, <1>3, CachePutTyped DEF BootLoad
<1>4. ASSUME NEW h \in Writer, Install(h) \/ InstallFlushed(h) PROVE past' \in [Proc -> PastType]
  BY <1>1, <1>4, CachePutTyped DEF Install, InstallFlushed
<1>5. ASSUME NEW h \in Writer, ReadVersion(h) PROVE past' \in [Proc -> PastType]
  <2> DEFINE d == past[ProcOf[h]].disturbed /\ wr[h].attempt > 0
  <2>1. past' = [past EXCEPT ![ProcOf[h]].disturbed = d] /\ d \in BOOLEAN
    BY <1>1, <1>5 DEF ReadVersion, PastType
  <2> HIDE DEF d
  <2> QED BY <1>1, <2>1 DEF PastType
<1>6. ASSUME NEW h \in Writer, Publish(h) PROVE past' \in [Proc -> PastType]
  BY <1>1, <1>6 DEF Publish, Broadcast, PastType
<1>7. ASSUME NEW r \in Reload, ReloadFails(r) PROVE past' \in [Proc -> PastType]
  BY <1>1, <1>7 DEF ReloadFails, PastType
<1>8. ASSUME NEW r \in Reload, ReloadInstall(r) PROVE past' \in [Proc -> PastType]
  BY <1>1, <1>8, CachePutTyped DEF ReloadInstall
<1>9. ASSUME NEW p \in Proc, Crash(p) PROVE past' \in [Proc -> PastType]
  BY <1>1, <1>9 DEF Crash, PastType
<1>10. ASSUME NEW h \in Writer, OpenForm(h) \/ Submit(h) \/ SaveStep(h) \/ QueryFails(h)
       PROVE  past' \in [Proc -> PastType]
  BY <1>2, <1>4, <1>5, <1>6, <1>10
     DEF OpenForm, Submit, SaveStep, BootFlush, Load, Check, History, Claim, Latest, Create, Cleanup,
         Prune, Reread, QueryFails, view
<1>11. ASSUME NEW r \in Reload, Deliver(r) \/ Poll(r) \/ ReloadRead(r) PROVE past' \in [Proc -> PastType]
  BY <1>2, <1>11 DEF Deliver, Poll, ReloadRead
<1>12. CASE UNCHANGED vars
  BY <1>2, <1>12 DEF vars
<1> QED BY <1>3, <1>7, <1>8, <1>9, <1>10, <1>11, <1>12 DEF Next, ReloadStep

TypeInv == TypeOK /\ Numbering /\ Booting /\ LockKept

\* At the start one row is stored, and nobody waits.
LEMMA TypeInvInit == Init => TypeInv
<1> SUFFICES ASSUME Init PROVE TypeInv
  OBVIOUS
<1>1. /\ rows \in [Rev -> Revision] /\ rows[Genesis].ver = 1 /\ rows[Genesis].state = "active"
      /\ \A h \in Writer : rows[h].state = "gone" /\ rows[h].ver = NoVersion
  BY InitialFacts DEF Init
<1>2. wr \in [Writer -> WriterType] /\ \A h \in Writer : wr[h] = NewWriter
  <2>1. Genesis \in Rev /\ {} \in Rows /\ 0 \in Attempt /\ 0 \in SaveAttempt /\ NoVersion \in Number
    BY Constants DEF Rows, Attempt, SaveAttempt, Number
  <2> QED BY <2>1 DEF Init, NewWriter, WriterType, WriterPc
<1>3. /\ queue \in [Proc -> Seq(Writer)] /\ cache \in [Proc -> Rev]
      /\ primed \in [Proc -> BOOLEAN] /\ inbox \in [Proc -> Nat]
      /\ stamp \in [Proc -> SUBSET Nat] /\ past \in [Proc -> PastType]
  BY <1>1, Constants DEF Init, StampNow, Active, Revision, PastType
<1>4. rl \in [Reload -> ReloadType]
  BY Constants DEF Init, IdleReload, ReloadType, ReloadPc
<1>5. TypeOK
  BY <1>1, <1>2, <1>3, <1>4
     DEF TypeOK, WriterType, ReloadType, PastType, Number, Attempt, SaveAttempt, Rows
<1>6. Made = {}
  BY <1>1 DEF Made
<1>7. Cardinality(Made) = 0
  BY <1>6, FS_EmptySet
<1>8. Numbering
  <2>1. \A r \in Rev : r = Genesis \/ r \in Writer
    BY DEF Rev
  <2>2. \A r \in Rev : rows[r].ver <= 1
    BY <1>1, <2>1, Constants
  <2>3. \A r \in Present(rows) : rows[r].ver # NoVersion
    BY <1>1, <2>1, Constants DEF Present
  <2> QED BY <1>1, <1>2, <1>7, <2>2, <2>3 DEF Numbering, NewWriter
<1>9. Booting /\ LockKept
  BY <1>2, Constants, ConfigAssumption DEF Booting, LockKept, AtWork, NewWriter
<1> QED BY <1>5, <1>8, <1>9 DEF TypeInv

LEMMA TypeInvStep == TypeInv /\ [Next]_vars => TypeInv'
<1> SUFFICES ASSUME TypeInv, [Next]_vars PROVE TypeInv'
  OBVIOUS
<1>1. TypeOK'
  BY WritersTyped, RowsTyped, ProcessesTyped, ReloadsTyped, CountersTyped, PastTyped
     DEF TypeInv, TypeOK, WriterType, ReloadType, PastType, Number, Attempt, SaveAttempt, Rows
<1> QED BY <1>1, NumberingKept, BootingKept, LockKeeps DEF TypeInv

\* What the type invariant says of the rows.
LEMMA RowsInv ==
    ASSUME TypeInv
    PROVE  /\ TypeOK /\ rows \in [Rev -> Revision] /\ Writer \subseteq Rev
           /\ \A r \in Rev : rows[r].ver \in Nat
           /\ \A g \in Writer : wr[g].old \in SUBSET Rev
<1>1. TypeOK
  BY DEF TypeInv
<1>2. rows \in [Rev -> Revision] /\ \A g \in Writer : wr[g].old \in SUBSET Rev
  BY <1>1 DEF TypeOK
<1>3. \A r \in Rev : rows[r].ver \in Version \cup {NoVersion}
  BY <1>2 DEF Revision
<1> QED BY <1>1, <1>2, <1>3, Constants

LEMMA TypeInvAlways == Spec => []TypeInv
BY TypeInvInit, TypeInvStep, PTL DEF Spec

\* The types hold for any writers and processes: an update is tried at most
\* MaxAttempts times (updateConfig), a save at most SETTINGS_SAVE_MAX_ATTEMPTS
\* times, and int_version never exceeds the number of saves.
THEOREM ConfigTypes == Spec => []TypeOK
BY TypeInvAlways, PTL DEF TypeInv

-----------------------------------------------------------------------------
(* One owner of the hand-off.                                              *)

OrderKept == VersionsGrow /\ OneOwner /\ FormsVersioned

\* Only a save that has not inserted its row claims.
LEMMA OrderlyBefore ==
    ASSUME TypeInv, [Next]_vars, Orderly'
    PROVE  Orderly
<1>0. rows \in [Rev -> Revision] /\ TypeOK /\ Writer \subseteq Rev
  BY RowsInv
<1>1. \A h \in Writer : wr[h].pc \in BeforeCreate => rows[h].ver = NoVersion
  BY DEF TypeInv, Numbering
<1>a. ASSUME \A h \in Writer : rows[h].ver # NoVersion =>
                rows'[h].ver # NoVersion /\ wr'[h].claimed = wr[h].claimed
      PROVE  Orderly
  BY <1>a DEF Orderly
<1>b. ASSUME rows' = rows, NEW h \in Writer, Others(h), wr'[h].claimed = wr[h].claimed
      PROVE  Orderly
  BY <1>a, <1>b DEF Others
<1>c. ASSUME rows' = rows, NEW h \in Writer, OnlyPc(h) PROVE Orderly
  BY <1>b, <1>c DEF OnlyPc, KeptNumbers
<1>d. ASSUME rows' = rows, NEW h \in Writer, Fail(h) \/ Conflict(h) PROVE Orderly
  BY <1>0, <1>c, <1>d, FailEffect, ConflictEffect
<1>e. ASSUME rows' = rows, NEW h \in Writer, AnotherSave(h) PROVE Orderly
  BY <1>b, <1>e DEF AnotherSave
<1>f. ASSUME UNCHANGED <<rows, wr>> PROVE Orderly
  BY <1>a, <1>f
<1>2. ASSUME NEW h \in Writer, OpenForm(h) PROVE Orderly
  BY <1>0, <1>2, <1>b, OpenFormEffect DEF OpenForm
<1>3. ASSUME NEW h \in Writer, Submit(h) \/ BootLoad(h) \/ BootFlush(h) PROVE Orderly
  <2>1. OnlyPc(h) /\ rows' = rows
    <3>1. CASE Submit(h)
      BY <1>0, <3>1, SubmitEffect
    <3>2. CASE BootLoad(h) \/ BootFlush(h)
      BY <1>0, <3>2, BootEffect
    <3> QED BY <1>3, <3>1, <3>2
  <2> QED BY <1>c, <2>1
<1>6. ASSUME NEW h \in Writer, ReadVersion(h) PROVE Orderly
  BY <1>0, <1>6, <1>b, ReadVersionEffect
<1>7. ASSUME NEW h \in Writer, Load(h) PROVE Orderly
  BY <1>0, <1>7, <1>b, <1>d, LoadEffect DEF Load, KeptNumbers
<1>8. ASSUME NEW h \in Writer, Check(h) PROVE Orderly
  BY <1>0, <1>8, <1>b, <1>d, CheckEffect DEF Check
<1>9. ASSUME NEW h \in Writer, History(h) PROVE Orderly
  BY <1>0, <1>9, <1>c, <1>d, GoToEffect DEF History
<1>10. ASSUME NEW h \in Writer, Claim(h) PROVE Orderly
  <2>1. Others(h) /\ rows[h].ver = NoVersion
    BY <1>0, <1>1, <1>10, ClaimEffect DEF Claim, BeforeCreate
  <2>2. \A r \in Rev : rows'[r].ver = rows[r].ver
    BY <1>0, <1>10, DeactivateFacts DEF Claim
  <2> QED BY <1>0, <1>a, <2>1, <2>2 DEF Others
<1>11. ASSUME NEW h \in Writer, Latest(h) PROVE Orderly
  BY <1>0, <1>11, <1>b, <1>d, <1>e, LatestEffect DEF Latest
<1>12. ASSUME NEW h \in Writer, Create(h) PROVE Orderly
  <2>1. CASE CanCreate(rows)
    <3> DEFINE v == wr[h].latest + 1
    <3>1. v \in Version /\ Merged(h) \in SUBSET Writer
      BY <1>12, NextVersion, MergedType DEF TypeInv, Create
    <3>2. OnlyPc(h) /\ rows' = CreateRow(rows, h, v, Merged(h)) /\ rows[h].ver = NoVersion
      BY <1>0, <1>1, <1>12, <2>1, CreateEffect DEF Create, BeforeCreate
    <3> HIDE DEF v
    <3>3. \A r \in Rev \ {h} : rows'[r] = rows[r]
      BY <1>0, <3>1, <3>2, CreateFacts
    <3> QED BY <1>0, <1>a, <3>2, <3>3 DEF OnlyPc, Others
  <2>2. CASE ~CanCreate(rows)
    BY <1>0, <1>12, <1>d, <1>e, <2>2, CreateEffect
  <2> QED BY <2>1, <2>2
<1>13. ASSUME NEW h \in Writer, Cleanup(h) PROVE Orderly
  BY <1>0, <1>13, <1>b, CleanupEffect DEF Cleanup, KeptNumbers
<1>14. ASSUME NEW h \in Writer, Prune(h) PROVE Orderly
  <2>1. Others(h) /\ wr'[h].claimed = wr[h].claimed
    BY <1>0, <1>14, PruneEffect DEF KeptNumbers
  <2>2. \A r \in Rev : rows'[r].ver = rows[r].ver
    <3>1. PICK D : rows' = DeleteRows(rows, D)
      BY <1>14 DEF Prune
    <3> QED BY <1>0, <3>1, DeleteFacts
  <2> QED BY <1>0, <1>a, <2>1, <2>2 DEF Others
<1>15. ASSUME NEW h \in Writer, Reread(h) PROVE Orderly
  BY <1>0, <1>15, <1>b, <1>d, RereadEffect DEF Reread, KeptNumbers
<1>16. ASSUME NEW h \in Writer, Install(h) \/ InstallFlushed(h) \/ Publish(h) PROVE Orderly
  BY <1>0, <1>16, <1>c, GoToEffect DEF Install, InstallFlushed, Publish
<1>q. ASSUME NEW h \in Writer, QueryFails(h) PROVE Orderly
  BY <1>d, <1>q DEF QueryFails
<1>18. ASSUME NEW r \in Reload, Deliver(r) \/ Poll(r) \/ ReloadStep(r) PROVE Orderly
  BY <1>18, <1>f DEF Deliver, Poll, ReloadStep, ReloadRead, ReloadFails, ReloadInstall
<1>19. ASSUME NEW p \in Proc, Crash(p) PROVE Orderly
  <2>1. \A h \in Writer : wr'[h].claimed = wr[h].claimed
    BY <1>0, <1>19, CrashEffect DEF KeptNumbers
  <2> QED BY <1>19, <1>a, <2>1 DEF Crash
<1>20. CASE UNCHANGED vars
  BY <1>20, <1>f DEF vars
<1> QED
  BY <1>2, <1>3, <1>6, <1>7, <1>8, <1>9, <1>10, <1>11, <1>12, <1>13, <1>14, <1>15, <1>16,
     <1>18, <1>19, <1>20, <1>q DEF Next, SaveStep

\* A step of a writer outside the hand-off, on the rows as they are.
LEMMA OrderStep ==
    ASSUME OrderKept, NEW h \in Writer, Others(h), rows' = rows,
           ~Owner(h), wr'[h].claimed = wr[h].claimed, wr'[h].old = wr[h].old,
           h \in Form => /\ wr'[h].exp # NoVersion
                         /\ rows[h].ver # NoVersion => wr'[h].exp = wr[h].exp
    PROVE  OrderKept'
<1>1. \A r \in Rev : Newest(r)' <=> Newest(r)
  BY DEF Newest
<1>2. Active(rows)' = Active(rows) /\ Present(rows)' = Present(rows)
  BY DEF Active, Present
<1>3. VersionsGrow'
  <2>1. \A g \in Writer : wr'[g].old = wr[g].old
    BY DEF Others
  <2> QED BY <1>2, <2>1 DEF OrderKept, VersionsGrow, Newest
<1>4. \A g \in Writer : (Owner(g)' <=> Owner(g)) /\ (Owner(g) => wr'[g] = wr[g])
  BY DEF Owner, Others
<1>5. \A v : NewestVersion(v)' <=> NewestVersion(v)
  BY DEF NewestVersion
<1>6. OneOwner'
  BY <1>2, <1>4, <1>5 DEF OrderKept, OneOwner
<1>7. FormsVersioned'
  BY ConfigAssumption DEF OrderKept, FormsVersioned, Others
<1> QED BY <1>3, <1>6, <1>7 DEF OrderKept

\* The active row is the newest, so there is one, and a claim takes it.
LEMMA OneActive ==
    ASSUME TypeInv, OrderKept
    PROVE  /\ \A r, s \in Active(rows) : r = s
           /\ \A h \in Writer : Claimed(rows, wr[h].exp) # {} => Claimed(rows, wr[h].exp) = Active(rows)
<1>1. \A r \in Rev : rows[r].ver \in Nat
  BY RowsInv, Constants
<1>2. \A r \in Active(rows) : r \in Rev /\ Newest(r) /\ rows[r].ver # NoVersion
  BY DEF Active, Present, TypeInv, Numbering, OrderKept, VersionsGrow
<1>3. \A r, s \in Active(rows) : rows[r].ver = rows[s].ver
  BY <1>1, <1>2 DEF Newest
<1>4. \A r, s \in Active(rows) : r = s
  BY <1>2, <1>3 DEF OrderKept, VersionsGrow
<1> QED BY <1>4 DEF Claimed

\* updateMany: whoever deactivates a row becomes the one owner of the hand-off.
LEMMA OrderClaimed ==
    ASSUME TypeInv, OrderKept, NEW h \in Writer, Claim(h)
    PROVE  OrderKept'
<1> DEFINE C == Claimed(rows, wr[h].exp)
<1>0. rows \in [Rev -> Revision] /\ TypeOK /\ Writer \subseteq Rev
  BY RowsInv
<1>1. /\ Others(h) /\ wr'[h].pc = "latest" /\ wr'[h].claimed = (C # {})
      /\ wr'[h].exp = wr[h].exp /\ wr'[h].old = wr[h].old /\ wr[h].pc = "claim"
  BY <1>0, ClaimEffect DEF KeptSets, Claim
<1>2. \A r \in Rev : /\ rows'[r].ver = rows[r].ver
                     /\ rows'[r].state = "gone" <=> rows[r].state = "gone"
                     /\ rows'[r].state = "active" <=> rows[r].state = "active" /\ r \notin C
  BY <1>0, DeactivateFacts DEF Claim
<1>3. rows[h].ver = NoVersion /\ ~Owner(h)
  BY <1>1 DEF TypeInv, Numbering, BeforeCreate, OrderKept, OneOwner
<1>4. \A r \in Rev : Newest(r)' <=> Newest(r)
  BY <1>2 DEF Newest
<1>5. \A v : NewestVersion(v)' <=> NewestVersion(v)
  BY <1>2 DEF NewestVersion
<1>6. Active(rows)' = Active(rows) \ C /\ Present(rows)' = Present(rows)
  BY <1>2 DEF Active, Present
<1>7. \A g \in Writer : wr'[g].old = wr[g].old
  BY <1>1 DEF Others
<1>8. VersionsGrow'
  <2>1. (\A r, s \in Rev : rows[r].ver = rows[s].ver /\ rows[r].ver # NoVersion => r = s)'
    BY <1>2 DEF OrderKept, VersionsGrow
  <2>2. (\E r \in Present(rows) : Newest(r))' /\ (\A r \in Active(rows) : Newest(r))'
    BY <1>4, <1>6 DEF OrderKept, VersionsGrow, Present, Active
  <2>3. (\A g \in Writer : \A d \in wr[g].old : rows[d].ver # NoVersion /\ ~Newest(d))'
    <3>1. \A g \in Writer : \A d \in wr[g].old : d \in Rev
      BY <1>0 DEF TypeOK
    <3> QED BY <1>2, <1>4, <1>7, <3>1 DEF OrderKept, VersionsGrow
  <2> QED BY <2>1, <2>2, <2>3 DEF VersionsGrow
<1>9. \A g \in Writer : g # h => (Owner(g)' <=> Owner(g)) /\ wr'[g] = wr[g]
  BY <1>0, <1>1, <1>2 DEF Owner, Others
<1>10. ASSUME C = {} PROVE OneOwner'
  <2>1. ~Owner(h)'
    BY <1>1, <1>10 DEF Owner
  <2>2. \A g \in Writer : (Owner(g)' <=> Owner(g)) /\ (Owner(g) => wr'[g] = wr[g])
    BY <1>3, <1>9, <2>1
  <2>3. Active(rows)' = Active(rows)
    BY <1>6, <1>10
  <2> QED BY <1>5, <2>2, <2>3 DEF OrderKept, OneOwner
<1>11. ASSUME C # {} PROVE OneOwner'
  <2>1. Active(rows) # {} /\ Active(rows)' = {}
    BY <1>6, <1>11, OneActive DEF Claimed
  <2>2. \A g \in Writer : ~Owner(g)
    BY <2>1 DEF OrderKept, OneOwner
  <2>3. Owner(h)' /\ \A g \in Writer : Owner(g)' => g = h
    BY <1>0, <1>1, <1>2, <1>3, <1>9, <1>11, <2>2 DEF Owner
  <2>4. wr[h].exp # NoVersion => NewestVersion(wr[h].exp)
    <3> HAVE wr[h].exp # NoVersion
    <3>1. PICK r \in Active(rows) : rows[r].ver = wr[h].exp
      BY <1>11 DEF Claimed
    <3>2. r \in Rev /\ Newest(r)
      BY DEF Active, OrderKept, VersionsGrow
    <3> QED BY <3>1, <3>2 DEF Newest, NewestVersion
  <2>5. (Owner(h) => /\ Active(rows) = {}
                     /\ \/ wr[h].pc \in {"latest", "create", "lost"}
                        \/ wr[h].pc \in {"failed", "done"} /\ h \in Failing
                     /\ wr[h].exp # NoVersion => NewestVersion(wr[h].exp)
                     /\ wr[h].pc = "create" => NewestVersion(wr[h].latest))'
    BY <1>1, <1>2, <2>1, <2>4 DEF NewestVersion
  <2> QED BY <2>1, <2>3, <2>5 DEF OneOwner
<1>12. FormsVersioned'
  <2>1. \A g \in Form : g \in Writer /\ rows'[g].ver = rows[g].ver
    BY <1>0, <1>2, ConfigAssumption
  <2>2. h \in Form => wr'[h].exp # NoVersion
    BY <1>1 DEF OrderKept, FormsVersioned
  <2>3. \A g \in Form : g # h => wr'[g] = wr[g]
    BY <1>1, <2>1 DEF Others
  <2> QED BY <1>1, <1>3, <2>1, <2>2, <2>3 DEF OrderKept, FormsVersioned
<1> QED BY <1>8, <1>10, <1>11, <1>12 DEF OrderKept

\* The next version is counted from the newest row, which is still there.
LEMMA OrderCounted ==
    ASSUME TypeInv, OrderKept, NEW h \in Writer, wr[h].pc = "latest",
           Others(h), KeptSets(h), rows' = rows,
           wr'[h].pc = "create", wr'[h].latest = LatestVersion(rows),
           wr'[h].exp = wr[h].exp, wr'[h].claimed = wr[h].claimed
    PROVE  OrderKept'
<1>0. rows \in [Rev -> Revision] /\ \A r \in Present(rows) : rows[r].ver # NoVersion
  BY DEF TypeInv, TypeOK, Numbering
<1>1. NewestVersion(LatestVersion(rows))
  <2>1. PICK r \in Present(rows) : Newest(r)
    BY DEF OrderKept, VersionsGrow
  <2>2. /\ LatestVersion(rows) \in Version /\ rows[r].ver <= LatestVersion(rows)
        /\ \E s \in Present(rows) : rows[s].ver = LatestVersion(rows)
    BY <1>0, <2>1, LatestIsGreatest
  <2>3. PICK s \in Present(rows) : rows[s].ver = LatestVersion(rows)
    BY <2>2
  <2>4. \A q \in Rev : rows[q].ver \in Nat
    BY <1>0, Constants DEF Revision
  <2>5. r \in Rev /\ s \in Rev
    BY DEF Present
  <2>6. rows[s].ver <= rows[r].ver
    BY <2>1, <2>5 DEF Newest
  <2>7. rows[r].ver = LatestVersion(rows)
    BY <2>2, <2>3, <2>4, <2>5, <2>6
  <2> QED BY <2>1, <2>5, <2>7 DEF Newest, NewestVersion
<1>2. \A r \in Rev : Newest(r)' <=> Newest(r)
  BY DEF Newest
<1>3. \A v : NewestVersion(v)' <=> NewestVersion(v)
  BY DEF NewestVersion
<1>4. Active(rows)' = Active(rows) /\ Present(rows)' = Present(rows)
  BY DEF Active, Present
<1>5. VersionsGrow'
  <2>1. \A g \in Writer : wr'[g].old = wr[g].old
    BY DEF Others, KeptSets
  <2> QED BY <1>4, <2>1 DEF OrderKept, VersionsGrow, Newest
<1>6. \A g \in Writer : (Owner(g)' <=> Owner(g)) /\ (g # h => wr'[g] = wr[g])
  BY DEF Owner, Others
<1>7. (Owner(h) => /\ Active(rows) = {}
                   /\ \/ wr[h].pc \in {"latest", "create", "lost"}
                      \/ wr[h].pc \in {"failed", "done"} /\ h \in Failing
                   /\ wr[h].exp # NoVersion => NewestVersion(wr[h].exp)
                   /\ wr[h].pc = "create" => NewestVersion(wr[h].latest))'
  BY <1>1, <1>3, <1>4, <1>6 DEF OrderKept, OneOwner
<1>8. OneOwner'
  BY <1>3, <1>4, <1>6, <1>7 DEF OrderKept, OneOwner
<1>9. FormsVersioned'
  <2>1. \A g \in Form : g \in Writer
    BY ConfigAssumption
  <2>2. h \in Form => wr'[h].exp # NoVersion
    BY DEF OrderKept, FormsVersioned
  <2> QED BY <1>6, <2>1, <2>2 DEF OrderKept, FormsVersioned
<1> QED BY <1>5, <1>8, <1>9 DEF OrderKept

\* create: the owner's row is newer than all before it, and active alone.
LEMMA OrderCreated ==
    ASSUME TypeInv, OrderKept, NEW h \in Writer, wr[h].pc = "create", CanCreate(rows), wr[h].claimed,
           OnlyPc(h), wr'[h].pc = "cleanup", rows' = CreateRow(rows, h, wr[h].latest + 1, Merged(h))
    PROVE  OrderKept'
<1> DEFINE v == wr[h].latest + 1
<1>0. rows \in [Rev -> Revision] /\ TypeOK /\ Writer \subseteq Rev /\ h \in Rev
      /\ \A r \in Rev : rows[r].ver \in Nat
  BY RowsInv, Constants
<1>1. v \in Version /\ v \in Nat /\ v # NoVersion /\ rows[h].ver = NoVersion
  BY NextVersion, Constants DEF TypeInv, Numbering, BeforeCreate
<1>2. /\ rows'[h].ver = v /\ rows'[h].state = "active" /\ \A r \in Rev \ {h} : rows'[r] = rows[r]
  <2>1. rows' = CreateRow(rows, h, v, Merged(h)) /\ Merged(h) \in SUBSET Writer
    BY <1>0, MergedType
  <2> HIDE DEF v
  <2> QED BY <1>0, <1>1, <2>1, CreateFacts
<1>3. Owner(h) /\ NewestVersion(wr[h].latest)
  BY <1>1 DEF Owner, OrderKept, OneOwner
<1>4. \A r \in Rev : rows[r].ver < v
  <2>1. wr[h].latest \in Nat
    BY <1>0, Constants DEF TypeOK
  <2>2. \A r \in Rev : rows[r].ver <= wr[h].latest
    BY <1>3 DEF NewestVersion
  <2> QED BY <1>0, <2>1, <2>2
<1>v. v # NoVersion => (wr[h].exp # NoVersion => v = wr[h].exp + 1)
  <2> HAVE v # NoVersion /\ wr[h].exp # NoVersion
  <2>1. NewestVersion(wr[h].exp)
    BY <1>3 DEF OrderKept, OneOwner
  <2>2. PICK r \in Rev, s \in Rev : rows[r].ver = wr[h].exp /\ rows[s].ver = wr[h].latest
    BY <1>3, <2>1 DEF NewestVersion
  <2>3. wr[h].exp <= wr[h].latest /\ wr[h].latest <= wr[h].exp
    BY <1>3, <2>1, <2>2 DEF NewestVersion
  <2>4. wr[h].exp \in Nat /\ wr[h].latest \in Nat
    BY <1>0, <2>2
  <2>5. wr[h].exp = wr[h].latest
    BY <2>3, <2>4
  <2> QED BY <2>5
<1> HIDE DEF v
<1>5. \A r \in Rev : Newest(r)' <=> r = h
  BY <1>0, <1>1, <1>2, <1>4 DEF Newest
<1>6. Active(rows)' = {h} /\ h \in Present(rows)'
  BY <1>0, <1>2 DEF CanCreate, Active, Present
<1>7. VersionsGrow'
  <2>1. (\A r, s \in Rev : rows[r].ver = rows[s].ver /\ rows[r].ver # NoVersion => r = s)'
    <3>1. ASSUME NEW r \in Rev, NEW s \in Rev, rows'[r].ver = rows'[s].ver, rows'[r].ver # NoVersion
          PROVE  r = s
      <4>1. CASE r # h /\ s # h
        BY <1>2, <3>1, <4>1 DEF OrderKept, VersionsGrow
      <4>2. CASE r = h \/ s = h
        <5>1. \A q \in Rev \ {h} : rows'[q].ver < v
          BY <1>2, <1>4
        <5>2. \A q \in Rev \ {h} : rows'[q].ver # v
          BY <1>0, <1>1, <1>2, <5>1
        <5> QED BY <1>2, <3>1, <4>2, <5>2
      <4> QED BY <4>1, <4>2
    <3> QED BY <3>1
  <2>2. (\E r \in Present(rows) : Newest(r))' /\ (\A r \in Active(rows) : Newest(r))'
    BY <1>0, <1>5, <1>6
  <2>3. (\A g \in Writer : \A d \in wr[g].old : rows[d].ver # NoVersion /\ ~Newest(d))'
    <3>1. \A g \in Writer : wr'[g].old = wr[g].old
      BY DEF OnlyPc, Others, KeptSets
    <3>2. \A g \in Writer : \A d \in wr[g].old : d \in Rev /\ d # h /\ rows[d].ver # NoVersion
      BY <1>0, <1>1 DEF TypeOK, OrderKept, VersionsGrow
    <3> QED BY <1>2, <1>5, <3>1, <3>2
  <2> QED BY <2>1, <2>2, <2>3 DEF VersionsGrow
<1>8. \A g \in Writer : ~Owner(g)'
  <2>1. ~Owner(h)'
    BY <1>1, <1>2 DEF Owner
  <2>2. \A g \in Writer : g # h => ~Owner(g)
    BY <1>3 DEF OrderKept, OneOwner
  <2>3. \A g \in Writer : g # h => (Owner(g)' <=> Owner(g))
    BY <1>0, <1>2 DEF Owner, OnlyPc, Others
  <2> QED BY <2>1, <2>2, <2>3
<1>9. OneOwner'
  BY <1>6, <1>8 DEF OneOwner
<1>10. FormsVersioned'
  <2>1. \A g \in Form : g \in Writer /\ g \in Rev
    BY <1>0, ConfigAssumption
  <2>2. h \in Form => wr[h].exp # NoVersion
    BY DEF OrderKept, FormsVersioned
  <2>3. \A g \in Form : g # h => wr'[g] = wr[g] /\ rows'[g] = rows[g]
    BY <1>2, <2>1 DEF OnlyPc, Others
  <2>4. h \in Form => wr'[h].exp = wr[h].exp /\ rows'[h].ver = wr[h].exp + 1
    BY <1>1, <1>2, <1>v, <2>2 DEF OnlyPc, KeptNumbers
  <2> QED BY <2>2, <2>3, <2>4 DEF OrderKept, FormsVersioned
<1> QED BY <1>7, <1>9, <1>10 DEF OrderKept

\* cleanupOldVersions reads a history whose newest row it keeps.
LEMMA OrderRead ==
    ASSUME TypeInv, OrderKept, NEW h \in Writer, Cleanup(h)
    PROVE  OrderKept'
<1>0. rows \in [Rev -> Revision] /\ TypeOK /\ \A r \in Rev : rows[r].ver \in Nat
  BY RowsInv, Constants
<1>1. /\ Others(h) /\ KeptNumbers(h) /\ wr'[h].pc = "prune" /\ wr[h].pc = "cleanup"
      /\ wr'[h].old \in SUBSET Rev /\ Surplus(rows, wr'[h].old) /\ rows' = rows
  BY <1>0, CleanupEffect DEF Cleanup
<1> DEFINE D == wr'[h].old
<1>2. ASSUME NEW d \in D PROVE rows[d].ver # NoVersion /\ ~Newest(d)
  <2>1. D \subseteq Present(rows) /\ D \subseteq Rev /\ Present(rows) \subseteq Rev
    BY <1>1 DEF Surplus, Present
  <2>2. Present(rows) \ D # {}
    <3> SUFFICES ASSUME Present(rows) \ D = {} PROVE FALSE
      OBVIOUS
    <3>1. D = Present(rows)
      BY <2>1
    <3>2. Cardinality(D) \in Nat /\ IsFiniteSet(D)
      BY <2>1, Constants
    <3>3. Cardinality(D) # 0
      BY <1>2, <3>2, FS_EmptySet
    <3> HIDE DEF D
    <3>4. Cardinality(D) = IF Cardinality(D) > KeepCount THEN Cardinality(D) - KeepCount ELSE 0
      BY <1>1, <3>1 DEF Surplus, D
    <3> QED BY <3>2, <3>3, <3>4, Constants
  <2>3. PICK k \in Present(rows) \ D : TRUE
    BY <2>2
  <2>4. rows[d].ver <= rows[k].ver /\ d # k /\ d \in Rev /\ k \in Rev
    BY <1>1, <2>1, <2>3 DEF Surplus
  <2>5. rows[d].ver # NoVersion
    BY <2>1 DEF TypeInv, Numbering
  <2>6. rows[d].ver # rows[k].ver
    BY <2>4, <2>5 DEF OrderKept, VersionsGrow
  <2>7. ~(rows[k].ver <= rows[d].ver)
    BY <1>0, <2>4, <2>6
  <2> QED BY <2>4, <2>5, <2>7 DEF Newest
<1>3. \A r \in Rev : Newest(r)' <=> Newest(r)
  BY <1>1 DEF Newest
<1>4. Active(rows)' = Active(rows) /\ Present(rows)' = Present(rows)
  BY <1>1 DEF Active, Present
<1>5. \A g \in Writer : g # h => wr'[g].old = wr[g].old
  BY <1>1 DEF Others
<1>6. VersionsGrow'
  BY <1>1, <1>2, <1>4, <1>5 DEF OrderKept, VersionsGrow, Newest
<1>7. ~Owner(h)
  BY <1>1 DEF OrderKept, OneOwner
<1>8. \A g \in Writer : (Owner(g)' <=> Owner(g)) /\ (Owner(g) => wr'[g] = wr[g])
  BY <1>1, <1>7 DEF Owner, Others, KeptNumbers
<1>9. \A v : NewestVersion(v)' <=> NewestVersion(v)
  BY <1>1 DEF NewestVersion
<1>10. OneOwner'
  BY <1>4, <1>8, <1>9 DEF OrderKept, OneOwner
<1>11. FormsVersioned'
  BY <1>1, ConfigAssumption DEF OrderKept, FormsVersioned, Others, KeptNumbers
<1> QED BY <1>6, <1>10, <1>11 DEF OrderKept

\* So the newest row survives the deletion.
LEMMA OrderPruned ==
    ASSUME TypeInv, OrderKept, NEW h \in Writer, Prune(h)
    PROVE  OrderKept'
<1>0. rows \in [Rev -> Revision] /\ TypeOK /\ Writer \subseteq Rev
      /\ \A g \in Writer : wr[g].old \in SUBSET Rev
  BY RowsInv
<1>1. /\ Others(h) /\ KeptNumbers(h) /\ wr'[h].pc = "reread" /\ wr[h].pc = "prune" /\ wr'[h].old = {}
  BY <1>0, PruneEffect DEF Prune
<1>2. \A r \in Rev : /\ rows'[r].ver = rows[r].ver
                     /\ r \notin wr[h].old => rows'[r].state = rows[r].state
                     /\ rows'[r].state \in {"gone", rows[r].state}
  <2>1. PICK D \in SUBSET wr[h].old : rows' = DeleteRows(rows, D)
    BY DEF Prune
  <2> QED BY <1>0, <2>1, DeleteFacts
<1>3. \A d \in wr[h].old : ~Newest(d)
  BY DEF OrderKept, VersionsGrow
<1>4. \A r \in Rev : Newest(r)' <=> Newest(r)
  BY <1>2 DEF Newest
<1>5. Active(rows)' = Active(rows)
  BY <1>2, <1>3 DEF Active, OrderKept, VersionsGrow
<1>6. VersionsGrow'
  <2>1. (\A r, s \in Rev : rows[r].ver = rows[s].ver /\ rows[r].ver # NoVersion => r = s)'
    BY <1>2 DEF OrderKept, VersionsGrow
  <2>2. (\E r \in Present(rows) : Newest(r))'
    BY <1>2, <1>3, <1>4 DEF OrderKept, VersionsGrow, Present
  <2>3. (\A r \in Active(rows) : Newest(r))'
    BY <1>4, <1>5 DEF OrderKept, VersionsGrow, Active
  <2>4. (\A g \in Writer : \A d \in wr[g].old : rows[d].ver # NoVersion /\ ~Newest(d))'
    BY <1>0, <1>1, <1>2, <1>4 DEF OrderKept, VersionsGrow, Others
  <2> QED BY <2>1, <2>2, <2>3, <2>4 DEF VersionsGrow
<1>7. ~Owner(h)
  BY <1>1 DEF OrderKept, OneOwner
<1>8. \A g \in Writer : (Owner(g)' <=> Owner(g)) /\ (Owner(g) => wr'[g] = wr[g])
  BY <1>0, <1>1, <1>2, <1>7 DEF Owner, Others, KeptNumbers
<1>9. \A v : NewestVersion(v)' <=> NewestVersion(v)
  BY <1>2 DEF NewestVersion
<1>10. OneOwner'
  BY <1>5, <1>8, <1>9 DEF OrderKept, OneOwner
<1>11. FormsVersioned'
  <2>1. \A g \in Form : g \in Writer /\ rows'[g].ver = rows[g].ver
    BY <1>0, <1>2, ConfigAssumption
  <2> QED BY <1>1, <2>1 DEF OrderKept, FormsVersioned, Others, KeptNumbers
<1> QED BY <1>6, <1>10, <1>11 DEF OrderKept

\* A process that dies in the hand-off leaves it to nobody.
LEMMA OrderCrashed ==
    ASSUME TypeInv, OrderKept, NEW p \in Proc, Crash(p)
    PROVE  OrderKept'
<1>1. TypeOK /\ rows' = rows
  BY DEF TypeInv, Crash
<1>2. \A g \in Writer : /\ wr'[g].claimed = wr[g].claimed /\ wr'[g].exp = wr[g].exp
                        /\ wr'[g].latest = wr[g].latest /\ wr'[g].old = wr[g].old
                        /\ wr'[g].pc = wr[g].pc \/ wr'[g].pc = "lost"
  BY <1>1, CrashEffect DEF KeptNumbers, KeptSets
<1>3. Active(rows)' = Active(rows) /\ Present(rows)' = Present(rows)
  BY <1>1 DEF Active, Present
<1>4. VersionsGrow'
  BY <1>1, <1>2, <1>3 DEF OrderKept, VersionsGrow, Newest
<1>5. \A g \in Writer : Owner(g)' <=> Owner(g)
  BY <1>1, <1>2 DEF Owner
<1>6. \A v : NewestVersion(v)' <=> NewestVersion(v)
  BY <1>1 DEF NewestVersion
<1>7. OneOwner'
  BY <1>2, <1>3, <1>5, <1>6 DEF OrderKept, OneOwner
<1>8. FormsVersioned'
  BY <1>1, <1>2, ConfigAssumption DEF OrderKept, FormsVersioned
<1> QED BY <1>4, <1>7, <1>8 DEF OrderKept

\* A save whose query throws in the hand-off leaves it to nobody, too.
LEMMA OrderFailed ==
    ASSUME TypeInv, OrderKept, NEW h \in Writer, QueryFails(h)
    PROVE  OrderKept'
<1>1. /\ OnlyPc(h) /\ rows' = rows /\ h \in Failing /\ wr[h].pc \in Querying
      /\ wr'[h].pc \in {"failed", "done"}
  BY QueryFailsEffect DEF TypeInv
<1>2. \A g \in Writer : /\ wr'[g].claimed = wr[g].claimed /\ wr'[g].exp = wr[g].exp
                        /\ wr'[g].latest = wr[g].latest /\ wr'[g].old = wr[g].old
                        /\ wr'[g].pc = wr[g].pc \/ g = h
  BY <1>1 DEF OnlyPc, Others, KeptNumbers, KeptSets
<1>3. Active(rows)' = Active(rows) /\ Present(rows)' = Present(rows)
  BY <1>1 DEF Active, Present
<1>4. VersionsGrow'
  BY <1>1, <1>2, <1>3 DEF OrderKept, VersionsGrow, Newest
<1>5. \A g \in Writer : Owner(g)' <=> Owner(g)
  BY <1>1, <1>2 DEF Owner
<1>6. \A v : NewestVersion(v)' <=> NewestVersion(v)
  BY <1>1 DEF NewestVersion
<1>7. OneOwner'
  BY <1>1, <1>2, <1>3, <1>5, <1>6 DEF OrderKept, OneOwner
<1>8. FormsVersioned'
  BY <1>1, <1>2, ConfigAssumption DEF OrderKept, FormsVersioned, Querying
<1> QED BY <1>4, <1>7, <1>8 DEF OrderKept

\* Every step keeps the order: there is one owner of the hand-off, and it
\* inserts the newest row.
LEMMA OrderKeeps ==
    ASSUME TypeInv, OrderKept, Orderly, [Next]_vars, Orderly'
    PROVE  OrderKept'
<1>0. TypeOK /\ rows \in [Rev -> Revision] /\ Writer \subseteq Rev
      /\ \A h \in Boot : h \in Writer /\ h \notin Form
  BY RowsInv, ConfigAssumption
<1>1. \A h \in Writer : /\ wr[h].pc \notin {"latest", "create", "lost", "failed", "done"} => ~Owner(h)
                        /\ h \in Form /\ wr[h].pc \notin {"idle", "lost"} => wr[h].exp # NoVersion
                        /\ wr[h].pc \in {"idle", "form"} => rows[h].ver = NoVersion
                        /\ wr[h].pc \in BeforeCreate => rows[h].ver = NoVersion
                        /\ ~wr[h].claimed => ~Owner(h)
  BY DEF OrderKept, OneOwner, FormsVersioned, TypeInv, Numbering, BeforeCreate, Owner
<1>a. ASSUME NEW h \in Writer, OnlyPc(h), rows' = rows, ~Owner(h), wr[h].pc \notin {"idle", "lost"}
      PROVE  OrderKept'
  BY <1>1, <1>a, OrderStep DEF OnlyPc, KeptNumbers, KeptSets
<1>b. ASSUME NEW h \in Writer, Fail(h) \/ Conflict(h), rows' = rows, ~Owner(h),
             wr[h].pc \notin {"idle", "lost"}
      PROVE  OrderKept'
  BY <1>0, <1>a, <1>b, FailEffect, ConflictEffect
<1>c. ASSUME NEW h \in Writer, AnotherSave(h), rows' = rows, ~Owner(h), wr[h].pc \notin {"idle", "lost"}
      PROVE  OrderKept'
  BY <1>1, <1>c, OrderStep DEF AnotherSave, KeptSets
<1>d. ASSUME UNCHANGED <<rows, wr>> PROVE OrderKept'
  BY <1>d DEF OrderKept, VersionsGrow, OneOwner, FormsVersioned, Owner, Newest, NewestVersion, Active,
              Present
<1>2. ASSUME NEW h \in Writer, OpenForm(h) PROVE OrderKept'
  <2>1. ActiveVersion(rows) # NoVersion
    <3>1. ActiveRev(rows) \in Active(rows) /\ ActiveVersion(rows) = rows[ActiveRev(rows)].ver
      BY <1>0, <1>2, ActiveFacts DEF OpenForm
    <3> QED BY <3>1 DEF TypeInv, Numbering, Active, Present
  <2>2. rows[h].ver = NoVersion /\ ~Owner(h)
    BY <1>1, <1>2 DEF OpenForm
  <2> QED BY ZenonT(40), <1>0, <1>2, <2>1, <2>2, OpenFormEffect, OrderStep DEF OpenForm
<1>3. ASSUME NEW h \in Writer, Submit(h) PROVE OrderKept'
  <2>1. OnlyPc(h) /\ rows' = rows
    BY <1>0, <1>3, GoToEffect DEF Submit
  <2>2. ~Owner(h)
    BY <1>1, <1>3 DEF Submit
  <2>3. CASE h \in Form
    BY <1>3, <1>a, <2>1, <2>2, <2>3 DEF Submit
  <2>4. CASE h \notin Form
    BY <2>1, <2>2, <2>4, OrderStep DEF OnlyPc, KeptNumbers, KeptSets
  <2> QED BY <2>3, <2>4
<1>4. ASSUME NEW h \in Writer, BootLoad(h) PROVE OrderKept'
  <2>1. OnlyPc(h) /\ rows' = rows /\ h \notin Form
    BY <1>0, <1>4, GoToEffect DEF BootLoad
  <2>2. ~Owner(h)
    BY <1>1, <1>4 DEF BootLoad
  <2> QED BY <2>1, <2>2, OrderStep DEF OnlyPc, KeptNumbers, KeptSets
<1>5. ASSUME NEW h \in Writer, BootFlush(h) PROVE OrderKept'
  BY <1>0, <1>1, <1>5, <1>a, GoToEffect DEF BootFlush
<1>6. ASSUME NEW h \in Writer, ReadVersion(h) PROVE OrderKept'
  <2>1. /\ Others(h) /\ wr'[h].claimed = wr[h].claimed /\ wr'[h].old = wr[h].old
        /\ h \in Form => wr'[h].exp = wr[h].exp
    BY <1>0, <1>6, ReadVersionEffect
  <2>2. rows' = rows /\ ~Owner(h) /\ (h \in Form => wr[h].exp # NoVersion)
    BY <1>1, <1>6 DEF ReadVersion
  <2> QED BY <2>1, <2>2, OrderStep
<1>7. ASSUME NEW h \in Writer, Load(h) PROVE OrderKept'
  <2>1. rows' = rows /\ ~Owner(h) /\ wr[h].pc \notin {"idle", "lost"}
    BY <1>1, <1>7 DEF Load
  <2>2. CASE Fail(h)
    BY <1>b, <2>1, <2>2
  <2>3. CASE ~Fail(h)
    BY <1>0, <1>1, <1>7, <2>1, <2>3, LoadEffect, OrderStep DEF KeptNumbers
  <2> QED BY <2>2, <2>3
<1>8. ASSUME NEW h \in Writer, Check(h) PROVE OrderKept'
  <2>1. rows' = rows /\ ~Owner(h) /\ wr[h].pc \notin {"idle", "lost"}
    BY <1>1, <1>8 DEF Check
  <2>2. CASE Conflict(h)
    BY <1>b, <2>1, <2>2
  <2>3. CASE ~Conflict(h)
    BY <1>0, <1>1, <1>8, <2>1, <2>3, CheckEffect, OrderStep DEF KeptSets
  <2> QED BY <2>2, <2>3
<1>9. ASSUME NEW h \in Writer, History(h) PROVE OrderKept'
  BY <1>0, <1>1, <1>9, <1>a, <1>b, GoToEffect DEF History
<1>10. ASSUME NEW h \in Writer, Claim(h) PROVE OrderKept'
  BY <1>10, OrderClaimed
<1>11. ASSUME NEW h \in Writer, Latest(h) PROVE OrderKept'
  <2>1. rows' = rows /\ wr[h].pc = "latest"
    BY <1>11 DEF Latest
  <2>2. CASE ~wr[h].claimed /\ (Conflict(h) \/ AnotherSave(h))
    BY <1>1, <1>b, <1>c, <2>1, <2>2
  <2>3. CASE ~(~wr[h].claimed /\ (Conflict(h) \/ AnotherSave(h)))
    BY <1>0, <1>11, <2>1, <2>3, LatestEffect, OrderCounted
  <2> QED BY <2>2, <2>3
<1>12. ASSUME NEW h \in Writer, Create(h) PROVE OrderKept'
  <2>1. CASE CanCreate(rows)
    <3> DEFINE v == wr[h].latest + 1
    <3>1. v \in Version /\ v # NoVersion /\ Merged(h) \in SUBSET Writer /\ wr[h].pc = "create"
      BY <1>0, <1>12, NextVersion, MergedType, Constants DEF TypeInv, Create
    <3>2. /\ OnlyPc(h) /\ wr'[h].pc = "cleanup"
          /\ rows' = CreateRow(rows, h, v, Merged(h))
      BY <1>0, <1>12, <2>1, CreateEffect
    <3>3. wr[h].claimed
      <4> HIDE DEF v
      <4>1. rows'[h].ver = v
        BY <1>0, <3>1, <3>2, CreateFacts
      <4> QED BY <3>1, <3>2, <4>1 DEF Orderly, OnlyPc, KeptNumbers
    <3> QED BY <2>1, <3>1, <3>2, <3>3, OrderCreated
  <2>2. CASE ~CanCreate(rows)
    <3>1. ~Owner(h) /\ rows' = rows /\ wr[h].pc = "create"
      BY <1>0, <1>12, <2>2, CreateEffect DEF CanCreate, OrderKept, OneOwner, Create
    <3> QED BY <1>0, <1>12, <1>b, <1>c, <2>2, <3>1, CreateEffect
  <2> QED BY <2>1, <2>2
<1>13. ASSUME NEW h \in Writer, Cleanup(h) PROVE OrderKept'
  BY <1>13, OrderRead
<1>14. ASSUME NEW h \in Writer, Prune(h) PROVE OrderKept'
  BY <1>14, OrderPruned
<1>15. ASSUME NEW h \in Writer, Reread(h) PROVE OrderKept'
  <2>1. rows' = rows /\ ~Owner(h) /\ wr[h].pc \notin {"idle", "lost"}
    BY <1>1, <1>15 DEF Reread
  <2>2. CASE Fail(h)
    BY <1>b, <2>1, <2>2
  <2>3. CASE ~Fail(h)
    BY <1>0, <1>1, <1>15, <2>1, <2>3, RereadEffect, OrderStep DEF KeptNumbers
  <2> QED BY <2>2, <2>3
<1>16. ASSUME NEW h \in Writer, Install(h) \/ InstallFlushed(h) PROVE OrderKept'
  BY <1>0, <1>1, <1>16, <1>a, GoToEffect DEF Install, InstallFlushed
<1>17. ASSUME NEW h \in Writer, Publish(h) PROVE OrderKept'
  BY <1>0, <1>1, <1>17, <1>a, GoToEffect DEF Publish
<1>q. ASSUME NEW h \in Writer, QueryFails(h) PROVE OrderKept'
  BY <1>q, OrderFailed
<1>18. ASSUME NEW r \in Reload, Deliver(r) \/ Poll(r) \/ ReloadStep(r) PROVE OrderKept'
  BY <1>18, <1>d DEF Deliver, Poll, ReloadStep, ReloadRead, ReloadFails, ReloadInstall
<1>19. ASSUME NEW p \in Proc, Crash(p) PROVE OrderKept'
  BY <1>19, OrderCrashed
<1>20. CASE UNCHANGED vars
  BY <1>20, <1>d DEF vars
<1> QED
  BY <1>2, <1>3, <1>4, <1>5, <1>6, <1>7, <1>8, <1>9, <1>10, <1>11, <1>12, <1>13, <1>14, <1>15, <1>16,
     <1>17, <1>18, <1>19, <1>20, <1>q DEF Next, SaveStep

LEMMA OrderInit == Init => OrderInv
<1> SUFFICES ASSUME Init PROVE OrderKept
  BY DEF OrderInv, OrderKept
<1>1. /\ rows[Genesis].ver = 1 /\ rows[Genesis].state = "active" /\ Genesis \in Rev
      /\ \A h \in Writer : rows[h].state = "gone" /\ rows[h].ver = NoVersion
  BY InitialFacts, Constants DEF Init
<1>2. \A r \in Rev : r = Genesis \/ r \in Writer
  BY DEF Rev
<1>3. \A h \in Writer : wr[h] = NewWriter
  BY DEF Init
<1>4. Newest(Genesis)
  BY <1>1, <1>2, Constants DEF Newest
<1>5. VersionsGrow
  BY <1>1, <1>2, <1>3, <1>4 DEF VersionsGrow, Present, Active, NewWriter
<1>6. OneOwner
  BY <1>1, <1>3 DEF OneOwner, Owner, Active, NewWriter
<1>7. FormsVersioned
  BY <1>1, <1>3, ConfigAssumption DEF FormsVersioned, NewWriter
<1> QED BY <1>5, <1>6, <1>7 DEF OrderKept

LEMMA OrderAlways == Spec => [](TypeInv /\ OrderInv)
<1>1. TypeInv /\ OrderInv /\ [Next]_vars => OrderInv'
  BY OrderlyBefore, OrderKeeps DEF OrderInv, OrderKept
<1> QED BY <1>1, TypeInvInit, TypeInvStep, OrderInit, PTL DEF Spec

\* saveMainConfiguration refuses a save when an inactive row is newer than the
\* active one, and nothing would ever repair that.  Retries, late starts and
\* crashes of any number of processes do not bring it about, unless the last
\* attempt of a save inserts in another's hand-off.
THEOREM NewestStaysActive == Spec => []ActiveIsNewest
<1>1. TypeInv /\ OrderInv => ActiveIsNewest
  <2> SUFFICES ASSUME TypeInv, OrderKept, Active(rows) # {}
               PROVE  ~NewerInactive(rows, ActiveVersion(rows))
    BY DEF OrderInv, OrderKept, ActiveIsNewest
  <2>1. /\ ActiveRev(rows) \in Active(rows) /\ ActiveVersion(rows) = rows[ActiveRev(rows)].ver
        /\ \A r \in Rev : rows[r].ver \in Nat
    <3>1. rows \in [Rev -> Revision] /\ \A r \in Rev : rows[r].ver \in Nat
      BY RowsInv
    <3> QED BY <3>1, ActiveFacts
  <2>2. Newest(ActiveRev(rows)) /\ ActiveRev(rows) \in Rev
    BY <2>1 DEF OrderKept, VersionsGrow, Active
  <2> QED BY <2>1, <2>2 DEF NewerInactive, Newest
<1> QED BY <1>1, OrderAlways, PTL

\* A form that was saved replaced the version its page was opened on, and no
\* other save made that version too (the expectedVersion of updateConfig).
THEOREM FormsReplaceTheirVersion == Spec => []FormReplacesItsVersion
<1>1. TypeInv /\ OrderInv => FormReplacesItsVersion
  <2> SUFFICES ASSUME OrderKept PROVE FormReplacesItsVersion
    BY DEF OrderInv, OrderKept, FormReplacesItsVersion
  <2>1. \A h \in Form : h \in Rev
    BY ConfigAssumption, Constants
  <2> QED BY <2>1 DEF OrderKept, VersionsGrow, FormsVersioned, FormReplacesItsVersion
<1> QED BY <1>1, OrderAlways, PTL

\* Where no process dies, nobody's work is lost.
LEMMA NoneLost == CanCrash = {} => (Spec => [](\A h \in Writer : wr[h].pc # "lost"))
<1> SUFFICES ASSUME CanCrash = {} PROVE Spec => [](\A h \in Writer : wr[h].pc # "lost")
  OBVIOUS
<1> DEFINE Alive == \A h \in Writer : wr[h].pc # "lost"
<1>1. Init => Alive
  BY DEF Init, NewWriter
<1>2. ASSUME TypeInv, Alive, [Next]_vars PROVE Alive'
  <2>0. TypeOK
    BY <1>2 DEF TypeInv
  <2>1. ASSUME NEW h \in Writer, Others(h), wr'[h].pc # "lost" PROVE Alive'
    BY <1>2, <2>1 DEF Others
  <2>2. ASSUME wr' = wr PROVE Alive'
    BY <1>2, <2>2
  <2>3. ASSUME NEW h \in Writer, Fail(h) \/ Conflict(h) PROVE Alive'
    BY <2>0, <2>1, <2>3, FailEffect, ConflictEffect DEF OnlyPc
  <2>4. ASSUME NEW h \in Writer, AnotherSave(h) PROVE Alive'
    BY <2>1, <2>4 DEF AnotherSave
  <2>5. ASSUME NEW h \in Writer, OpenForm(h) \/ ReadVersion(h) \/ Claim(h) \/ Cleanup(h) \/ Prune(h)
        PROVE  Alive'
    BY <2>0, <2>1, <2>5, OpenFormEffect, ReadVersionEffect, ClaimEffect, CleanupEffect, PruneEffect
  <2>6. ASSUME NEW h \in Writer,
               Submit(h) \/ BootLoad(h) \/ BootFlush(h) \/ Install(h) \/ InstallFlushed(h) \/ Publish(h)
        PROVE  Alive'
    <3>1. ASSUME Submit(h) \/ BootLoad(h) \/ BootFlush(h) PROVE OnlyPc(h) /\ wr'[h].pc # "lost"
      BY <2>0, <3>1, SubmitEffect, BootEffect
    <3>2. ASSUME Install(h) \/ InstallFlushed(h) \/ Publish(h) PROVE OnlyPc(h) /\ wr'[h].pc # "lost"
      BY <2>0, <3>2, InstallEffect, GoToEffect DEF Publish
    <3> QED BY <2>1, <2>6, <3>1, <3>2 DEF OnlyPc
  <2>7. ASSUME NEW h \in Writer, Load(h) \/ Reread(h) PROVE Alive'
    BY <2>0, <2>1, <2>3, <2>7, LoadEffect, RereadEffect
  <2>8. ASSUME NEW h \in Writer, Check(h) \/ Latest(h) PROVE Alive'
    BY <2>0, <2>1, <2>3, <2>4, <2>8, CheckEffect, LatestEffect
  <2>9. ASSUME NEW h \in Writer, History(h) \/ Create(h) PROVE Alive'
    BY <2>0, <2>1, <2>3, <2>4, <2>9, GoToEffect, CreateEffect DEF History, OnlyPc
  <2>13. ASSUME NEW h \in Writer, QueryFails(h) PROVE Alive'
    BY <2>3, <2>13 DEF QueryFails
  <2>10. ASSUME NEW r \in Reload, Deliver(r) \/ Poll(r) \/ ReloadStep(r) PROVE Alive'
    BY <2>2, <2>10 DEF Deliver, Poll, ReloadStep, ReloadRead, ReloadFails, ReloadInstall
  <2>11. ASSUME NEW p \in Proc, Crash(p) PROVE Alive'
    BY <2>11 DEF Crash
  <2>12. CASE UNCHANGED vars
    BY <2>2, <2>12 DEF vars
  <2> QED
    BY <1>2, <2>5, <2>6, <2>7, <2>8, <2>9, <2>10, <2>11, <2>12, <2>13 DEF Next, SaveStep
<1> QED BY <1>1, <1>2, TypeInvAlways, PTL DEF Spec

\* A save that finds no active row only ever meets another's hand-off, which
\* will end: loadConfiguration does not throw for good.  When a process dies
\* or a query throws in the hand-off it does (the ConfigCrash run).
THEOREM HandoffExplainsAbsence == CanCrash = {} /\ Failing = {} => (Spec => []LoadFindsConfig)
<1> SUFFICES ASSUME CanCrash = {}, Failing = {} PROVE Spec => []LoadFindsConfig
  OBVIOUS
<1>1. OrderInv /\ (\A h \in Writer : wr[h].pc # "lost") => LoadFindsConfig
  BY DEF OrderInv, OneOwner, Owner, LoadFindsConfig, InHandoff
<1> QED BY <1>1, OrderAlways, NoneLost, PTL

-----------------------------------------------------------------------------
(* What is held was inserted.                                              *)

\* The rows are as old and as long as before.
SameRows ==
    \A r \in Rev : /\ rows'[r].ver = rows[r].ver /\ rows'[r].content = rows[r].content
                   /\ rows'[r].at = rows[r].at

\* h inserts its row.
Inserts(h) ==
    /\ Create(h) /\ CanCreate(rows) /\ OnlyPc(h) /\ wr[h].pc = "create" /\ wr'[h].pc = "cleanup"
    /\ ~Inserted(h) /\ rows'[h].state = "active"
    /\ rows'[h].ver = wr[h].latest + 1 /\ rows'[h].ver \in Nat \ {NoVersion}
    /\ rows'[h].content = Merged(h) /\ rows'[h].at = 1 + SavesSoFar(rows)
    /\ \A r \in Rev \ {h} : rows'[r] = rows[r]

LEMMA InsertsEffect ==
    ASSUME TypeInv, NEW h \in Writer, Create(h), CanCreate(rows)
    PROVE  Inserts(h)
<1> DEFINE v == wr[h].latest + 1
           m == Merged(h)
<1>1. TypeOK /\ rows \in [Rev -> Revision]
  BY RowsInv
<1>2. v \in Version /\ m \in SUBSET Writer /\ wr[h].pc = "create" /\ v \in Nat \ {NoVersion}
  BY NextVersion, MergedType, Constants DEF TypeInv, Create
<1>3. OnlyPc(h) /\ wr'[h].pc = "cleanup" /\ rows' = CreateRow(rows, h, v, m)
  BY <1>1, CreateEffect
<1>4. ~Inserted(h)
  BY <1>2 DEF TypeInv, Numbering, BeforeCreate, Inserted
<1>5. /\ rows'[h].ver = v /\ rows'[h].content = m /\ rows'[h].state = "active"
      /\ rows'[h].at = 1 + SavesSoFar(rows) /\ \A r \in Rev \ {h} : rows'[r] = rows[r]
  <2> HIDE DEF v, m
  <2> QED BY <1>1, <1>2, <1>3, CreateFacts
<1> QED BY <1>2, <1>3, <1>4, <1>5 DEF Inserts

\* A step inserts a row or leaves what the rows hold, and activates no other.
LEMMA RowsStep ==
    ASSUME TypeInv, [Next]_vars
    PROVE  \/ SameRows /\ \A r \in Rev : rows'[r].state = "active" => rows[r].state = "active"
           \/ \E h \in Writer : Inserts(h)
<1> DEFINE Goal == \/ SameRows /\ \A r \in Rev : rows'[r].state = "active" => rows[r].state = "active"
                   \/ \E h \in Writer : Inserts(h)
<1>1. rows \in [Rev -> Revision] /\ TypeOK
  BY RowsInv
<1>2. ASSUME rows' = rows PROVE Goal
  BY <1>2 DEF SameRows
<1>3. ASSUME NEW h \in Writer, Claim(h) PROVE Goal
  BY <1>1, <1>3, DeactivateFacts DEF Claim, SameRows
<1>4. ASSUME NEW h \in Writer, Create(h) PROVE Goal
  BY <1>1, <1>2, <1>4, InsertsEffect, CreateEffect
<1>5. ASSUME NEW h \in Writer, Prune(h) PROVE Goal
  <2>1. PICK D : rows' = DeleteRows(rows, D)
    BY SMTT(30), <1>5 DEF Prune
  <2> QED BY <1>1, <2>1, DeleteFacts DEF SameRows
<1>6. ASSUME NEW h \in Writer, OpenForm(h) \/ Submit(h) \/ BootLoad(h) \/ SaveStep(h) \/ QueryFails(h)
      PROVE  Goal
  BY <1>2, <1>3, <1>4, <1>5, <1>6
     DEF OpenForm, Submit, BootLoad, SaveStep, BootFlush, ReadVersion, Load, Check, History, Latest,
         Cleanup, Reread, Install, InstallFlushed, Publish, QueryFails
<1>7. ASSUME NEW r \in Reload, Deliver(r) \/ Poll(r) \/ ReloadStep(r) PROVE Goal
  BY <1>2, <1>7 DEF Deliver, Poll, ReloadStep, ReloadRead, ReloadFails, ReloadInstall
<1>8. ASSUME NEW p \in Proc, Crash(p) PROVE Goal
  BY <1>2, <1>8 DEF Crash
<1>9. CASE UNCHANGED vars
  BY <1>2, <1>9 DEF vars
<1> QED BY <1>6, <1>7, <1>8, <1>9 DEF Next

\* No row is forgotten.
LEMMA StaysInserted ==
    ASSUME TypeInv, [Next]_vars, NEW r \in Rev, Inserted(r)
    PROVE  Inserted(r)' /\ rows'[r].ver = rows[r].ver /\ rows'[r].content = rows[r].content
           /\ rows'[r].at = rows[r].at
BY RowsStep DEF SameRows, Inserts, Inserted

Known == {r \in Rev : Inserted(r)}

HeldBy(h) == wr[h].seen \in Known /\ wr[h].base \in Known /\ wr[h].prev \in Known
HeldByReload(r) == rl[r].prev \in Known /\ rl[r].got \in Known

\* The configuration a read finds.
LEMMA ActiveKnown ==
    ASSUME TypeInv, Active(rows) # {}
    PROVE  ActiveRev(rows) \in Known
<1>1. rows \in [Rev -> Revision]
  BY RowsInv
<1> QED BY <1>1, ActiveFacts DEF Known, Inserted, TypeInv, Numbering, Active, Present

\* The writers take over rows from the table and the caches.
LEMMA WritersHold ==
    ASSUME TypeInv, HeldInserted, [Next]_vars, NEW g \in Writer
    PROVE  wr'[g].seen \in Known /\ wr'[g].base \in Known /\ wr'[g].prev \in Known
<1> DEFINE Goal == wr'[g].seen \in Known /\ wr'[g].base \in Known /\ wr'[g].prev \in Known
<1>1. /\ TypeOK /\ HeldBy(g) /\ Booting
      /\ \A p \in Proc : cache[p] \in Known
      /\ ProcOf[g] \in Proc
  BY ConfigAssumption DEF TypeInv, TypeOK, HeldInserted, HeldBy, Known
<1>a. ASSUME wr'[g] = wr[g] PROVE Goal
  BY <1>1, <1>a DEF HeldBy
<1>b. ASSUME NEW h \in Writer, Others(h), KeptSets(h) PROVE Goal
  BY <1>1, <1>b DEF HeldBy, Others, KeptSets
<1>c. ASSUME NEW h \in Writer, OnlyPc(h) PROVE Goal
  BY <1>b, <1>c DEF OnlyPc
<1>d. ASSUME NEW h \in Writer, Fail(h) \/ Conflict(h) PROVE Goal
  BY <1>1, <1>c, <1>d, FailEffect, ConflictEffect
<1>2. ASSUME NEW h \in Writer, OpenForm(h) PROVE Goal
  BY <1>1, <1>2, OpenFormEffect DEF HeldBy, Others
<1>3. ASSUME NEW h \in Writer, Submit(h) \/ BootLoad(h) \/ BootFlush(h) PROVE Goal
  BY <1>1, <1>3, <1>c, SubmitEffect, BootEffect
<1>6. ASSUME NEW h \in Writer, ReadVersion(h) PROVE Goal
  BY <1>1, <1>6, ReadVersionEffect DEF HeldBy, Others
<1>7. ASSUME NEW h \in Writer, Load(h) PROVE Goal
  BY <1>1, <1>7, <1>d, LoadEffect, ActiveKnown DEF HeldBy, Others
<1>8. ASSUME NEW h \in Writer, Check(h) PROVE Goal
  BY <1>1, <1>8, <1>b, <1>d, CheckEffect
<1>9. ASSUME NEW h \in Writer, History(h) PROVE Goal
  BY <1>1, <1>9, <1>c, <1>d, GoToEffect DEF History
<1>10. ASSUME NEW h \in Writer, Claim(h) PROVE Goal
  BY <1>1, <1>10, <1>b, ClaimEffect
<1>11. ASSUME NEW h \in Writer, Latest(h) PROVE Goal
  BY <1>1, <1>11, <1>b, <1>d, LatestEffect DEF AnotherSave
<1>12. ASSUME NEW h \in Writer, Create(h) PROVE Goal
  BY <1>1, <1>12, <1>b, <1>c, <1>d, CreateEffect DEF AnotherSave
<1>13. ASSUME NEW h \in Writer, Cleanup(h) \/ Prune(h) PROVE Goal
  BY <1>1, <1>13, CleanupEffect, PruneEffect DEF HeldBy, Others
<1>15. ASSUME NEW h \in Writer, Reread(h) PROVE Goal
  BY <1>1, <1>15, <1>d, RereadEffect, ActiveKnown DEF HeldBy, Others
<1>16. ASSUME NEW h \in Writer, Install(h) \/ InstallFlushed(h) PROVE Goal
  BY <1>1, <1>16, <1>c, InstallEffect
<1>17. ASSUME NEW h \in Writer, Publish(h) PROVE Goal
  BY <1>1, <1>17, <1>c, GoToEffect DEF Publish
<1>q. ASSUME NEW h \in Writer, QueryFails(h) PROVE Goal
  BY <1>d, <1>q DEF QueryFails
<1>18. ASSUME NEW r \in Reload, Deliver(r) \/ Poll(r) \/ ReloadStep(r) PROVE Goal
  BY <1>18, <1>a DEF Deliver, Poll, ReloadStep, ReloadRead, ReloadFails, ReloadInstall
<1>19. ASSUME NEW p \in Proc, Crash(p) PROVE Goal
  BY <1>1, <1>19, CrashEffect DEF HeldBy, KeptSets
<1>20. CASE UNCHANGED vars
  BY <1>20, <1>a DEF vars
<1> QED
  BY <1>2, <1>3, <1>6, <1>7, <1>8, <1>9, <1>10, <1>11, <1>12, <1>13, <1>15, <1>16, <1>17, <1>18,
     <1>19, <1>20, <1>q DEF Next, SaveStep

\* A cache takes what a save, a start or a reload holds.
LEMMA CachesHold ==
    ASSUME TypeInv, HeldInserted, [Next]_vars, NEW p \in Proc
    PROVE  cache'[p] \in Known
<1>1. /\ TypeOK /\ cache \in [Proc -> Rev] /\ cache[p] \in Known
      /\ \A h \in Writer : HeldBy(h)
      /\ \A r \in Reload : HeldByReload(r)
  BY DEF TypeInv, TypeOK, HeldInserted, HeldBy, HeldByReload, Known
<1>a. ASSUME cache' = cache PROVE cache'[p] \in Known
  BY <1>1, <1>a
<1>b. ASSUME NEW q, NEW r \in Known, cache' = [cache EXCEPT ![q] = r] PROVE cache'[p] \in Known
  BY <1>1, <1>b
<1>c. ASSUME NEW q, NEW r \in Known, NEW x, PutInCache(q, r, x) PROVE cache'[p] \in Known
  BY <1>b, <1>c DEF PutInCache
<1>d. ASSUME NEW h \in Writer, Fail(h) PROVE cache'[p] \in Known
  BY <1>1, <1>a, <1>b, <1>d DEF Fail, HeldBy
<1>e. ASSUME NEW h \in Writer, Conflict(h) PROVE cache'[p] \in Known
  BY <1>a, <1>d, <1>e DEF Conflict
<1>2. ASSUME NEW h \in Writer, BootLoad(h) PROVE cache'[p] \in Known
  BY <1>a, <1>c, <1>2, ActiveKnown DEF BootLoad
<1>3. ASSUME NEW h \in Writer, Install(h) \/ InstallFlushed(h) PROVE cache'[p] \in Known
  BY <1>1, <1>c, <1>3 DEF Install, InstallFlushed, HeldBy
<1>4. ASSUME NEW h \in Writer, Load(h) \/ Check(h) \/ History(h) \/ Latest(h) \/ Create(h) \/ Reread(h)
      PROVE  cache'[p] \in Known
  BY <1>a, <1>d, <1>e, <1>4 DEF Load, Check, History, Latest, Create, Reread
<1>5. ASSUME NEW h \in Writer, OpenForm(h) \/ Submit(h) \/ SaveStep(h) \/ QueryFails(h)
      PROVE  cache'[p] \in Known
  BY <1>a, <1>d, <1>3, <1>4, <1>5
     DEF OpenForm, Submit, SaveStep, BootFlush, ReadVersion, Claim, Cleanup, Prune, Publish, QueryFails, view
<1>6. ASSUME NEW r \in Reload, ReloadFails(r) \/ ReloadInstall(r) PROVE cache'[p] \in Known
  BY <1>1, <1>a, <1>b, <1>c, <1>6 DEF ReloadFails, ReloadInstall, HeldByReload
<1>7. ASSUME NEW r \in Reload, Deliver(r) \/ Poll(r) \/ ReloadRead(r) PROVE cache'[p] \in Known
  BY <1>a, <1>7 DEF Deliver, Poll, ReloadRead
<1>8. ASSUME NEW q \in Proc, Crash(q) PROVE cache'[p] \in Known
  BY <1>a, <1>8 DEF Crash
<1>9. CASE UNCHANGED vars
  BY <1>a, <1>9 DEF vars
<1> QED BY <1>2, <1>5, <1>6, <1>7, <1>8, <1>9 DEF Next, ReloadStep

\* A reload keeps the cache it found and the row it read.
LEMMA ReloadsHold ==
    ASSUME TypeInv, HeldInserted, [Next]_vars, NEW r \in Reload
    PROVE  rl'[r].prev \in Known /\ rl'[r].got \in Known
<1> DEFINE Goal == rl'[r].prev \in Known /\ rl'[r].got \in Known
<1>1. /\ rl \in [Reload -> ReloadType] /\ HeldByReload(r) /\ Genesis \in Known
      /\ \A p \in Proc : cache[p] \in Known
      /\ \A s \in Reload : ReloadProcOf[s] \in Proc
  BY ConfigAssumption, Constants
     DEF TypeInv, TypeOK, HeldInserted, HeldByReload, Known, ReloadType
<1>a. ASSUME rl'[r] = rl[r] PROVE Goal
  BY <1>1, <1>a DEF HeldByReload
<1>b. ASSUME rl'[r] = IdleReload PROVE Goal
  BY <1>1, <1>b DEF IdleReload
<1>2. ASSUME NEW s \in Reload, NEW x, StartReload(s, x) PROVE Goal
  <2> DEFINE c == cache[ReloadProcOf[s]]
             i == [IdleReload EXCEPT !.pc = "read", !.poll = x, !.prev = c]
  <2>1. rl' = [rl EXCEPT ![s] = i] /\ c \in Known
    BY <1>1, <1>2 DEF StartReload
  <2>2. i.prev \in Known /\ i.got \in Known
    BY <1>1, <2>1 DEF IdleReload
  <2> HIDE DEF i
  <2> QED BY <1>1, <1>a, <2>1, <2>2
<1>3. ASSUME NEW s \in Reload, Deliver(s) \/ Poll(s) PROVE Goal
  BY <1>2, <1>3 DEF Deliver, Poll
<1>4. ASSUME NEW s \in Reload, ReloadRead(s) PROVE Goal
  <2> DEFINE c == ActiveRev(rows)
  <2>1. rl' = [rl EXCEPT ![s].pc = "install", ![s].got = c] /\ c \in Known
    BY <1>4, ActiveKnown DEF ReloadRead
  <2> HIDE DEF c
  <2> QED BY <1>1, <2>1 DEF HeldByReload, ReloadType
<1>5. ASSUME NEW s \in Reload, ReloadFails(s) \/ ReloadInstall(s) PROVE Goal
  BY <1>1, <1>a, <1>b, <1>5 DEF ReloadFails, ReloadInstall
<1>6. ASSUME NEW p \in Proc, Crash(p) PROVE Goal
  BY <1>a, <1>b, <1>6 DEF Crash
<1>7. ASSUME NEW h \in Writer, OpenForm(h) \/ Submit(h) \/ BootLoad(h) \/ SaveStep(h) \/ QueryFails(h)
      PROVE  Goal
  BY <1>7, <1>a
     DEF OpenForm, Submit, BootLoad, SaveStep, BootFlush, ReadVersion, Load, Check, History, Claim,
         Latest, Create, Cleanup, Prune, Reread, Install, InstallFlushed, Publish, QueryFails, view
<1>8. CASE UNCHANGED vars
  BY <1>a, <1>8 DEF vars
<1> QED BY <1>3, <1>4, <1>5, <1>6, <1>7, <1>8 DEF Next, ReloadStep

LEMMA HeldInit == Init => HeldInserted
BY InitialFacts, Constants DEF Init, HeldInserted, Inserted, NewWriter, IdleReload

LEMMA HeldStep ==
    ASSUME TypeInv, HeldInserted, [Next]_vars
    PROVE  HeldInserted'
<1>1. \A r \in Known : Inserted(r)'
  BY StaysInserted DEF Known
<1>2. Genesis \in Known
  BY Constants DEF HeldInserted, Known
<1>3. \A p \in Proc : cache'[p] \in Known
  BY CachesHold
<1>4. \A h \in Writer : wr'[h].seen \in Known /\ wr'[h].base \in Known /\ wr'[h].prev \in Known
  BY WritersHold
<1>5. \A r \in Reload : rl'[r].prev \in Known /\ rl'[r].got \in Known
  BY ReloadsHold
<1> QED BY <1>1, <1>2, <1>3, <1>4, <1>5 DEF HeldInserted, Inserted

-----------------------------------------------------------------------------
(* A save that knows a version loses no edit.                              *)

\* What a writer that goes on with its version and its base keeps of Versioned.
SameRead(h) ==
    /\ wr'[h].exp = wr[h].exp /\ wr'[h].seen = wr[h].seen
    /\ wr'[h].base = wr[h].base /\ wr'[h].claimed = wr[h].claimed

\* On the rows as they are, a writer that stays where it is.
LEMMA VersionedSame ==
    ASSUME SameRows, NEW h \in Writer, wr[h].seen \in Rev, wr[h].base \in Rev, h \in Rev,
           Versioned(h), SameRead(h), wr'[h].pc = wr[h].pc
    PROVE  Versioned(h)'
<1>1. \A v : NewestVersion(v)' <=> NewestVersion(v)
  BY DEF NewestVersion, SameRows
<1>2. Unseen(h)' = Unseen(h)
  BY DEF Unseen, SameRows, SameRead
<1> QED BY <1>1, <1>2 DEF Versioned, SameRows, SameRead, Inserted

\* A writer whose row is there or never will be.
LEMMA VersionedOver ==
    ASSUME SameRows, NEW h \in Writer, wr[h].seen \in Rev, h \in Rev, Versioned(h),
           wr'[h].exp = wr[h].exp, wr'[h].seen = wr[h].seen,
           wr'[h].pc \notin {"check", "history", "claim", "latest", "create"}
    PROVE  Versioned(h)'
<1>1. Unseen(h)' = Unseen(h)
  BY DEF Unseen, SameRows
<1> QED BY <1>1 DEF Versioned, SameRows, Inserted

\* A writer that has inserted nothing: what its next step needs.
LEMMA VersionedNext ==
    ASSUME SameRows, NEW h \in Writer, h \in Rev, ~Inserted(h),
           \E s \in Rev : wr'[h].exp <= rows[s].ver, wr'[h].base \in Rev,
           wr'[h].pc \in {"check", "history", "claim"} /\ NewestVersion(wr'[h].exp) =>
                rows[wr'[h].base].ver = wr'[h].exp,
           wr'[h].pc \in {"latest", "create"} /\ wr'[h].claimed =>
                rows[wr'[h].base].ver = wr'[h].exp,
           wr'[h].pc = "create" => wr'[h].claimed
    PROVE  Versioned(h)'
<1>1. NewestVersion(wr[h].exp)' <=> NewestVersion(wr'[h].exp)
  BY DEF NewestVersion, SameRows
<1>2. ~Inserted(h)'
  BY DEF Inserted, SameRows
<1> QED BY <1>1, <1>2 DEF Versioned, SameRows

\* The row that becomes active is the newest, so it has the newest version.
LEMMA ActiveNewest ==
    ASSUME TypeInv, OrderKept, NEW r \in Active(rows)
    PROVE  /\ r \in Rev /\ NewestVersion(rows[r].ver)
           /\ \A v \in Nat : NewestVersion(v) => v = rows[r].ver
<1>1. r \in Rev /\ Newest(r) /\ \A s \in Rev : rows[s].ver \in Nat
  BY RowsInv DEF Active, OrderKept, VersionsGrow
<1>2. NewestVersion(rows[r].ver)
  BY <1>1 DEF Newest, NewestVersion
<1>3. ASSUME NEW v \in Nat, NewestVersion(v) PROVE v = rows[r].ver
  <2>1. PICK s \in Rev : rows[s].ver = v
    BY <1>3 DEF NewestVersion
  <2>2. v <= rows[r].ver /\ rows[r].ver <= v
    BY <1>1, <1>3, <2>1 DEF Newest, NewestVersion
  <2> QED BY <1>1, <1>3, <2>2
<1> QED BY <1>1, <1>2, <1>3

\* Another writer's insertion is over the version this one knows.
LEMMA VersionedOvertaken ==
    ASSUME TypeInv, OrderKept, HeldInserted, NEW h \in Writer, Inserts(h), wr[h].claimed,
           NEW g \in Writer, g # h, wr[g].exp # NoVersion, Versioned(g)
    PROVE  Versioned(g)'
<1> DEFINE v == wr[h].latest + 1
<1>1. /\ \A r \in Rev : rows[r].ver \in Nat
      /\ wr[g].exp \in Nat /\ wr[g].exp > 0 /\ wr[h].latest \in Nat
      /\ wr[g].seen \in Rev /\ wr[g].base \in Rev /\ g \in Rev /\ h \in Rev
  BY RowsInv, Constants DEF TypeOK
<1>2. Owner(h) /\ wr[h].pc = "create" /\ ~Inserted(h) /\ rows[h].ver = 0
  BY Constants DEF Inserts, Owner, Inserted
<1>3. \A r \in Rev : rows[r].ver < v
  <2>1. NewestVersion(wr[h].latest)
    BY <1>2 DEF OrderKept, OneOwner
  <2> QED BY <1>1, <2>1 DEF NewestVersion
<1>4. wr'[g] = wr[g] /\ rows'[h].ver = v /\ \A r \in Rev : r # h => rows'[r] = rows[r]
  BY DEF Inserts, OnlyPc, Others
<1>5. PICK s \in Rev : wr[g].exp <= rows[s].ver
  BY DEF Versioned
<1>6. wr[g].exp < v /\ v \in Nat /\ s # h
  BY <1>1, <1>2, <1>3, <1>5
<1> HIDE DEF v
<1>7. ~NewestVersion(wr[g].exp)'
  BY <1>1, <1>4, <1>6 DEF NewestVersion
<1>8. wr[g].seen # h /\ wr[g].base # h
  BY <1>2 DEF HeldInserted
<1>9. Unseen(g)' = Unseen(g)
  BY <1>1, <1>4, <1>8 DEF Unseen
<1>10. rows'[g] = rows[g] /\ rows'[s] = rows[s] /\ rows'[wr[g].base] = rows[wr[g].base]
  BY <1>1, <1>4, <1>6, <1>8
<1>11. \A r \in Rev : rows'[r].ver = wr[g].exp => r # h /\ rows'[r] = rows[r]
  BY <1>1, <1>4, <1>6
<1> QED BY <1>4, <1>5, <1>7, <1>9, <1>10, <1>11 DEF Versioned, Inserted

\* The owner of the hand-off merged its edit into the row it replaces.
LEMMA VersionedInserted ==
    ASSUME TypeInv, OrderKept, HeldInserted, NEW h \in Writer, Inserts(h), wr[h].claimed,
           wr[h].exp # NoVersion, h \notin Boot, Versioned(h)
    PROVE  Versioned(h)'
<1>1. /\ \A r \in Rev : rows[r].ver \in Nat
      /\ wr[h].exp \in Nat /\ wr[h].latest \in Nat
      /\ wr[h].seen \in Rev /\ wr[h].base \in Rev /\ h \in Rev
  BY RowsInv, Constants DEF TypeOK
<1>2. Owner(h) /\ wr[h].pc = "create" /\ ~Inserted(h)
  BY DEF Inserts, Owner, Inserted
<1>3. NewestVersion(wr[h].latest) /\ NewestVersion(wr[h].exp)
  BY <1>2 DEF OrderKept, OneOwner
<1>4. wr[h].latest = wr[h].exp
  <2>1. PICK r \in Rev, s \in Rev : rows[r].ver = wr[h].exp /\ rows[s].ver = wr[h].latest
    BY <1>3 DEF NewestVersion
  <2>2. wr[h].exp <= wr[h].latest /\ wr[h].latest <= wr[h].exp
    BY <1>3, <2>1 DEF NewestVersion
  <2> QED BY <1>1, <2>2
<1>5. /\ wr'[h].exp = wr[h].exp /\ wr'[h].seen = wr[h].seen /\ wr'[h].pc = "cleanup"
      /\ rows'[h].ver = wr[h].exp + 1 /\ rows'[h].content = Merged(h)
      /\ \A r \in Rev : r # h => rows'[r] = rows[r]
  BY <1>4 DEF Inserts, OnlyPc, KeptNumbers, KeptSets
<1>6. rows[wr[h].base].ver = wr[h].exp
  BY <1>2 DEF Versioned
<1>7. wr[h].seen # h /\ wr[h].base # h
  BY <1>2 DEF HeldInserted
<1>8. Unseen(h)' = Unseen(h)
  BY <1>1, <1>5, <1>7 DEF Unseen
<1>9. rows[wr[h].base].content \ Unseen(h) \subseteq Merged(h)
  BY DEF Merged, Unseen
<1>10. ASSUME NEW r \in Rev, rows'[r].ver = wr[h].exp
       PROVE  rows'[r].content \ Unseen(h) \subseteq Merged(h)
  <2>1. r # h
    BY <1>1, <1>5, <1>10
  <2>2. rows'[r] = rows[r] /\ rows[r].ver = rows[wr[h].base].ver /\ rows[r].ver # NoVersion
    BY <1>5, <1>6, <1>10, <2>1
  <2>3. r = wr[h].base
    BY <1>1, <2>2 DEF OrderKept, VersionsGrow
  <2> QED BY <1>9, <2>2, <2>3
<1>11. \E s \in Rev : wr[h].exp <= rows'[s].ver
  BY <1>1, <1>5
<1> QED BY <1>5, <1>8, <1>10, <1>11 DEF Versioned, Inserted

\* A step of the writer itself that inserts nothing.
LEMMA VersionedWriter ==
    ASSUME TypeInv, OrderKept, HeldInserted, Keeping, [Next]_vars, SameRows,
           NEW h \in Writer, wr'[h].exp # NoVersion,
           OpenForm(h) \/ Submit(h) \/ BootLoad(h) \/ SaveStep(h) \/ QueryFails(h)
    PROVE  Versioned(h)'
<1>1. /\ TypeOK /\ Booting /\ h \in Rev /\ wr[h].seen \in Rev /\ wr[h].base \in Rev
      /\ wr[h].exp \in Nat /\ rows \in [Rev -> Revision]
      /\ wr[h].pc \in BeforeCreate => ~Inserted(h)
      /\ wr[h].exp # NoVersion => Versioned(h) /\ h \notin Boot
  BY SMTT(30), RowsInv, Constants DEF TypeInv, TypeOK, Numbering, Inserted, Keeping
<1>2. Active(rows) # {} => /\ ActiveRev(rows) \in Active(rows) /\ ActiveRev(rows) \in Rev
                           /\ ActiveVersion(rows) = rows[ActiveRev(rows)].ver
                           /\ ActiveVersion(rows) \in Nat
  BY <1>1, ActiveFacts, Constants DEF Active
<1>3. Active(rows) = {} => ActiveVersion(rows) = NoVersion
  BY <1>1, ActiveFacts
<1>4. ActiveVersion(rows) # NoVersion =>
        /\ \E s \in Rev : ActiveVersion(rows) <= rows[s].ver
        /\ Active(rows) # {}
  BY <1>2, <1>3
\* Nothing more to read or to write.
<1>a. ASSUME wr'[h].exp = wr[h].exp, wr'[h].seen = wr[h].seen,
             wr'[h].pc \notin {"check", "history", "claim", "latest", "create"}
      PROVE  Versioned(h)'
  BY <1>1, <1>a, VersionedOver
<1>b. ASSUME OnlyPc(h), wr'[h].pc \notin {"check", "history", "claim", "latest", "create"}
      PROVE  Versioned(h)'
  BY <1>a, <1>b DEF OnlyPc, KeptNumbers, KeptSets
<1>c. ASSUME Fail(h) \/ Conflict(h) PROVE Versioned(h)'
  BY <1>1, <1>b, <1>c, FailEffect, ConflictEffect
<1>d. ASSUME wr'[h].exp = wr[h].exp PROVE Versioned(h) /\ h \notin Boot
                                          /\ \E s \in Rev : wr'[h].exp <= rows[s].ver
  BY <1>1, <1>d DEF Versioned
<1>5. CASE OpenForm(h)
  <2>1. wr'[h].pc = "form" /\ wr'[h].exp = ActiveVersion(rows) /\ wr'[h].base = wr[h].base
        /\ wr[h].pc = "idle"
    BY <1>1, <1>5, OpenFormEffect DEF OpenForm
  <2> QED BY <1>1, <1>4, <2>1, VersionedNext DEF BeforeCreate
<1>6. CASE Submit(h)
  BY <1>1, <1>6, <1>b, SubmitEffect
<1>7. CASE BootLoad(h) \/ BootFlush(h)
  <2>1. h \in Boot /\ wr'[h].exp = wr[h].exp
    BY <1>1, <1>7, BootEffect DEF OnlyPc, KeptNumbers, Booting
  <2> QED BY <1>1, <2>1
<1>8. CASE ReadVersion(h)
  <2>1. /\ wr'[h].pc = "load" /\ wr'[h].base = wr[h].base /\ wr[h].pc = "queued"
        /\ wr'[h].exp = IF h \in Form THEN wr[h].exp ELSE ActiveVersion(rows)
    BY <1>1, <1>8, ReadVersionEffect
  <2>2. \E s \in Rev : wr'[h].exp <= rows[s].ver
    BY <1>4, <1>d, <2>1
  <2> QED BY <1>1, <2>1, <2>2, VersionedNext DEF BeforeCreate
<1>9. CASE Load(h)
  <2>1. CASE Fail(h)
    BY <1>c, <2>1
  <2>2. CASE ~Fail(h)
    <3>1. /\ Active(rows) # {} /\ wr'[h].pc = "check" /\ wr'[h].base = ActiveRev(rows)
          /\ wr'[h].exp = wr[h].exp /\ wr[h].pc = "load"
      BY <1>1, <1>9, <2>2, LoadEffect DEF KeptNumbers, Load
    <3>2. \E s \in Rev : wr'[h].exp <= rows[s].ver
      BY <1>d, <3>1
    <3>3. NewestVersion(wr[h].exp) => rows[ActiveRev(rows)].ver = wr[h].exp
      BY <1>1, <1>2, <3>1, ActiveNewest
    <3>4. wr'[h].base \in Rev /\ ~Inserted(h)
      BY <1>1, <1>2, <3>1 DEF BeforeCreate
    <3> QED BY <1>1, <3>1, <3>2, <3>3, <3>4, VersionedNext
  <2> QED BY <2>1, <2>2
<1>10. CASE Check(h)
  <2>1. CASE Conflict(h)
    BY <1>c, <2>1
  <2>2. CASE ~Conflict(h)
    <3>1. /\ wr'[h].pc \in {"claim", "history"} /\ wr'[h].base = wr[h].base
          /\ wr'[h].exp = wr[h].exp /\ wr[h].pc = "check"
      BY <1>1, <1>10, <2>2, CheckEffect DEF KeptSets, Check
    <3>2. /\ \E s \in Rev : wr'[h].exp <= rows[s].ver
          /\ NewestVersion(wr[h].exp) => rows[wr[h].base].ver = wr[h].exp
      BY <1>d, <3>1 DEF Versioned
    <3>3. wr'[h].base \in Rev /\ ~Inserted(h)
      BY <1>1, <3>1 DEF BeforeCreate
    <3> QED BY <1>1, <3>1, <3>2, <3>3, VersionedNext
  <2> QED BY <2>1, <2>2
<1>11. CASE History(h)
  <2>1. CASE Conflict(h)
    BY <1>c, <2>1
  <2>2. CASE ~Conflict(h)
    <3>1. /\ wr'[h].pc = "claim" /\ wr'[h].base = wr[h].base
          /\ wr'[h].exp = wr[h].exp /\ wr[h].pc = "history"
      BY <1>1, <1>11, <2>2, GoToEffect DEF OnlyPc, KeptNumbers, KeptSets, History
    <3>2. /\ \E s \in Rev : wr'[h].exp <= rows[s].ver
          /\ NewestVersion(wr[h].exp) => rows[wr[h].base].ver = wr[h].exp
      BY <1>d, <3>1 DEF Versioned
    <3>3. wr'[h].base \in Rev /\ ~Inserted(h)
      BY <1>1, <3>1 DEF BeforeCreate
    <3> QED BY <1>1, <3>1, <3>2, <3>3, VersionedNext
  <2> QED BY <2>1, <2>2
<1>12. CASE Claim(h)
  <2>1. /\ wr'[h].pc = "latest" /\ wr'[h].base = wr[h].base /\ wr'[h].exp = wr[h].exp
        /\ wr'[h].claimed = (Claimed(rows, wr[h].exp) # {}) /\ wr[h].pc = "claim"
    BY <1>1, <1>12, ClaimEffect DEF KeptSets, Claim
  <2>2. /\ \E s \in Rev : wr'[h].exp <= rows[s].ver
        /\ NewestVersion(wr[h].exp) => rows[wr[h].base].ver = wr[h].exp
    BY <1>d, <2>1 DEF Versioned
  <2>3. wr'[h].claimed => NewestVersion(wr[h].exp)
    <3> HAVE wr'[h].claimed
    <3>1. PICK r \in Active(rows) : rows[r].ver = wr[h].exp
      BY <2>1 DEF Claimed
    <3> QED BY <3>1, ActiveNewest
  <2>4. wr'[h].base \in Rev /\ ~Inserted(h)
    BY <1>1, <2>1 DEF BeforeCreate
  <2> QED BY <1>1, <2>1, <2>2, <2>3, <2>4, VersionedNext
<1>13. CASE Latest(h)
  <2>1. CASE Conflict(h)
    BY <1>c, <2>1
  <2>2. CASE ~Conflict(h)
    <3>1. wr'[h].exp = wr[h].exp /\ wr'[h].base = wr[h].base /\ wr'[h].claimed = wr[h].claimed
          /\ wr[h].pc = "latest"
      BY <1>1, <1>13, <2>2, LatestEffect DEF AnotherSave, KeptSets, Latest
    <3>2. wr'[h].pc = "create" /\ wr[h].claimed
      BY <1>1, <1>13, <2>2, <3>1, LatestEffect DEF AnotherSave
    <3>3. /\ \E s \in Rev : wr'[h].exp <= rows[s].ver
          /\ rows[wr[h].base].ver = wr[h].exp
      BY <1>d, <3>1, <3>2 DEF Versioned
    <3>4. wr'[h].base \in Rev /\ ~Inserted(h)
      BY <1>1, <3>1 DEF BeforeCreate
    <3> QED BY <1>1, <3>1, <3>2, <3>3, <3>4, VersionedNext
  <2> QED BY <2>1, <2>2
<1>14. CASE Create(h)
  <2>1. ~CanCreate(rows)
    <3> SUFFICES ASSUME CanCreate(rows) PROVE FALSE
      OBVIOUS
    <3>1. Inserts(h)
      BY <1>14, InsertsEffect
    <3> QED BY <1>1, <3>1 DEF Inserts, SameRows, Inserted
  <2>2. wr[h].pc = "create" /\ wr'[h].exp = wr[h].exp
    BY <1>1, <1>14, CreateEffect, FailEffect DEF Create, AnotherSave, OnlyPc, KeptNumbers
  <2>3. wr[h].claimed /\ ~Inserted(h)
    BY <1>1, <1>d, <2>2 DEF Versioned, BeforeCreate
  <2>4. Owner(h)
    BY <2>3 DEF Owner, Inserted
  <2> QED BY <2>1, <2>4 DEF OrderKept, OneOwner, CanCreate
<1>15. CASE Cleanup(h) \/ Prune(h)
  <2>1. wr'[h].exp = wr[h].exp /\ wr'[h].seen = wr[h].seen /\ wr'[h].pc \in {"prune", "reread"}
    BY <1>1, <1>15, CleanupEffect, PruneEffect DEF KeptNumbers
  <2> QED BY <1>a, <2>1
<1>16. CASE Reread(h)
  <2>1. CASE Fail(h)
    BY <1>c, <2>1
  <2>2. CASE ~Fail(h)
    <3>1. wr'[h].exp = wr[h].exp /\ wr'[h].seen = wr[h].seen /\ wr'[h].pc = "install"
      BY <1>1, <1>16, <2>2, RereadEffect DEF KeptNumbers
    <3> QED BY <1>a, <3>1
  <2> QED BY <2>1, <2>2
<1>17. CASE Install(h) \/ InstallFlushed(h)
  BY <1>1, <1>17, <1>b, InstallEffect
<1>18. CASE Publish(h)
  BY <1>1, <1>18, <1>b, GoToEffect DEF Publish
<1>19. CASE QueryFails(h)
  BY <1>c, <1>19 DEF QueryFails
<1> QED BY <1>5, <1>6, <1>7, <1>8, <1>9, <1>10, <1>11, <1>12, <1>13, <1>14, <1>15, <1>16, <1>17, <1>18,
           <1>19 DEF SaveStep

\* A writer's step leaves the others alone.
LEMMA OthersKept ==
    ASSUME TypeOK, NEW h \in Writer,
           OpenForm(h) \/ Submit(h) \/ BootLoad(h) \/ SaveStep(h) \/ QueryFails(h)
    PROVE  Others(h)
<1>1. ASSUME Fail(h) \/ Conflict(h) PROVE Others(h)
  BY <1>1, FailEffect, ConflictEffect DEF OnlyPc
<1>2. ASSUME NEW pc, GoTo(h, pc) PROVE Others(h)
  BY <1>2, GoToEffect DEF OnlyPc
<1>3. CASE OpenForm(h) \/ ReadVersion(h) \/ Claim(h) \/ Cleanup(h) \/ Prune(h)
  BY <1>3, OpenFormEffect, ReadVersionEffect, ClaimEffect, CleanupEffect, PruneEffect
<1>4. CASE Submit(h) \/ BootLoad(h) \/ BootFlush(h)
  BY <1>4, SubmitEffect, BootEffect DEF OnlyPc
<1>5. CASE Load(h) \/ Reread(h)
  BY <1>1, <1>5, LoadEffect, RereadEffect
<1>6. CASE Check(h) \/ Latest(h)
  BY <1>1, <1>6, CheckEffect, LatestEffect DEF AnotherSave
<1>7. CASE Create(h)
  BY <1>1, <1>7, CreateEffect DEF AnotherSave, OnlyPc
<1>8. CASE Install(h) \/ InstallFlushed(h)
  BY <1>8, InstallEffect DEF OnlyPc
<1>9. CASE History(h) \/ Publish(h) \/ QueryFails(h)
  BY <1>1, <1>2, <1>9 DEF History, Publish, QueryFails
<1> QED BY <1>3, <1>4, <1>5, <1>6, <1>7, <1>8, <1>9 DEF SaveStep

\* A save that knows its version keeps what the row it replaces holds.
LEMMA KeepingStep ==
    ASSUME TypeInv, OrderKept, HeldInserted, Keeping, Orderly', [Next]_vars
    PROVE  Keeping'
<1>0. /\ TypeOK /\ Booting
      /\ \A g \in Writer : g \in Rev /\ wr[g].seen \in Rev /\ wr[g].base \in Rev
      /\ \A h \in Boot : h \in Writer /\ h \notin Form
  BY RowsInv, ConfigAssumption, Constants DEF TypeInv, TypeOK
<1>1. ASSUME NEW h \in Boot PROVE wr'[h].exp = NoVersion
  <2>1. h \in Writer /\ h \notin Form /\ wr[h].exp = NoVersion
    BY <1>0 DEF Keeping
  <2>2. wr[h].pc \notin {"form", "queued", "load", "publish"}
    BY <1>0 DEF Booting
  <2>a. ASSUME wr'[h] = wr[h] PROVE wr'[h].exp = NoVersion
    BY <2>1, <2>a
  <2>b. ASSUME NEW g \in Writer, OpenForm(g) \/ Submit(g) \/ BootLoad(g) \/ SaveStep(g) \/ QueryFails(g)
        PROVE  wr'[h].exp = NoVersion
    <3>1. CASE g # h
      BY <1>0, <2>a, <2>1, <2>b, <3>1, OthersKept DEF Others
    <3>2. CASE g = h
      <4>a. ASSUME Fail(h) \/ Conflict(h) PROVE wr'[h].exp = wr[h].exp
        BY <1>0, <2>1, <4>a, FailEffect, ConflictEffect DEF OnlyPc, KeptNumbers
      <4>1. ~OpenForm(h) /\ ~ReadVersion(h) /\ ~Submit(h)
        BY <2>1, <2>2 DEF OpenForm, ReadVersion, Submit
      <4>2. CASE BootLoad(h) \/ BootFlush(h) \/ Claim(h) \/ Cleanup(h) \/ Prune(h)
        BY <1>0, <2>1, <4>2, BootEffect, ClaimEffect, CleanupEffect, PruneEffect DEF OnlyPc, KeptNumbers
      <4>3. CASE Load(h) \/ Reread(h)
        BY <1>0, <2>1, <4>a, <4>3, LoadEffect, RereadEffect DEF KeptNumbers
      <4>4. CASE Check(h) \/ Latest(h)
        BY <1>0, <2>1, <4>a, <4>4, CheckEffect, LatestEffect DEF AnotherSave
      <4>5. CASE Create(h)
        BY <1>0, <2>1, <4>a, <4>5, CreateEffect DEF AnotherSave, OnlyPc, KeptNumbers
      <4>6. CASE Install(h) \/ InstallFlushed(h)
        BY <1>0, <2>1, <4>6, InstallEffect DEF OnlyPc, KeptNumbers
      <4>7. CASE History(h) \/ Publish(h) \/ QueryFails(h)
        BY <1>0, <2>1, <4>a, <4>7, GoToEffect DEF History, Publish, QueryFails, OnlyPc, KeptNumbers
      <4> QED BY <2>b, <3>2, <4>1, <4>2, <4>3, <4>4, <4>5, <4>6, <4>7 DEF SaveStep
    <3> QED BY <3>1, <3>2
  <2>c. ASSUME NEW r \in Reload, Deliver(r) \/ Poll(r) \/ ReloadStep(r) PROVE wr' = wr
    BY <2>c DEF Deliver, Poll, ReloadStep, ReloadRead, ReloadFails, ReloadInstall
  <2>d. ASSUME NEW p \in Proc, Crash(p) PROVE wr'[h].exp = NoVersion
    BY <1>0, <2>1, <2>d, CrashEffect DEF KeptNumbers
  <2>e. CASE UNCHANGED vars
    BY <2>a, <2>e DEF vars
  <2> QED BY <2>a, <2>b, <2>c, <2>d, <2>e DEF Next
<1>2. ASSUME NEW g \in Writer, wr'[g].exp # NoVersion PROVE Versioned(g)'
  <2>1. CASE \E h \in Writer : Inserts(h)
    <3>1. PICK h \in Writer : Inserts(h)
      BY <2>1
    <3>2. wr[h].claimed
      BY <3>1 DEF Orderly, Inserts, OnlyPc, KeptNumbers
    <3>3. wr[g].exp # NoVersion
      BY <1>2, <3>1 DEF Inserts, OnlyPc, Others, KeptNumbers
    <3>4. Versioned(g) /\ g \notin Boot
      BY <3>3 DEF Keeping
    <3> QED BY <3>1, <3>2, <3>3, <3>4, VersionedInserted, VersionedOvertaken
  <2>2. CASE ~(\E h \in Writer : Inserts(h))
    <3>1. SameRows
      BY <2>2, RowsStep
    <3>a. ASSUME wr'[g] = wr[g] PROVE Versioned(g)'
      BY <1>0, <1>2, <3>1, <3>a, VersionedSame DEF SameRead, Keeping
    <3>2. ASSUME NEW h \in Writer,
                 OpenForm(h) \/ Submit(h) \/ BootLoad(h) \/ SaveStep(h) \/ QueryFails(h)
          PROVE  Versioned(g)'
      <4>1. CASE g # h
        BY <1>0, <3>a, <3>2, <4>1, OthersKept DEF Others
      <4>2. CASE g = h
        BY <1>2, <3>1, <3>2, <4>2, VersionedWriter
      <4> QED BY <4>1, <4>2
    <3>3. ASSUME NEW r \in Reload, Deliver(r) \/ Poll(r) \/ ReloadStep(r) PROVE Versioned(g)'
      BY <3>3, <3>a DEF Deliver, Poll, ReloadStep, ReloadRead, ReloadFails, ReloadInstall
    <3>4. ASSUME NEW p \in Proc, Crash(p) PROVE Versioned(g)'
      <4>1. CASE ProcOf[g] = p /\ ~Finished(g)
        <5>1. wr'[g].pc = "lost" /\ wr'[g].exp = wr[g].exp /\ wr'[g].seen = wr[g].seen
          BY <1>0, <3>4, <4>1, CrashEffect DEF KeptNumbers, KeptSets
        <5>2. Versioned(g)
          BY <1>2, <5>1 DEF Keeping
        <5> QED BY <1>0, <3>1, <5>1, <5>2, VersionedOver
      <4>2. CASE ~(ProcOf[g] = p /\ ~Finished(g))
        BY <1>0, <3>4, <3>a, <4>2, CrashEffect
      <4> QED BY <4>1, <4>2
    <3>5. CASE UNCHANGED vars
      BY <3>a, <3>5 DEF vars
    <3> QED BY <3>2, <3>3, <3>4, <3>5 DEF Next
  <2> QED BY <2>1, <2>2
<1> QED BY <1>1, <1>2 DEF Keeping

LEMMA KeepAlways == Spec => [](TypeInv /\ OrderInv /\ HeldInserted /\ KeepInv)
<1>1. Init => KeepInv
  BY ConfigAssumption DEF Init, NewWriter, KeepInv, Keeping
<1>2. TypeInv /\ OrderInv /\ HeldInserted /\ KeepInv /\ [Next]_vars => KeepInv'
  BY OrderlyBefore, KeepingStep DEF OrderInv, OrderKept, KeepInv
<1> QED BY <1>1, <1>2, OrderAlways, HeldInit, HeldStep, PTL DEF Spec

\* A save that was given a version, or read one, loses nothing of the revision
\* before its own, whichever process saved that, in whatever order their queries
\* run, and whatever reloads, failures and crashes they meet (the expectedVersion
\* of updateConfig), until a last attempt inserts in another save's hand-off.
THEOREM VersionedSavesKeepEdits == Spec => []VersionedSavesKeep
<1>1. TypeInv /\ KeepInv => VersionedSavesKeep
  <2> SUFFICES ASSUME TypeInv, Keeping, NEW h \in Writer, NEW r \in Rev, rows[h].ver # NoVersion,
                      wr[h].exp # NoVersion, rows[h].ver = rows[r].ver + 1
               PROVE  rows[r].content \ Unseen(h) \subseteq rows[h].content
    BY DEF KeepInv, VersionedSavesKeep
  <2>1. Versioned(h) /\ Inserted(h)
    BY DEF Keeping, Inserted
  <2>2. rows[r].ver \in Nat /\ wr[h].exp \in Nat
    BY RowsInv, Constants DEF TypeOK
  <2>3. rows[r].ver = wr[h].exp
    BY <2>1, <2>2 DEF Versioned
  <2> QED BY <2>1, <2>3 DEF Versioned
<1> QED BY <1>1, KeepAlways, PTL

-----------------------------------------------------------------------------
(* What a process is told, and what its saves do to its cache.             *)

\* The times are numbers.
LEMMA AgesInv ==
    ASSUME TypeInv
    PROVE  /\ SavesSoFar(rows) \in Nat
           /\ \A r \in Rev : Age(r) \in Nat
           /\ \A p \in Proc : past[p].told \in Nat /\ past[p].reached \in Nat
                              /\ past[p].disturbed \in BOOLEAN
           /\ past \in [Proc -> PastType] /\ cache \in [Proc -> Rev]
<1>1. rows \in [Rev -> Revision] /\ past \in [Proc -> PastType] /\ cache \in [Proc -> Rev]
  BY DEF TypeInv, TypeOK, PastType
<1> QED BY <1>1, Constants DEF SavesSoFar, Age, Revision, PastType

\* Rows only get older.
LEMMA AgesGrow ==
    ASSUME TypeInv, Aging, [Next]_vars, NEW r \in Rev
    PROVE  Age(r) <= Age(r)' /\ Age(r)' \in Nat
<1>1. Age(r) \in Nat /\ SavesSoFar(rows) \in Nat
  BY AgesInv
<1>2. CASE Age(r)' = Age(r)
  BY <1>1, <1>2
<1>3. CASE Age(r)' # Age(r)
  <2>1. Age(r) = 0 /\ Age(r)' = 1 + SavesSoFar(rows)
    BY <1>3, RowsStep DEF Age, SameRows, Inserts, Aging
  <2> QED BY <1>1, <2>1
<1> QED BY <1>2, <1>3

\* What a process is told of is a row's age, or nothing.
LEMMA ToldStep ==
    ASSUME TypeInv, [Next]_vars, NEW p \in Proc
    PROVE  past'[p].told \in {past[p].told, 0} \cup {Age(h) : h \in Rev}
<1> DEFINE Goal == past'[p].told \in {past[p].told, 0} \cup {Age(h) : h \in Rev}
<1>1. past \in [Proc -> PastType] /\ Writer \subseteq Rev
  BY AgesInv, Constants
<1>2. ASSUME past' = past PROVE Goal
  BY <1>2
<1>3. ASSUME NEW q, NEW r, NEW x, PutInCache(q, r, x) PROVE Goal
  BY <1>1, <1>3 DEF PutInCache, PastType
<1>4. ASSUME NEW h \in Writer, BootLoad(h) PROVE Goal
  BY <1>2, <1>3, <1>4 DEF BootLoad
<1>5. ASSUME NEW h \in Writer, Install(h) \/ InstallFlushed(h) PROVE Goal
  BY <1>3, <1>5 DEF Install, InstallFlushed
<1>6. ASSUME NEW h \in Writer, ReadVersion(h) PROVE Goal
  <2> DEFINE d == past[ProcOf[h]].disturbed /\ wr[h].attempt > 0
  <2>1. past' = [past EXCEPT ![ProcOf[h]].disturbed = d]
    BY <1>1, <1>6 DEF ReadVersion, PastType
  <2> HIDE DEF d
  <2> QED BY <1>1, <2>1 DEF PastType
<1>7. ASSUME NEW h \in Writer, Publish(h) PROVE Goal
  BY <1>1, <1>7 DEF Publish, Broadcast, PastType
<1>8. ASSUME NEW r \in Reload, ReloadFails(r) PROVE Goal
  BY <1>1, <1>8 DEF ReloadFails, PastType
<1>9. ASSUME NEW r \in Reload, ReloadInstall(r) PROVE Goal
  BY <1>3, <1>9 DEF ReloadInstall
<1>10. ASSUME NEW q \in Proc, Crash(q) PROVE Goal
  BY <1>1, <1>10 DEF Crash, PastType
<1>11. ASSUME NEW h \in Writer, OpenForm(h) \/ Submit(h) \/ SaveStep(h) \/ QueryFails(h) PROVE Goal
  BY <1>2, <1>5, <1>6, <1>7, <1>11
     DEF OpenForm, Submit, SaveStep, BootFlush, Load, Check, History, Claim, Latest, Create, Cleanup,
         Prune, Reread, QueryFails, view
<1>12. ASSUME NEW r \in Reload, Deliver(r) \/ Poll(r) \/ ReloadRead(r) PROVE Goal
  BY <1>2, <1>12 DEF Deliver, Poll, ReloadRead
<1>13. CASE UNCHANGED vars
  BY <1>2, <1>13 DEF vars
<1> QED BY <1>4, <1>8, <1>9, <1>10, <1>11, <1>12, <1>13 DEF Next, ReloadStep

\* An insertion is one save more, and its row is the youngest.
LEMMA AgingInserted ==
    ASSUME TypeInv, Aging, NEW h \in Writer, Inserts(h)
    PROVE  /\ \A r \in Rev : Age(r)' <= SavesSoFar(rows)'
           /\ \A r \in Rev : Age(r)' <= Age(h)'
<1> DEFINE n == SavesSoFar(rows)
           T == {q \in Rev : rows[q].at > 0}
<1>1. n \in Nat /\ h \in Rev /\ \A r \in Rev : rows[r].at \in Nat /\ rows[r].at <= n
  BY AgesInv, Constants DEF Aging, Age
<1>2. rows[h].at = 0 /\ rows'[h].at = 1 + n /\ \A r \in Rev : r # h => rows'[r] = rows[r]
  BY <1>1 DEF Inserts, Aging, Age
<1>3. {q \in Rev : rows'[q].at > 0} = T \cup {h}
  BY <1>1, <1>2
<1>4. IsFiniteSet(T) /\ h \notin T /\ n = Cardinality(T)
  BY <1>1, <1>2, Constants DEF SavesSoFar
<1>5. SavesSoFar(rows') = n + 1
  <2>1. Cardinality(T \cup {h}) = Cardinality(T) + 1
    BY <1>4, FS_AddElement
  <2> QED BY <1>3, <1>4, <2>1 DEF SavesSoFar
<1> HIDE DEF n, T
<1>6. \A r \in Rev : rows'[r].at \in Nat /\ rows'[r].at <= n + 1
  BY <1>1, <1>2
<1> QED BY <1>1, <1>2, <1>5, <1>6 DEF Age

LEMMA AgingStep ==
    ASSUME TypeInv, Aging, [Next]_vars
    PROVE  Aging'
<1>1. (\A r \in Rev : ~Inserted(r) => Age(r) = 0)'
  BY StaysInserted, RowsStep DEF Aging, Inserted, Age, SameRows, Inserts
<1>2. (\A r \in Rev : Age(r) <= SavesSoFar(rows))' /\ (\A r \in Active(rows), s \in Rev : Age(s) <= Age(r))'
  <2>1. CASE \E h \in Writer : Inserts(h)
    <3>1. PICK h \in Writer : Inserts(h)
      BY <2>1
    <3>2. \A r \in Active(rows)' : r = h
      BY <3>1 DEF Inserts, CanCreate, Active
    <3> QED BY <3>1, <3>2, AgingInserted
  <2>2. CASE ~(\E h \in Writer : Inserts(h))
    <3>1. SameRows /\ \A r \in Rev : rows'[r].state = "active" => rows[r].state = "active"
      BY <2>2, RowsStep
    <3>2. {q \in Rev : rows'[q].at > 0} = {q \in Rev : rows[q].at > 0}
      BY <3>1 DEF SameRows
    <3>3. SavesSoFar(rows') = SavesSoFar(rows)
      BY <3>2 DEF SavesSoFar
    <3>4. Active(rows)' \subseteq Active(rows) /\ \A r \in Rev : Age(r)' = Age(r)
      BY <3>1 DEF Active, Age, SameRows
    <3>5. \A r \in Active(rows)' : r \in Rev
      BY DEF Active
    <3> QED BY <3>3, <3>4, <3>5 DEF Aging
  <2> QED BY <2>1, <2>2
<1>3. ASSUME NEW p \in Proc PROVE \E s \in Rev : past'[p].told <= Age(s)'
  <2>1. PICK s \in Rev : past[p].told <= Age(s)
    BY DEF Aging
  <2>2. past[p].told \in Nat /\ \A r \in Rev : Age(r) \in Nat /\ Age(r)' \in Nat /\ Age(r) <= Age(r)'
    BY AgesInv, AgesGrow
  <2>3. CASE past'[p].told \in {past[p].told, 0}
    BY <2>1, <2>2, <2>3
  <2>4. CASE past'[p].told \notin {past[p].told, 0}
    BY <2>2, <2>4, ToldStep
  <2> QED BY <2>3, <2>4
<1> QED BY <1>1, <1>2, <1>3 DEF Aging

LEMMA AgingInit == Init => Aging
<1> SUFFICES ASSUME Init PROVE Aging
  OBVIOUS
<1>1. (\A r \in Rev : rows[r].at = 0) /\ \A p \in Proc : past[p].told = 0
  BY InitialFacts DEF Init
<1>2. SavesSoFar(rows) \in Nat /\ Genesis \in Rev
  BY Constants DEF SavesSoFar
<1> QED BY <1>1, <1>2 DEF Aging, Age, Active

\* What is put in the cache of a process.
LEMMA CachePutEffect ==
    ASSUME TypeInv, NEW q \in Proc, NEW r \in Rev, NEW x \in BOOLEAN, PutInCache(q, r, x)
    PROVE  /\ \A p \in Proc : past'[p].told = past[p].told /\ past[p].reached <= past'[p].reached
           /\ \A p \in Proc : p # q => cache'[p] = cache[p] /\ past'[p] = past[p]
           /\ cache'[q] = r /\ Age(r) <= past'[q].reached
           /\ past'[q].disturbed = (past[q].disturbed \/ ~x)
<1> DEFINE n == IF Age(r) > past[q].reached THEN Age(r) ELSE past[q].reached
           d == past[q].disturbed \/ ~x
<1>1. /\ past \in [Proc -> PastType] /\ cache \in [Proc -> Rev] /\ Age(r) \in Nat
      /\ \A p \in Proc : past[p].reached \in Nat
  BY AgesInv
<1>2. past[q].reached <= n /\ Age(r) <= n
  BY <1>1
<1>3. past' = [past EXCEPT ![q].reached = n, ![q].disturbed = d] /\ cache' = [cache EXCEPT ![q] = r]
  BY <1>1 DEF PutInCache, PastType
<1>4. d = (past[q].disturbed \/ ~x)
  OBVIOUS
<1> HIDE DEF n, d
<1>5. /\ past'[q].reached = n /\ past'[q].disturbed = d /\ past'[q].told = past[q].told
      /\ \A p \in Proc : p # q => past'[p] = past[p]
  BY <1>1, <1>3 DEF PastType
<1>6. \A p \in Proc : past[p].reached <= past[p].reached
  BY <1>1
<1> QED BY <1>1, <1>2, <1>3, <1>4, <1>5, <1>6

\* Publishing tells the processes that listen.
LEMMA PublishEffect ==
    ASSUME TypeInv, NEW h \in Writer, Publish(h), NEW p \in Proc
    PROVE  /\ past'[p].reached = past[p].reached /\ past'[p].disturbed = past[p].disturbed
           /\ cache' = cache /\ rl' = rl
           /\ \/ past'[p].told = past[p].told /\ inbox'[p] = inbox[p]
              \/ inbox'[p] > 0
<1>1. PICK Q : Broadcast(h, Q)
  BY DEF Publish
<1>2. past \in [Proc -> PastType] /\ inbox[p] \in Nat /\ cache' = cache /\ rl' = rl
  BY AgesInv DEF TypeInv, TypeOK, Publish
<1>3. /\ inbox'[p] = inbox[p] + IF p \in Q THEN 1 ELSE 0
      /\ past'[p] = IF p \in Q /\ Age(h) > past[p].told
                    THEN [past[p] EXCEPT !.told = Age(h)] ELSE past[p]
  BY <1>1 DEF Broadcast
<1> QED BY <1>2, <1>3 DEF PastType

LEMMA ReadVersionPast ==
    ASSUME TypeInv, NEW h \in Writer, ReadVersion(h), NEW p \in Proc
    PROVE  /\ past'[p].told = past[p].told /\ past'[p].reached = past[p].reached
           /\ past'[p].disturbed =
                (past[p].disturbed /\ (p = ProcOf[h] => wr[h].attempt > 0))
<1> DEFINE d == past[ProcOf[h]].disturbed /\ wr[h].attempt > 0
<1>1. past \in [Proc -> PastType] /\ ProcOf[h] \in Proc
  BY AgesInv, ConfigAssumption
<1>2. past' = [past EXCEPT ![ProcOf[h]].disturbed = d]
  BY <1>1 DEF ReadVersion, PastType
<1>3. p = ProcOf[h] => (d = (past[p].disturbed /\ (p = ProcOf[h] => wr[h].attempt > 0)))
  OBVIOUS
<1>4. p # ProcOf[h] => (past[p].disturbed = (past[p].disturbed /\ (p = ProcOf[h] => wr[h].attempt > 0)))
  BY <1>1 DEF PastType
<1> HIDE DEF d
<1>5. /\ past'[p].told = past[p].told /\ past'[p].reached = past[p].reached
      /\ past'[p].disturbed = IF p = ProcOf[h] THEN d ELSE past[p].disturbed
  BY <1>1, <1>2 DEF PastType
<1> QED BY <1>3, <1>4, <1>5

\* What the process gives up or loses when a reload of it fails or it dies.
LEMMA GivenUp ==
    ASSUME TypeInv, NEW p \in Proc, NEW q \in Proc,
           \/ \E r \in Reload : ReloadFails(r) /\ ReloadProcOf[r] = q
           \/ Crash(q)
    PROVE  /\ past'[q].told = 0 /\ past'[p].reached = past[p].reached
           /\ p # q => /\ past'[p] = past[p] /\ cache'[p] = cache[p] /\ inbox'[p] = inbox[p]
                       /\ \A r \in Reload : ReloadProcOf[r] = p => rl'[r] = rl[r]
<1>1. /\ past \in [Proc -> PastType] /\ cache \in [Proc -> Rev] /\ inbox \in [Proc -> Nat]
      /\ rl \in [Reload -> ReloadType]
  BY AgesInv DEF TypeInv, TypeOK, ReloadType
<1>2. CASE Crash(q)
  BY <1>1, <1>2 DEF Crash, PastType
<1>3. CASE \E r \in Reload : ReloadFails(r) /\ ReloadProcOf[r] = q
  <2>1. PICK r \in Reload : ReloadFails(r) /\ ReloadProcOf[r] = q
    BY <1>3
  <2>2. /\ past'[q].told = 0 /\ past'[p].reached = past[p].reached /\ inbox' = inbox
        /\ p # q => past'[p] = past[p]
    BY <1>1, <2>1 DEF ReloadFails, PastType
  <2>3. p # q => cache'[p] = cache[p] /\ \A s \in Reload : ReloadProcOf[s] = p => rl'[s] = rl[s]
    BY <1>1, <2>1 DEF ReloadFails
  <2> QED BY <2>2, <2>3
<1> QED BY <1>2, <1>3

\* What a process was told of is not forgotten before it is installed.
LEMMA HeardStep ==
    ASSUME TypeInv, Aging, NEW p \in Proc, Heard(p), [Next]_vars
    PROVE  Heard(p)'
<1>1. /\ past[p].told \in Nat /\ past[p].reached \in Nat /\ inbox[p] \in Nat
      /\ past \in [Proc -> PastType] /\ inbox \in [Proc -> Nat] /\ rl \in [Reload -> ReloadType]
      /\ \A r \in Reload : rl[r].got \in Rev /\ ReloadProcOf[r] \in Proc
      /\ \A h \in Writer : wr[h].base \in Rev /\ ProcOf[h] \in Proc
      /\ \A r \in Rev : Age(r) \in Nat /\ Age(r)' \in Nat /\ Age(r) <= Age(r)'
      /\ rows \in [Rev -> Revision]
  BY AgesInv, AgesGrow, ConfigAssumption DEF TypeInv, TypeOK, ReloadType
\* The reloads of p go on as they were.
<1>a. ASSUME past'[p].told = past[p].told, past'[p].reached \in Nat, past[p].reached <= past'[p].reached,
             inbox'[p] = inbox[p], \A r \in Reload : ReloadProcOf[r] = p => rl'[r] = rl[r]
      PROVE  Heard(p)'
  <2>1. CASE past[p].told <= past[p].reached \/ inbox[p] > 0
    BY <1>1, <1>a, <2>1 DEF Heard
  <2>2. CASE ~(past[p].told <= past[p].reached \/ inbox[p] > 0)
    <3>1. PICK r \in Reload : /\ ReloadProcOf[r] = p
                              /\ \/ rl[r].pc = "read"
                                 \/ rl[r].pc = "install" /\ past[p].told <= Age(rl[r].got)
      BY <2>2 DEF Heard
    <3>2. rl'[r] = rl[r] /\ rl[r].got \in Rev
      BY <1>1, <1>a, <3>1
    <3>3. rl[r].pc = "install" => past'[p].told <= rows'[rl[r].got].at
      <4> DEFINE c == rl[r].got
      <4>1. rows[c].at \in Nat /\ rows'[c].at \in Nat /\ rows[c].at <= rows'[c].at
        BY <1>1, <3>2 DEF Age
      <4>2. rl[r].pc = "install" => past[p].told <= rows[c].at
        BY <3>1 DEF Age
      <4> HIDE DEF c
      <4>3. rl[r].pc = "install" => past'[p].told <= rows'[c].at
        BY <1>1, <1>a, <4>1, <4>2
      <4> QED BY <4>3 DEF c
    <3> QED BY <3>1, <3>2, <3>3 DEF Heard, Age
  <2> QED BY <2>1, <2>2
<1>b. ASSUME UNCHANGED <<past, inbox, rl>> PROVE Heard(p)'
  BY <1>1, <1>a, <1>b
<1>c. ASSUME past'[p].told = 0, past'[p].reached = past[p].reached PROVE Heard(p)'
  BY <1>1, <1>c DEF Heard
<1>d. ASSUME NEW q \in Proc, NEW r \in Rev, NEW x \in BOOLEAN, PutInCache(q, r, x), UNCHANGED <<inbox, rl>>
      PROVE  Heard(p)'
  <2>1. /\ past'[p].told = past[p].told /\ past[p].reached <= past'[p].reached
        /\ past' \in [Proc -> PastType]
    BY <1>d, CachePutEffect, CachePutTyped DEF TypeInv
  <2> QED BY <1>a, <1>d, <2>1 DEF PastType
<1>2. ASSUME NEW h \in Writer, BootLoad(h) PROVE Heard(p)'
  <2>1. CASE Active(rows) = {}
    BY <1>2, <1>b, <2>1 DEF BootLoad
  <2>2. CASE Active(rows) # {}
    BY <1>1, <1>2, <1>d, <2>2, ActiveFacts DEF BootLoad
  <2> QED BY <2>1, <2>2
<1>3. ASSUME NEW h \in Writer, Install(h) \/ InstallFlushed(h) PROVE Heard(p)'
  BY <1>1, <1>3, <1>d DEF Install, InstallFlushed
<1>4. ASSUME NEW h \in Writer, ReadVersion(h) PROVE Heard(p)'
  <2>1. past'[p].told = past[p].told /\ past'[p].reached = past[p].reached /\ UNCHANGED <<inbox, rl>>
    BY <1>4, ReadVersionPast DEF ReadVersion
  <2>2. past'[p].reached \in Nat /\ past[p].reached <= past'[p].reached
    BY <1>1, <2>1
  <2> QED BY <1>a, <2>1, <2>2
<1>5. ASSUME NEW h \in Writer, Publish(h) PROVE Heard(p)'
  <2>1. CASE inbox'[p] > 0
    BY <2>1 DEF Heard
  <2>2. CASE ~(inbox'[p] > 0)
    BY SMTT(30), <1>1, <1>5, <1>a, <2>2, PublishEffect
  <2> QED BY <2>1, <2>2
<1>6. ASSUME NEW h \in Writer, OpenForm(h) \/ Submit(h) \/ SaveStep(h) \/ QueryFails(h) PROVE Heard(p)'
  BY <1>b, <1>3, <1>4, <1>5, <1>6
     DEF OpenForm, Submit, SaveStep, BootFlush, Load, Check, History, Claim, Latest, Create, Cleanup,
         Prune, Reread, QueryFails, view
<1>7. ASSUME NEW r \in Reload, Deliver(r) \/ Poll(r) PROVE Heard(p)'
  <2>1. (\A s \in Reload : s # r => rl'[s] = rl[s]) /\ rl'[r].pc = "read" /\ past' = past
    <3>1. PICK x : StartReload(r, x)
      BY <1>7 DEF Deliver, Poll
    <3> DEFINE i == [IdleReload EXCEPT !.pc = "read", !.poll = x, !.prev = cache[ReloadProcOf[r]]]
    <3>2. i.pc = "read"
      BY DEF IdleReload
    <3>3. rl' = [rl EXCEPT ![r] = i] /\ past' = past
      BY <1>7, <3>1 DEF Deliver, Poll, StartReload
    <3> HIDE DEF i
    <3> QED BY <1>1, <3>2, <3>3
  <2>2. ReloadProcOf[r] # p => inbox'[p] = inbox[p]
    BY <1>1, <1>7 DEF Deliver, Poll
  <2>3. CASE ReloadProcOf[r] = p
    BY <2>1, <2>3 DEF Heard
  <2>4. CASE ReloadProcOf[r] # p
    <3>1. \A s \in Reload : ReloadProcOf[s] = p => rl'[s] = rl[s]
      BY <2>1, <2>4
    <3> QED BY <1>1, <1>a, <2>1, <2>2, <2>4, <3>1
  <2> QED BY <2>3, <2>4
<1>8. ASSUME NEW r \in Reload, ReloadRead(r) PROVE Heard(p)'
  <2> DEFINE c == ActiveRev(rows)
  <2>1. /\ rl' = [rl EXCEPT ![r].pc = "install", ![r].got = c] /\ UNCHANGED <<rows, past, inbox>>
        /\ c \in Active(rows) /\ c \in Rev
    BY <1>1, <1>8, ActiveFacts DEF ReloadRead, Active
  <2>2. past[p].told <= Age(c)
    <3>1. PICK s \in Rev : past[p].told <= Age(s)
      BY DEF Aging
    <3>2. Age(s) <= Age(c) /\ Age(s) \in Nat /\ Age(c) \in Nat
      BY <1>1, <2>1 DEF Aging
    <3> HIDE DEF c
    <3> QED BY <1>1, <3>1, <3>2
  <2> HIDE DEF c
  <2>3. /\ \A s \in Reload : s # r => rl'[s] = rl[s]
        /\ rl'[r].pc = "install" /\ rl'[r].got = c
    BY <1>1, <2>1 DEF ReloadType
  <2>4. CASE ReloadProcOf[r] = p
    BY <2>1, <2>2, <2>3, <2>4 DEF Heard, Age
  <2>5. CASE ReloadProcOf[r] # p
    <3>1. \A s \in Reload : ReloadProcOf[s] = p => rl'[s] = rl[s]
      BY <2>3, <2>5
    <3> QED BY <1>1, <1>a, <2>1, <3>1
  <2> QED BY <2>4, <2>5
<1>9. ASSUME NEW r \in Reload, ReloadInstall(r) PROVE Heard(p)'
  <2>1. /\ PutInCache(ReloadProcOf[r], rl[r].got, FALSE) /\ rl[r].pc = "install"
        /\ UNCHANGED <<rows, inbox>> /\ rl' = [rl EXCEPT ![r] = IdleReload]
    BY <1>9 DEF ReloadInstall
  <2>2. /\ past'[p].told = past[p].told /\ past[p].reached <= past'[p].reached
        /\ ReloadProcOf[r] = p => Age(rl[r].got) <= past'[p].reached
        /\ past' \in [Proc -> PastType]
    BY <1>1, <2>1, CachePutEffect, CachePutTyped DEF TypeInv
  <2>3. past'[p].reached \in Nat /\ \A s \in Reload : s # r => rl'[s] = rl[s]
    BY <1>1, <2>1, <2>2 DEF PastType
  <2>4. CASE ReloadProcOf[r] # p
    <3>1. \A s \in Reload : ReloadProcOf[s] = p => rl'[s] = rl[s]
      BY <2>3, <2>4
    <3> QED BY <1>a, <2>1, <2>2, <2>3, <3>1
  <2>5. CASE ReloadProcOf[r] = p /\ past[p].told <= Age(rl[r].got)
    <3>1. Age(rl[r].got) \in Nat
      BY <1>1
    <3>2. past'[p].told <= past'[p].reached
      BY <1>1, <2>2, <2>3, <2>5, <3>1
    <3> QED BY <3>2 DEF Heard
  <2>6. CASE ReloadProcOf[r] = p /\ ~(past[p].told <= Age(rl[r].got))
    <3>1. CASE past[p].told <= past[p].reached \/ inbox[p] > 0
      BY <1>1, <2>1, <2>2, <2>3, <3>1 DEF Heard
    <3>2. CASE ~(past[p].told <= past[p].reached \/ inbox[p] > 0)
      <4>1. PICK s \in Reload : /\ ReloadProcOf[s] = p
                                /\ \/ rl[s].pc = "read"
                                   \/ rl[s].pc = "install" /\ past[p].told <= Age(rl[s].got)
        BY <3>2 DEF Heard
      <4>2. s # r /\ rl'[s] = rl[s]
        BY <2>1, <2>3, <2>6, <4>1
      <4> QED BY <2>1, <2>2, <4>1, <4>2 DEF Heard, Age
    <3> QED BY <3>1, <3>2
  <2> QED BY <2>4, <2>5, <2>6
<1>10. ASSUME NEW r \in Reload, ReloadFails(r) PROVE Heard(p)'
  <2>1. ReloadProcOf[r] \in Proc
    BY <1>1
  <2>2. CASE ReloadProcOf[r] = p
    BY <1>c, <1>10, <2>2, GivenUp
  <2>3. CASE ReloadProcOf[r] # p
    <3>1. past'[p] = past[p] /\ inbox'[p] = inbox[p] /\ \A s \in Reload : ReloadProcOf[s] = p => rl'[s] = rl[s]
      BY <1>10, <2>1, <2>3, GivenUp
    <3> QED BY <1>1, <1>a, <3>1
  <2> QED BY <2>2, <2>3
<1>11. ASSUME NEW q \in Proc, Crash(q) PROVE Heard(p)'
  <2>1. CASE q = p
    BY <1>c, <1>11, <2>1, GivenUp
  <2>2. CASE q # p
    <3>1. past'[p] = past[p] /\ inbox'[p] = inbox[p] /\ \A s \in Reload : ReloadProcOf[s] = p => rl'[s] = rl[s]
      BY <1>11, <2>2, GivenUp
    <3> QED BY <1>1, <1>a, <3>1
  <2> QED BY <2>1, <2>2
<1>12. CASE UNCHANGED vars
  BY <1>b, <1>12 DEF vars
<1> QED BY <1>2, <1>6, <1>7, <1>8, <1>9, <1>10, <1>11, <1>12 DEF Next, ReloadStep

\* No invalidation that arrives is without effect: whatever reloads overlap, with
\* one another and with saves and failures (the handler of config:invalidated
\* starts reload() without awaiting it), a process that has nothing under way has
\* installed a configuration as new as the newest it was told of.
THEOREM ToldIsInstalledAlways == Spec => []ToldIsInstalled
<1> DEFINE HeardOf == \A p \in Proc : Heard(p)
<1>1. Init => HeardOf
  BY DEF Init, Heard
<1>2. TypeInv /\ Aging /\ HeardOf /\ [Next]_vars => HeardOf'
  BY HeardStep
<1>3. HeardOf => ToldIsInstalled
  BY ConfigAssumption DEF ToldIsInstalled, Settled, Heard
<1> HIDE DEF HeardOf
<1> QED BY <1>1, <1>2, <1>3, TypeInvInit, TypeInvStep, AgingInit, AgingStep, PTL DEF Spec

\* Nothing happens to the cache of p.
QuietCache(p) == cache'[p] = cache[p] /\ past'[p].disturbed = past[p].disturbed

\* A save or a start writes the cache of its own process.
LEMMA CacheElsewhere ==
    ASSUME TypeInv, NEW h \in Writer, NEW p \in Proc, p # ProcOf[h],
           OpenForm(h) \/ Submit(h) \/ BootLoad(h) \/ SaveStep(h) \/ QueryFails(h)
    PROVE  QuietCache(p)
<1>1. /\ TypeOK /\ cache \in [Proc -> Rev] /\ ProcOf[h] \in Proc /\ wr[h].base \in Rev
      /\ rows \in [Rev -> Revision]
  BY AgesInv, ConfigAssumption DEF TypeInv, TypeOK
<1>a. ASSUME cache' = cache, past' = past PROVE QuietCache(p)
  BY <1>a DEF QuietCache
<1>b. ASSUME NEW r \in Rev, NEW x \in BOOLEAN, PutInCache(ProcOf[h], r, x) PROVE QuietCache(p)
  BY <1>1, <1>b, CachePutEffect DEF QuietCache
<1>c. ASSUME Fail(h), past' = past PROVE QuietCache(p)
  BY <1>1, <1>c DEF Fail, QuietCache
<1>d. ASSUME Conflict(h), past' = past PROVE QuietCache(p)
  BY <1>a, <1>c, <1>d DEF Conflict
<1>2. CASE BootLoad(h)
  BY <1>1, <1>2, <1>a, <1>b, ActiveFacts DEF BootLoad
<1>3. CASE Install(h) \/ InstallFlushed(h)
  BY <1>1, <1>3, <1>b DEF Install, InstallFlushed
<1>4. CASE ReadVersion(h)
  <2>1. cache' = cache
    BY <1>4 DEF ReadVersion
  <2>2. past'[p].disturbed = (past[p].disturbed /\ (p = ProcOf[h] => wr[h].attempt > 0))
    BY <1>4, ReadVersionPast
  <2>3. past[p].disturbed \in BOOLEAN
    BY AgesInv
  <2>4. past'[p].disturbed = past[p].disturbed
    BY <2>2, <2>3
  <2> QED BY <2>1, <2>4 DEF QuietCache
<1>5. CASE Publish(h)
  BY <1>5, PublishEffect DEF QuietCache
<1>6. CASE Load(h) \/ Reread(h) \/ Create(h)
  BY <1>6, <1>a, <1>c DEF Load, Reread, Create
<1>7. CASE Check(h) \/ History(h) \/ Latest(h)
  BY <1>7, <1>a, <1>d DEF Check, History, Latest
<1>8. CASE OpenForm(h) \/ Submit(h) \/ BootFlush(h) \/ Claim(h) \/ Cleanup(h)
  BY <1>8, <1>a DEF OpenForm, Submit, BootFlush, Claim, Cleanup, view
<1>9. CASE Prune(h)
  BY <1>9, <1>a DEF Prune
<1>10. CASE QueryFails(h)
  BY <1>10, <1>c DEF QueryFails
<1> QED BY <1>2, <1>3, <1>4, <1>5, <1>6, <1>7, <1>8, <1>9, <1>10 DEF SaveStep

\* The steps of a save are those of the holder of the update lock.
LEMMA StepLocked ==
    ASSUME TypeInv, NEW h \in Writer, h \notin Boot, SaveStep(h) \/ QueryFails(h)
    PROVE  HoldsLock(h)
<1>1. AtWork(h) \/ ReadVersion(h)
  <2>1. ~BootFlush(h) /\ ~InstallFlushed(h)
    BY DEF BootFlush, InstallFlushed, TypeInv, Booting
  <2>2. CASE QueryFails(h)
    BY <2>2, QueryFailsEffect DEF TypeInv
  <2>3. CASE SaveStep(h)
    BY <2>1, <2>3
       DEF SaveStep, AtWork, Load, Check, History, Claim, Latest, Create, Cleanup, Prune, Reread,
           Install, Publish
  <2> QED BY <2>2, <2>3
<1> QED BY <1>1 DEF TypeInv, LockKept, ReadVersion

\* A start that writes the cache is not mistaken for a save.
LEMMA StartDisturbs ==
    ASSUME TypeInv, NEW h \in Boot, BootLoad(h) \/ SaveStep(h) \/ QueryFails(h)
    PROVE  QuietCache(ProcOf[h]) \/ past'[ProcOf[h]].disturbed
<1> DEFINE p == ProcOf[h]
           Goal == QuietCache(p) \/ past'[p].disturbed
<1>1. /\ TypeOK /\ h \in Writer /\ p \in Proc /\ wr[h].base \in Rev /\ h \notin Form
      /\ wr[h].pc \notin {"form", "queued", "load", "publish"} /\ rows \in [Rev -> Revision]
  BY ConfigAssumption DEF TypeInv, TypeOK, Booting
<1>a. ASSUME cache' = cache, past' = past PROVE Goal
  BY <1>a DEF QuietCache
<1>b. ASSUME NEW r \in Rev, PutInCache(p, r, FALSE) PROVE Goal
  BY <1>1, <1>b, CachePutEffect
<1>c. ASSUME Fail(h) \/ Conflict(h), past' = past PROVE Goal
  BY <1>a, <1>c DEF Fail, Conflict
<1>2. CASE BootLoad(h)
  BY <1>1, <1>2, <1>a, <1>b, ActiveFacts DEF BootLoad
<1>3. CASE InstallFlushed(h)
  BY <1>1, <1>3, <1>b DEF InstallFlushed
<1>4. CASE ReadVersion(h) \/ Load(h) \/ Publish(h) \/ Install(h)
  BY <1>1, <1>4 DEF ReadVersion, Load, Publish, Install
<1>5. CASE Reread(h) \/ Create(h) \/ Check(h) \/ History(h) \/ Latest(h)
  BY <1>5, <1>a, <1>c DEF Reread, Create, Check, History, Latest
<1>6. CASE BootFlush(h) \/ Claim(h) \/ Cleanup(h) \/ Prune(h)
  BY <1>6, <1>a DEF BootFlush, Claim, Cleanup, Prune, view
<1>7. CASE QueryFails(h)
  BY <1>7, <1>c DEF QueryFails
<1> QED BY <1>2, <1>3, <1>4, <1>5, <1>6, <1>7 DEF SaveStep

\* Nobody touched the cache, and the save stays where it is.
LEMMA RestorableSame ==
    ASSUME TypeInv, HeldInserted, Aging, [Next]_vars, NEW g \in Writer, Restorable(g),
           wr'[g] = wr[g], QuietCache(ProcOf[g])
    PROVE  Restorable(g)'
<1> DEFINE p == ProcOf[g]
           c == cache[p]
           b == wr[g].base
<1>1. c \in Rev /\ b \in Rev /\ Inserted(c) /\ Inserted(b)
  BY ConfigAssumption DEF TypeInv, TypeOK, HeldInserted
<1>2. rows'[c].at = rows[c].at /\ rows'[b].at = rows[b].at
  <2> HIDE DEF c, b
  <2> QED BY <1>1, StaysInserted
<1>3. AtWork(g)' <=> AtWork(g)
  BY DEF AtWork
<1> QED BY <1>2, <1>3 DEF Restorable, QuietCache, Age

\* A save goes on, on the cache as it found it.
LEMMA RestorableOn ==
    ASSUME NEW g \in Writer, Restorable(g), AtWork(g), wr[g].pc # "publish",
           wr'[g].prev = wr[g].prev, cache' = cache, past' = past, wr'[g].pc # "install"
    PROVE  Restorable(g)'
BY DEF Restorable

\* The steps of the save itself.
LEMMA RestorableOwn ==
    ASSUME TypeInv, Aging, NEW g \in Writer, g \notin Boot, Restorable(g),
           OpenForm(g) \/ Submit(g) \/ BootLoad(g) \/ SaveStep(g) \/ QueryFails(g)
    PROVE  Restorable(g)'
<1>1. TypeOK /\ Booting /\ rows \in [Rev -> Revision] /\ ProcOf[g] \in Proc
  BY ConfigAssumption DEF TypeInv, TypeOK
<1>a. ASSUME ~AtWork(g)' PROVE Restorable(g)'
  BY <1>a DEF Restorable
<1>b. ASSUME Fail(g) PROVE Restorable(g)'
  BY <1>1, <1>a, <1>b, FailEffect DEF AtWork
<1>c. ASSUME Conflict(g), AtWork(g), wr[g].pc # "publish", past' = past PROVE Restorable(g)'
  <2>1. CASE Fail(g)
    BY <1>b, <2>1
  <2>2. CASE ~Fail(g)
    <3>1. OnlyPc(g) /\ wr'[g].pc = "queued" /\ cache' = cache
      BY <1>1, <1>c, <2>2, ConflictEffect
    <3> QED BY <1>c, <3>1, RestorableOn DEF OnlyPc, KeptSets
  <2> QED BY <2>1, <2>2
<1>2. CASE OpenForm(g) \/ Submit(g)
  <2>1. wr'[g].pc \in {"form", "queued"} /\ wr'[g].attempt = 0
    <3>1. wr[g].pc \in {"idle", "form"}
      BY <1>2 DEF OpenForm, Submit
    <3>2. wr[g].attempt = 0
      BY <1>1, <3>1 DEF Booting
    <3> QED BY <1>1, <1>2, <3>2, OpenFormEffect, SubmitEffect DEF OnlyPc, KeptNumbers
  <2> QED BY <1>a, <2>1 DEF AtWork
<1>3. CASE BootLoad(g) \/ BootFlush(g) \/ InstallFlushed(g)
  BY <1>1, <1>3 DEF BootLoad, BootFlush, InstallFlushed, Booting
<1>4. CASE ReadVersion(g)
  <2>1. /\ wr[g].pc = "queued" /\ wr'[g].pc = "load" /\ cache' = cache
        /\ wr'[g].prev = IF wr[g].attempt = 0 THEN cache[ProcOf[g]] ELSE wr[g].prev
    BY <1>1, <1>4, ReadVersionEffect
  <2>2. past'[ProcOf[g]].disturbed = (past[ProcOf[g]].disturbed /\ wr[g].attempt > 0)
    BY <1>1, <1>4, ReadVersionPast
  <2>3. wr[g].attempt \in Nat
    BY <1>1, Constants DEF TypeOK
  <2>4. ~past'[ProcOf[g]].disturbed => wr'[g].prev = cache'[ProcOf[g]]
    <3>1. CASE wr[g].attempt = 0
      BY <2>1, <3>1
    <3>2. CASE wr[g].attempt > 0
      BY <2>1, <2>2, <3>2 DEF Restorable, AtWork
    <3> QED BY <2>3, <3>1, <3>2
  <2> QED BY <2>1, <2>4 DEF Restorable
<1>5. CASE Load(g)
  <2>1. AtWork(g) /\ wr[g].pc # "publish" /\ past' = past
    BY <1>5 DEF Load, AtWork
  <2> QED BY <1>1, <1>5, <1>b, <2>1, LoadEffect, RestorableOn
<1>6. CASE Check(g)
  <2>1. AtWork(g) /\ wr[g].pc # "publish" /\ past' = past
    BY <1>6 DEF Check, AtWork
  <2> QED BY <1>1, <1>6, <1>c, <2>1, CheckEffect, RestorableOn DEF KeptSets
<1>7. CASE History(g)
  <2>1. AtWork(g) /\ wr[g].pc # "publish" /\ past' = past
    BY <1>7 DEF History, AtWork
  <2>2. CASE Conflict(g)
    BY <1>c, <2>1, <2>2
  <2>3. CASE ~Conflict(g)
    <3>1. OnlyPc(g) /\ wr'[g].pc = "claim" /\ cache' = cache
      BY <1>1, <1>7, <2>3, GoToEffect DEF History
    <3> QED BY <2>1, <3>1, RestorableOn DEF OnlyPc, KeptSets
  <2> QED BY <2>2, <2>3
<1>8. CASE Claim(g)
  <2>1. AtWork(g) /\ wr[g].pc # "publish" /\ past' = past /\ cache' = cache
    BY <1>8 DEF Claim, AtWork, view
  <2> QED BY <1>1, <1>8, <2>1, ClaimEffect, RestorableOn DEF KeptSets
<1>9. CASE Latest(g)
  <2>1. AtWork(g) /\ wr[g].pc # "publish" /\ past' = past
    BY <1>9 DEF Latest, AtWork
  <2> QED BY <1>1, <1>9, <1>c, <2>1, LatestEffect, RestorableOn DEF KeptSets, AnotherSave
<1>10. CASE Create(g)
  <2>1. AtWork(g) /\ wr[g].pc # "publish" /\ past' = past
    BY <1>10 DEF Create, AtWork
  <2> QED BY <1>1, <1>10, <1>b, <2>1, CreateEffect, RestorableOn DEF OnlyPc, KeptSets, AnotherSave
<1>11. CASE Cleanup(g) \/ Prune(g)
  <2>1. AtWork(g) /\ wr[g].pc # "publish" /\ past' = past /\ cache' = cache
    BY <1>11 DEF Cleanup, Prune, AtWork, view
  <2> QED BY <1>1, <1>11, <2>1, CleanupEffect, PruneEffect, RestorableOn
<1>12. CASE Reread(g)
  <2>1. CASE Fail(g)
    BY <1>b, <2>1
  <2>2. CASE ~Fail(g)
    <3>1. /\ wr'[g].pc = "install" /\ wr'[g].base = ActiveRev(rows) /\ wr'[g].prev = wr[g].prev
          /\ cache' = cache /\ past' = past /\ rows' = rows /\ wr[g].pc = "reread"
          /\ Active(rows) # {}
      BY <1>1, <1>12, <2>2, RereadEffect DEF Reread
    <3>2. AtWork(g)
      BY <3>1 DEF AtWork
    <3>3. Age(cache[ProcOf[g]]) <= Age(ActiveRev(rows))
      <4>1. cache[ProcOf[g]] \in Rev /\ ActiveRev(rows) \in Active(rows)
        BY <1>1, <3>1, ActiveFacts DEF TypeOK
      <4> QED BY <4>1 DEF Aging
    <3> QED BY <3>1, <3>2, <3>3 DEF Restorable, Age
  <2> QED BY <2>1, <2>2
<1>13. CASE Install(g)
  <2>1. wr'[g].pc = "publish"
    BY <1>1, <1>13, InstallEffect
  <2> QED BY <2>1 DEF Restorable
<1>14. CASE Publish(g)
  BY <1>1, <1>14, <1>a, GoToEffect DEF Publish, AtWork
<1>15. CASE QueryFails(g)
  BY <1>15, <1>b DEF QueryFails
<1> QED
  BY <1>2, <1>3, <1>4, <1>5, <1>6, <1>7, <1>8, <1>9, <1>10, <1>11, <1>12, <1>13, <1>14, <1>15
     DEF SaveStep

\* Whatever the others do, a save that fails puts back what is there, unless a
\* reload or a start wrote it.
LEMMA RestorableStep ==
    ASSUME TypeInv, HeldInserted, Aging, [Next]_vars, NEW g \in Writer, Restorable(g)
    PROVE  Restorable(g)'
<1> DEFINE p == ProcOf[g]
<1>1. TypeOK /\ p \in Proc /\ LockKept /\ cache \in [Proc -> Rev] /\ past \in [Proc -> PastType]
  BY AgesInv, ConfigAssumption DEF TypeInv
<1>a. ASSUME past'[p].disturbed PROVE Restorable(g)'
  BY <1>a DEF Restorable
<1>b. ASSUME wr'[g] = wr[g], QuietCache(p) PROVE Restorable(g)'
  BY <1>b, RestorableSame
<1>2. CASE g \in Boot
  BY <1>2 DEF Restorable, AtWork
<1>3. ASSUME NEW h \in Writer, OpenForm(h) \/ Submit(h) \/ BootLoad(h) \/ SaveStep(h) \/ QueryFails(h),
             g \notin Boot
      PROVE  Restorable(g)'
  <2>1. CASE h = g
    BY <1>3, <2>1, RestorableOwn
  <2>2. ASSUME h # g PROVE wr'[g] = wr[g]
    BY <1>1, <1>3, <2>2, OthersKept DEF Others
  <2>3. CASE h # g /\ ProcOf[h] # p
    BY <1>1, <1>3, <1>b, <2>2, <2>3, CacheElsewhere
  <2>4. CASE h # g /\ ProcOf[h] = p /\ h \in Boot
    <3>1. ~OpenForm(h) /\ ~Submit(h)
      BY <2>4, ConfigAssumption DEF OpenForm, Submit
    <3> QED BY <1>3, <1>a, <1>b, <2>2, <2>4, <3>1, StartDisturbs
  <2>5. CASE h # g /\ ProcOf[h] = p /\ h \notin Boot
    <3>1. CASE OpenForm(h) \/ Submit(h)
      <4>1. cache' = cache /\ past' = past
        BY <3>1 DEF OpenForm, Submit, view
      <4> QED BY <1>b, <2>2, <2>5, <4>1 DEF QuietCache
    <3>2. CASE BootLoad(h)
      BY <2>5, <3>2 DEF BootLoad
    <3>3. CASE SaveStep(h) \/ QueryFails(h)
      <4>1. HoldsLock(h)
        BY <2>5, <3>3, StepLocked
      <4>2. ~AtWork(g)
        BY <1>1, <2>5, <4>1 DEF LockKept, HoldsLock
      <4>3. ~AtWork(g)'
        BY <2>2, <2>5, <4>2 DEF AtWork
      <4> QED BY <4>3 DEF Restorable
    <3> QED BY <1>3, <3>1, <3>2, <3>3
  <2> QED BY <2>1, <2>3, <2>4, <2>5
<1>4. ASSUME NEW r \in Reload, Deliver(r) \/ Poll(r) \/ ReloadRead(r) PROVE Restorable(g)'
  <2>1. wr' = wr /\ cache' = cache /\ past' = past
    BY <1>4 DEF Deliver, Poll, ReloadRead
  <2> QED BY <1>b, <2>1 DEF QuietCache
<1>5. ASSUME NEW r \in Reload, ReloadFails(r) PROVE Restorable(g)'
  <2>1. ReloadProcOf[r] \in Proc /\ wr' = wr
    BY <1>5, ConfigAssumption DEF ReloadFails
  <2>2. CASE ReloadProcOf[r] = p
    <3>1. past'[p].disturbed
      BY <1>1, <1>5, <2>2 DEF ReloadFails, PastType
    <3> QED BY <1>a, <3>1
  <2>3. CASE ReloadProcOf[r] # p
    BY <1>1, <1>5, <1>b, <2>1, <2>3, GivenUp DEF QuietCache
  <2> QED BY <2>2, <2>3
<1>6. ASSUME NEW r \in Reload, ReloadInstall(r) PROVE Restorable(g)'
  <2>1. /\ ReloadProcOf[r] \in Proc /\ wr' = wr /\ rl[r].got \in Rev
        /\ PutInCache(ReloadProcOf[r], rl[r].got, FALSE)
    BY <1>1, <1>6, ConfigAssumption DEF ReloadInstall, TypeOK
  <2>2. CASE ReloadProcOf[r] = p
    BY <1>a, <2>1, <2>2, CachePutEffect
  <2>3. CASE ReloadProcOf[r] # p
    BY ZenonT(40), <1>1, <1>b, <2>1, <2>3, CachePutEffect DEF QuietCache
  <2> QED BY <2>2, <2>3
<1>7. ASSUME NEW q \in Proc, Crash(q) PROVE Restorable(g)'
  <2>1. cache' = cache /\ past'[p].disturbed = past[p].disturbed
    BY <1>1, <1>7 DEF Crash, PastType
  <2>2. wr'[g].pc = "lost" \/ wr'[g] = wr[g]
    BY <1>1, <1>7, CrashEffect
  <2>3. CASE wr'[g].pc = "lost"
    BY <2>3 DEF Restorable, AtWork
  <2>4. CASE wr'[g] = wr[g]
    BY <1>b, <2>1, <2>4 DEF QuietCache
  <2> QED BY <2>2, <2>3, <2>4
<1>8. CASE UNCHANGED vars
  BY <1>8, <1>b DEF vars, QuietCache
<1>9. CASE g \notin Boot
  BY <1>3, <1>4, <1>5, <1>6, <1>7, <1>8, <1>9 DEF Next, ReloadStep
<1> QED BY <1>2, <1>9

\* A step of a save moves the cache forward.
LEMMA MovesForward ==
    ASSUME TypeInv, HeldInserted, Aging, [Next]_vars, NEW h \in Writer, h \notin Boot, Restorable(h),
           wr'[h] # wr[h], ~past[ProcOf[h]].disturbed
    PROVE  ~(Age(cache'[ProcOf[h]]) < Age(cache[ProcOf[h]]))
<1> DEFINE p == ProcOf[h]
           Goal == ~(Age(cache'[p]) < Age(cache[p]))
<1>1. /\ TypeOK /\ Booting /\ p \in Proc /\ cache \in [Proc -> Rev] /\ wr[h].base \in Rev
      /\ wr[h].prev \in Rev /\ \A r \in Rev : Age(r) \in Nat
  BY AgesInv, ConfigAssumption DEF TypeInv, TypeOK
<1>a. ASSUME cache'[p] = cache[p] PROVE Goal
  BY <1>1, <1>a
<1>b. ASSUME Fail(h), AtWork(h), wr[h].pc # "publish" PROVE Goal
  <2>1. cache'[p] = wr[h].prev
    BY <1>1, <1>b DEF Fail
  <2>2. wr[h].prev = cache[p]
    BY <1>b DEF Restorable
  <2> QED BY <1>a, <2>1, <2>2
<1>c. ASSUME Conflict(h), AtWork(h), wr[h].pc # "publish" PROVE Goal
  BY <1>a, <1>b, <1>c DEF Conflict
<1>2. ASSUME NEW g \in Writer, g # h, OpenForm(g) \/ Submit(g) \/ BootLoad(g) \/ SaveStep(g) \/ QueryFails(g)
      PROVE  Goal
  BY <1>1, <1>2, OthersKept DEF Others
<1>3. CASE OpenForm(h) \/ Submit(h) \/ BootFlush(h) \/ Claim(h) \/ Cleanup(h)
  BY <1>3, <1>a DEF OpenForm, Submit, BootFlush, Claim, Cleanup, view
<1>4. CASE ReadVersion(h) \/ Prune(h) \/ Publish(h)
  BY <1>4, <1>a DEF ReadVersion, Prune, Publish
<1>5. CASE BootLoad(h) \/ InstallFlushed(h)
  BY <1>5 DEF BootLoad, InstallFlushed
<1>6. CASE Load(h) \/ Reread(h) \/ Create(h)
  <2>1. AtWork(h) /\ wr[h].pc # "publish"
    BY <1>6 DEF Load, Reread, Create, AtWork
  <2> QED BY <1>6, <1>a, <1>b, <2>1 DEF Load, Reread, Create
<1>7. CASE Check(h) \/ History(h) \/ Latest(h)
  <2>1. AtWork(h) /\ wr[h].pc # "publish"
    BY <1>7 DEF Check, History, Latest, AtWork
  <2> QED BY <1>7, <1>a, <1>c, <2>1 DEF Check, History, Latest
<1>8. CASE Install(h)
  <2>1. wr[h].pc = "install" /\ PutInCache(p, wr[h].base, TRUE)
    BY <1>8 DEF Install
  <2>2. cache'[p] = wr[h].base
    BY ZenonT(40), <1>1, <2>1, CachePutEffect
  <2>3. Age(cache[p]) <= Age(wr[h].base)
    BY <2>1 DEF Restorable, AtWork
  <2>4. Age(cache[p]) \in Nat /\ Age(wr[h].base) \in Nat
    BY <1>1
  <2> QED BY <2>2, <2>3, <2>4
<1>9. CASE QueryFails(h)
  <2>1. Fail(h) /\ AtWork(h) /\ wr[h].pc # "publish"
    BY <1>1, <1>9, QueryFailsEffect DEF Querying
  <2> QED BY <1>b, <2>1
<1>10. ASSUME NEW r \in Reload, Deliver(r) \/ Poll(r) \/ ReloadStep(r) PROVE wr' = wr
  BY <1>10 DEF Deliver, Poll, ReloadStep, ReloadRead, ReloadFails, ReloadInstall
<1>11. ASSUME NEW q \in Proc, Crash(q) PROVE Goal
  BY <1>11, <1>a DEF Crash
<1>12. CASE UNCHANGED vars
  BY <1>12, <1>a DEF vars
<1> QED BY <1>2, <1>3, <1>4, <1>5, <1>6, <1>7, <1>8, <1>9, <1>10, <1>11, <1>12 DEF Next, SaveStep

\* "Rollback: restore previous cache": a save that succeeds installs no older
\* configuration than it finds, and one that fails, at whatever query, puts back
\* none, unless a reload or a start wrote the cache since the save began; the
\* saves of a process wait for each other (configUpdateTail), so it is one save's
\* previousCache at a time.
THEOREM SavesNeverGoBack == Spec => SavesMoveForward
<1> DEFINE I == TypeInv /\ HeldInserted /\ Aging /\ \A h \in Writer : Restorable(h)
           A == \A h \in Writer \ Boot : LET p == ProcOf[h] IN
                   wr'[h] # wr[h] /\ Age(cache'[p]) < Age(cache[p]) => past[p].disturbed
<1>1. Init => I
  <2> SUFFICES ASSUME Init PROVE I
    OBVIOUS
  <2>1. \A h \in Writer : Restorable(h)
    BY DEF Init, NewWriter, Restorable, AtWork
  <2> QED BY <2>1, TypeInvInit, HeldInit, AgingInit
<1>2. I /\ [Next]_vars => I'
  BY TypeInvStep, HeldStep, AgingStep, RestorableStep
<1>3. I /\ [Next]_vars => [A]_vars
  BY MovesForward
<1>4. Spec => [][A]_vars
  <2> HIDE DEF I, A
  <2> QED BY <1>1, <1>2, <1>3, PTL DEF Spec
<1> QED BY <1>4 DEF SavesMoveForward
=============================================================================
