------------------------- MODULE SettingsRevisions -------------------------
(***************************************************************************)
(* The settings rows of the main configuration key and the statements the  *)
(* SQL settings repository runs on them.  Every save inserts a new row, so *)
(* a row is named by the writer that inserted it; Genesis is the row the   *)
(* first start of the system flushed.  The configuration itself is         *)
(* abstracted to the set of writers whose edit it contains.                *)
(***************************************************************************)
EXTENDS Naturals, FiniteSets

CONSTANTS
    Writer,     \* updates of the configuration, each made once
    Genesis,    \* the initial flush
    KeepCount   \* versions cleanupOldVersions keeps

ASSUME RevisionAssumption ==
    /\ IsFiniteSet(Writer) /\ Genesis \notin Writer
    /\ KeepCount \in Nat \ {0}

Rev == Writer \cup {Genesis}

\* int_version: the initial flush saves version 1, each save adds one.
NoVersion == 0
Version == 1 .. (Cardinality(Writer) + 1)

\* "gone": not inserted yet, or deleted by the cleanup.
Revision == [state: {"gone", "inactive", "active"}, ver: Version \cup {NoVersion},
             content: SUBSET Writer, at: Nat]

InitialRows ==
    [r \in Rev |-> [state |-> IF r = Genesis THEN "active" ELSE "gone",
                    ver |-> IF r = Genesis THEN 1 ELSE NoVersion,
                    content |-> {}, at |-> 0]]

-----------------------------------------------------------------------------
Present(t) == {r \in Rev : t[r].state # "gone"}

\* findActive: the partial unique index leaves at most one.
Active(t) == {r \in Rev : t[r].state = "active"}
ActiveRev(t) == CHOOSE r \in Rev : t[r].state = "active"

\* What getMainConfiguration()?._version evaluates to.
ActiveVersion(t) == IF Active(t) = {} THEN NoVersion ELSE t[ActiveRev(t)].ver

ActiveContent(t) == t[ActiveRev(t)].content

\* findHistory(key, 2) has an inactive row newer than v: of the two newest rows
\* at most one is active, so this is to ask for any inactive row newer than v.
NewerInactive(t, v) == \E r \in Rev : t[r].state = "inactive" /\ t[r].ver > v

\* findFirst ordered by int_version, newest first
LatestVersion(t) ==
    IF Present(t) = {} THEN NoVersion
    ELSE CHOOSE v \in Version : /\ \E r \in Present(t) : t[r].ver = v
                                /\ \A r \in Present(t) : t[r].ver <= v

\* Mutant: the version is missing from the filter.
ClaimedAny(t, v) == Active(t)

\* The rows updateMany deactivates; without a version, whatever is active.
Claimed(t, v) == {r \in Active(t) : v = NoVersion \/ t[r].ver = v}

Deactivate(t, S) ==
    [r \in Rev |-> IF r \in S THEN [t[r] EXCEPT !.state = "inactive"] ELSE t[r]]

\* create, refused by the unique index while another row is active
CanCreate(t) == Active(t) = {}

\* The time, counted in saves.
SavesSoFar(t) == Cardinality({q \in Rev : t[q].at > 0})

\* The new active row; at is its updated_at.
CreateRow(t, r, v, c) ==
    [t EXCEPT ![r] = [state |-> "active", ver |-> v, content |-> c, at |-> 1 + SavesSoFar(t)]]

\* Mutant: the history is ordered the other way round.
SurplusNewest(t, D) ==
    /\ D \subseteq Present(t)
    /\ Cardinality(D) = IF Cardinality(Present(t)) > KeepCount
                        THEN Cardinality(Present(t)) - KeepCount ELSE 0
    /\ \A d \in D, k \in Present(t) \ D : t[d].ver >= t[k].ver

\* cleanupOldVersions: D is everything but the KeepCount newest rows.
Surplus(t, D) ==
    /\ D \subseteq Present(t)
    /\ Cardinality(D) = IF Cardinality(Present(t)) > KeepCount
                        THEN Cardinality(Present(t)) - KeepCount ELSE 0
    /\ \A d \in D, k \in Present(t) \ D : t[d].ver <= t[k].ver

DeleteRows(t, D) ==
    [r \in Rev |-> IF r \in D THEN [t[r] EXCEPT !.state = "gone"] ELSE t[r]]
=============================================================================
