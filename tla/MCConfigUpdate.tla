--------------------------- MODULE MCConfigUpdate ---------------------------
(* Instances of ConfigUpdate for TLC.                                      *)
EXTENDS ConfigUpdate, TLC

CONSTANTS a, b, c, p1, p2, p3, r1, r2

\* Every save in one process, or each in a process of its own.
OneProcess == a :> p1 @@ b :> p1 @@ c :> p1
OwnProcess == a :> p1 @@ b :> p2 @@ c :> p3
\* Two saves in one process, a third in another.
TwoAndOne == a :> p1 @@ b :> p1 @@ c :> p2
SavesOf(P) == [h \in Writer |-> P[h]]
OneProcessSaves == SavesOf(OneProcess)
OwnProcessSaves == SavesOf(OwnProcess)
TwoAndOneSaves == SavesOf(TwoAndOne)
\* Reloads run in the second process.
ReloadsAway == [r \in Reload |-> p2]

\* Where a poll has noticed a change nothing else reloads.
PollsAlone ==
    (\E r \in Reload : rl[r].poll) =>
        /\ \A p \in Proc : inbox[p] = 0
        /\ \A r \in Reload : rl[r].poll \/ rl[r].pc = "idle"
=============================================================================
