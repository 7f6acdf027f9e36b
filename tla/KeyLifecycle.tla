---------------------------- MODULE KeyLifecycle ----------------------------
(***************************************************************************)
(* What the key store promises of one tenant's signing keys, whoever       *)
(* rotates, promotes and retires them and however they interleave:         *)
(*   - a key moves one way: published, signing, expiring, retired;         *)
(*   - one key signs per algorithm;                                        *)
(*   - a key that has signed stays verifiable for the overlap window.      *)
(***************************************************************************)
EXTENDS Naturals

CONSTANTS Key, AlgOfKey(_), Window

VARIABLES
    stage,      \* stage[k]: where key k is in its life
    since,      \* since[k]: when k stopped signing
    clock

lifecycle == <<stage, since, clock>>

Stage == {"absent", "published", "signing", "expiring", "retired"}

OneSigner(st) ==
    \A j, k \in Key :
        (AlgOfKey(j) = AlgOfKey(k) /\ st[j] = "signing" /\ st[k] = "signing") => j = k

\* Move the keys of S to stage s.
Moved(S, s) == [k \in Key |-> IF k \in S THEN s ELSE stage[k]]

LInit ==
    /\ stage = [k \in Key |-> "absent"]
    /\ since = [k \in Key |-> 0]
    /\ clock = 0

\* A key set appears: published first, or signing at once when it is the first.
Generate(S, s) ==
    /\ \A k \in S : stage[k] = "absent"
    /\ stage' = Moved(S, s)
    /\ OneSigner(stage')
    /\ UNCHANGED <<since, clock>>

\* The signers of a rotation step down together.
StepDown ==
    LET S == {k \in Key : stage[k] = "signing"} IN
    /\ stage' = Moved(S, "expiring")
    /\ since' = [k \in Key |-> IF k \in S THEN clock ELSE since[k]]
    /\ UNCHANGED clock

\* Every published key starts to sign, or none does.
TakeOver ==
    /\ stage' = Moved({k \in Key : stage[k] = "published"}, "signing")
    /\ OneSigner(stage')
    /\ UNCHANGED <<since, clock>>

\* Keys go once the overlap window is over.
Expire(S) ==
    /\ \A k \in S : stage[k] = "expiring" /\ since[k] + Window < clock
    /\ stage' = Moved(S, "retired")
    /\ UNCHANGED <<since, clock>>

\* An operator retires one key at any stage of its life.
Revoke(k) ==
    /\ stage[k] \in {"published", "signing", "expiring"}
    /\ stage' = Moved({k}, "retired")
    /\ UNCHANGED <<since, clock>>

Pass ==
    /\ clock' = clock + 1
    /\ UNCHANGED <<stage, since>>

LNext ==
    \/ \E S \in SUBSET Key, s \in {"published", "signing"} : Generate(S, s)
    \/ StepDown \/ TakeOver
    \/ \E S \in SUBSET Key : Expire(S)
    \/ \E k \in Key : Revoke(k)
    \/ Pass

LSpec == LInit /\ [][LNext]_lifecycle
=============================================================================
