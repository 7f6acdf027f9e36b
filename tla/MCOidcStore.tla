---------------------------- MODULE MCOidcStore ----------------------------
(* Instances of OidcStore for TLC.                                         *)
EXTENDS OidcStore, TLC

\* Requests are interchangeable.
Symmetric == Permutations(Req)

\* Bound: one logout at a time, nothing beside a logout that has failed, and a
\* request less where sessions, or one other record, were passed over in silence.
Focus ==
    /\ Cardinality({r \in Req : req[r].op = "logout"}) <= 1
    /\ \A r \in Req : req[r].failed => \A q \in Req \ {r} : req[q].pc = "idle"
    /\ left \subseteq Sessions \/ Cardinality(left) <= 1
    /\ left # {} => ops < MaxOps
=============================================================================
