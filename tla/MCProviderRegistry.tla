------------------------- MODULE MCProviderRegistry -------------------------
(* Instances of ProviderRegistry for TLC.                                  *)
EXTENDS ProviderRegistry, TLC

\* Bound: a configuration change, or new keys of one tenant.
OneTrouble == Cardinality({t \in Tenant : keyset[t] > 0}) + config <= 1
=============================================================================
