---------------------------- MODULE MCCredentials ----------------------------
(* Instances of Credentials for TLC.                                       *)
EXTENDS Credentials, TLC

\* Requests and numbers are interchangeable.
Symmetric == Permutations(Req) \cup Permutations(Number)
==============================================================================
