--------------------------- MODULE MCTenantConfig ---------------------------
(* Instances of TenantConfig for TLC.                                      *)
EXTENDS TenantConfig, TLC

CONSTANTS p1, p2, r1, r2

\* Two processes with one request each.
OneEach == r1 :> p1 @@ r2 :> p2

\* The second process makes two requests while the first makes one.
OneAndTwo == r1 :> 1 @@ r2 :> 2

\* The first makes any request, the second saves and uploads.
AnyAndSome == r1 :> BrandingKind \cup {"save", "api", "reset"} @@ r2 :> {"save", "upload"}

\* A tenant without overrides, and one that overrides everything.
NoneOrAll == {NoDoc, [logo |-> 1, colors |-> 1, level |-> 1]}

Caching == {p \in Proc : tcfg[p] # NoConfig \/ load[p].pc # "idle"}

\* The requests in progress are of these kinds.
Only(kinds) == \A r \in Req : job[r].pc = "idle" \/ job[r].kind \in kinds

\* The platform's configuration changes or a process crashes, not both, and not
\* once requests overlapped.  Where they overlap, a cache is filled only around
\* plain saves, and a third request comes only where no cache is filled.
OneDisturbance ==
    LET disturbed == count.platform + count.crash
        ops == count.ops[r1] + count.ops[r2] IN
    /\ disturbed <= 1
    /\ count.platform = 1 => ops <= 1
    /\ overlap => /\ disturbed = 0 /\ Cardinality(Caching) <= 1
                  /\ Caching = {} \/ Only({"save"})
    /\ ops > 2 => overlap /\ Caching = {} /\ Only({"save", "upload"})
=============================================================================
