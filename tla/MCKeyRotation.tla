--------------------------- MODULE MCKeyRotation ---------------------------
(* Instances of KeyRotation for TLC: two web handlers and one worker.      *)
EXTENDS KeyRotation, TLC

CONSTANTS h1, h2, w1, web1, web2, wrk

\* Two web processes with one request each.
TwoWebs == h1 :> web1 @@ h2 :> web2
\* One web process and one worker.
WebAndWorker == h1 :> web1 @@ w1 :> wrk
=============================================================================
