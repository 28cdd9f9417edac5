----------------------------- MODULE MCMonitoring -----------------------------
(* Two requests of one route and one of another.                           *)
EXTENDS Monitoring

CONSTANTS r1, r2, r3

MCRequest == {r1, r2, r3}
MCRoute == [r \in Request |-> IF r = r3 THEN "GET /problems" ELSE "POST /submissions/submit"]

=============================================================================
