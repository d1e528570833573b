--------------------------- MODULE MCCallerAccess ---------------------------
(* CallerAccess on a small instance: one administrator and three deliveries *)
(* of two messages, one of them delivered twice.                           *)
EXTENDS CallerAccess, TLC

CONSTANTS a1, k1, k2, d1, d2, d3, m1, m2

Both == {"chat.completions", "usage.read"}
MCSettings == {[qps_limit |-> 2, allowed_endpoints |-> Both]}
MCPatches == {[qps_limit |-> 1, allowed_endpoints |-> {"usage.read"}]}

MCMessageOf == [d \in Deliveries |-> IF d = d3 THEN m2 ELSE m1]
MCSigner == [m \in Messages |-> k1]
MCTimestamp == [m \in Messages |-> IF m = m1 THEN 1 ELSE 0]
MCEndpoint == [m \in Messages |-> IF m = m1 THEN "chat.completions" ELSE "usage.read"]

MCSymmetry == Permutations({d1, d2})

=============================================================================
