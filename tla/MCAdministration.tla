-------------------------- MODULE MCAdministration --------------------------
(* Administration on a small instance: two administrators, one caller.     *)
EXTENDS Administration, TLC

CONSTANTS a1, a2, k1, k2, k3

MCSettings == {[qps_limit |-> 1, allowed_endpoints |-> "chat"]}

MCPatches == {[qps_limit |-> 2], [qps_limit |-> 1, allowed_endpoints |-> "usage"]}

MCSymmetry == Permutations({a1, a2}) \cup Permutations({k1, k2, k3})

=============================================================================
