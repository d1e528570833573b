---------------------------- MODULE MCQuotaLedger ----------------------------
(* QuotaLedger on a small instance: one caller whose ceilings bind.        *)
EXTENDS QuotaLedger, TLC

CONSTANTS o1, o2, o3, q1, q2, q3, c1, m1, m2

MCCeiling(r, t) == [requests |-> r, tokens |-> t]

MCPolicy(status, credential, expires_at, endpoints, daily, lifetime) ==
  [status |-> status, credential |-> credential, expires_at |-> expires_at,
   endpoints |-> endpoints, models |-> {m1}, daily |-> daily, lifetime |-> lifetime]

MCPolicies ==
  { MCPolicy("active", "active", 9, Endpoints, MCCeiling(2, NoLimit), MCCeiling(3, 4)),
    MCPolicy("active", "active", 1, Endpoints, MCCeiling(NoLimit, 4), MCCeiling(NoLimit, NoLimit)),
    MCPolicy("disabled", "revoked", 9, Endpoints, MCCeiling(NoLimit, NoLimit), MCCeiling(NoLimit, NoLimit)),
    MCPolicy("active", "active", 9, {"usage.read"}, MCCeiling(NoLimit, NoLimit), MCCeiling(NoLimit, 4)) }

MCTerminals == {[status |-> "completed", code |-> "OK", charged |-> 1]}

\* One usage below and one above the reservation (an overrun).
MCUsages == {<<1, 0>>, <<1, 2>>}

MCSymmetry == Permutations({o1, o2, o3}) \cup Permutations({q1, q2, q3})

=============================================================================
