----------------------------- MODULE MCModelPool -----------------------------
(* ModelPool on small instances: up to four requests of two callers.       *)
EXTENDS ModelPool, TLC

CONSTANTS o1, o2, o3, o4

\* Everybody wants the same model, which serves one request at a time.
MCOnePool == [o \in Ops |-> "small"]

\* Two models, whose requests meet only in the global queue limit.
MCTwoPools == [o \in Ops |-> IF o \in {o1, o2} THEN "small" ELSE "large"]

MCActiveLimit == [p \in Pools |-> 1]

\* Caller b sends o2, caller a the others.
MCCallerOf == [o \in Ops |-> IF o = o2 THEN "b" ELSE "a"]
MCCallerLimit == [c \in Callers |-> 1]

\* Two guarded requests of the same caller to the same model.
MCSymmetry == Permutations({o1, o3})

=============================================================================
