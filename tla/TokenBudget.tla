----------------------------- MODULE TokenBudget -----------------------------
(***************************************************************************)
(* What the quota ledger promises, with no counters and no tables: every   *)
(* decision is made from the operations themselves.  An operation commits  *)
(* the tokens it reserved while it is open and the tokens it used once it  *)
(* is closed, to the day it started and to the caller's lifetime.          *)
(*                                                                         *)
(* QuotaLedger (services/quota.py), which decides from counters that it    *)
(* adjusts in other transactions, implements this.                         *)
(***************************************************************************)
EXTENDS Integers, FiniteSets

CONSTANTS
  SecondsPerDay,
  BigIntMax,  \* largest number of tokens a period can hold
  NoLimit     \* a ceiling that is not set

VARIABLES
  ceiling,    \* per caller: the daily and the lifetime ceiling
  account     \* per operation: who, when, how much, and whether it is open

bvars == <<ceiling, account>>

\* The two periods an operation belongs to.
Periods(x) ==
  {<<x.client, "daily", x.started_at - (x.started_at % SecondsPerDay)>>,
   <<x.client, "lifetime", 0>>}

In(k) == {o \in DOMAIN account : k \in Periods(account[o])}

\* The tokens an operation commits now.
Weight == [o \in DOMAIN account |->
             IF account[o].open THEN account[o].reserved ELSE account[o].used]

\* The weights of a period, added up as the size of a disjoint union.
Committed(k) == Cardinality(UNION {{o} \X (1..Weight[o]) : o \in In(k)})

CeilingOf(k) == IF k[2] = "daily" THEN ceiling[k[1]].daily ELSE ceiling[k[1]].lifetime

Affordable(x) ==
  \A k \in Periods(x) :
    /\ CeilingOf(k).requests # NoLimit => Cardinality(In(k)) + 1 <= CeilingOf(k).requests
    /\ CeilingOf(k).tokens # NoLimit => Committed(k) + x.reserved <= CeilingOf(k).tokens
    /\ Committed(k) + x.reserved <= BigIntMax

\* A new operation is affordable and its request id is new to its caller.
Admit(o) ==
  /\ o \notin DOMAIN account
  /\ account' = [x \in DOMAIN account \cup {o} |->
                   IF x = o THEN account'[o] ELSE account[x]]
  /\ account'[o].open
  /\ account'[o].used = 0
  /\ \A x \in DOMAIN account :
       ~(/\ account[x].client = account'[o].client
         /\ account[x].request_id = account'[o].request_id)
  /\ Affordable(account'[o])
  /\ UNCHANGED ceiling

\* The usage of an open operation becomes known; it is never revised.
Use(o) ==
  /\ o \in DOMAIN account
  /\ account[o].open
  /\ account[o].used \in {0, account'[o].used}
  /\ account' = [account EXCEPT ![o] = [@ EXCEPT !.used = account'[o].used]]
  /\ UNCHANGED ceiling

Close(o) ==
  /\ o \in DOMAIN account
  /\ account[o].open
  /\ account' = [account EXCEPT ![o] = [@ EXCEPT !.open = FALSE]]
  /\ UNCHANGED ceiling

SetCeiling(c) ==
  /\ ceiling' = [ceiling EXCEPT ![c] = ceiling'[c]]
  /\ UNCHANGED account

Init == account = [o \in {} |-> {}]

Next ==
  \/ \E o \in DOMAIN account' : Admit(o) \/ Use(o) \/ Close(o)
  \/ \E c \in DOMAIN ceiling : SetCeiling(c)

Spec == Init /\ [][Next]_bvars

=============================================================================
