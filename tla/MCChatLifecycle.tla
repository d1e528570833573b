--------------------------- MODULE MCChatLifecycle ---------------------------
(* ChatLifecycle on small instances: a stream and a plain request.         *)
EXTENDS ChatLifecycle, TLC

CONSTANTS plain, stream

\* Every request has a request id of its own.
MCOwnId == [r \in Requests |-> r]

\* The caller sends its request again, once as a stream and once plain.
MCSameId == [r \in Requests |-> "id"]

MCCancelOutcomes ==
  { [status |-> "failed_no_charge", usage |-> 0, charged |-> 0],
    [status |-> "cancelled_charged", usage |-> 2, charged |-> 1] }

=============================================================================
