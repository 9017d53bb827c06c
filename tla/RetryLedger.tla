---------------------------- MODULE RetryLedger ----------------------------
(***************************************************************************)
(* What a queuing payload sender promises to the writer that uses it,      *)
(* without its queue, its timer or its goroutines: an ordered ledger.      *)
(*                                                                         *)
(* Payloads are numbered in the order they are accepted.  Only the oldest  *)
(* pending payload is ever attempted, so the endpoint sees the payloads in *)
(* order.  A payload leaves the ledger once: after an attempt, or because  *)
(* it is given up, which happens to the oldest payload (too old, or no     *)
(* room) or to the newest one (it cannot be queued).                       *)
(***************************************************************************)
EXTENDS Integers

VARIABLES
    accepted,   \* number of payloads accepted
    pending,    \* ids of the payloads accepted and not settled yet
    reached     \* id of the last payload that reached the endpoint

Oldest(i) == i \in pending /\ \A j \in pending : i <= j
Newest(i) == i \in pending /\ \A j \in pending : j <= i

Init == accepted = 0 /\ pending = {} /\ reached = 0

Accept ==
    /\ accepted' = accepted + 1
    /\ pending' = pending \cup {accepted + 1}
    /\ UNCHANGED reached

\* An attempt that will be retried may have reached the endpoint.
Attempt(i) ==
    /\ Oldest(i)
    /\ reached' = i
    /\ UNCHANGED <<accepted, pending>>

\* An attempt that settles the payload, for good or bad.
Settle(i) ==
    /\ Oldest(i)
    /\ pending' = pending \ {i}
    /\ reached' \in {reached, i}
    /\ UNCHANGED accepted

GiveUp(i) ==
    /\ Oldest(i) \/ Newest(i)
    /\ pending' = pending \ {i}
    /\ UNCHANGED <<accepted, reached>>

Next ==
    \/ Accept
    \/ \E i \in pending : Attempt(i) \/ Settle(i) \/ GiveUp(i)

Spec == Init /\ [][Next]_<<accepted, pending, reached>>
=============================================================================
