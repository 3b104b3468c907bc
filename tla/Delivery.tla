------------------------------ MODULE Delivery ------------------------------
(***************************************************************************)
(* What the transactional outbox promises a subscriber, without batches,   *)
(* attempts, transactions or restarts (event_store.py and outbox_relay.py, *)
(* module docstrings): an event that was committed reaches handlers until  *)
(* it is settled, and it is settled as delivered only when it has reached  *)
(* every one of them.  An event that was not committed, or is settled,     *)
(* reaches nobody.                                                         *)
(***************************************************************************)
CONSTANTS Events, Handlers

VARIABLES
    status,   \* [Events -> {"absent", "pending", "dispatched", "dead"}]
    reached   \* [Events -> SUBSET Handlers]: who has absorbed the event

Init ==
    /\ status = [e \in Events |-> "absent"]
    /\ reached = [e \in Events |-> {}]

\* One transaction commits one or more events.
Commit(S) ==
    /\ \A e \in S : status[e] = "absent"
    /\ status' = [e \in Events |-> IF e \in S THEN "pending" ELSE status[e]]
    /\ UNCHANGED reached

Reach(e, h) ==
    /\ status[e] = "pending"
    /\ reached' = [reached EXCEPT ![e] = @ \cup {h}]
    /\ UNCHANGED status

Settle(e, s) ==
    /\ status[e] = "pending"
    /\ s = "dispatched" => reached[e] = Handlers
    /\ status' = [status EXCEPT ![e] = s]
    /\ UNCHANGED reached

Next ==
    \/ \E S \in SUBSET Events : Commit(S)
    \/ \E e \in Events, h \in Handlers : Reach(e, h)
    \/ \E e \in Events, s \in {"dispatched", "dead"} : Settle(e, s)

Spec == Init /\ [][Next]_<<status, reached>>
=============================================================================
