---------------------------- MODULE MCOutboxRelay ----------------------------
(***************************************************************************)
(* Small instances of OutboxRelay.  A batch is smaller than the backlog    *)
(* and two attempts are enough for an event to be retried and to be given  *)
(* up.  RelayFanout has two handlers, so that one fails after the other    *)
(* absorbed; RelayOrder two producers, so that event_seq order and commit  *)
(* order differ.                                                           *)
(***************************************************************************)
EXTENDS OutboxRelay

AllFaults == {"append", "mark", "dlq", "stop", "crash"}
OnlyDlq   == {"dlq"}
=============================================================================
