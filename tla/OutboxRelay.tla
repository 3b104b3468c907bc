----------------------------- MODULE OutboxRelay -----------------------------
(***************************************************************************)
(* The transactional outbox: EventStore.append_many (event_store.py) on    *)
(* the producers' side, OutboxRelay (outbox_relay.py) on the other, and    *)
(* EventBus.publish (event_bus.py) between the relay and its handlers.     *)
(*                                                                         *)
(* Producers are the actors and the request threads: each appends one      *)
(* batch at a time, in a transaction of its own, and AUTO_INCREMENT numbers *)
(* rows as they are inserted, so event_seq order is not commit order.      *)
(* bootstrap.py starts one relay.  locked_by and locked_at are written and *)
(* never read: they are left out.                                          *)
(***************************************************************************)
EXTENDS Naturals, FiniteSets

CONSTANTS
    Producers,     \* actors and request threads that append events
    NumHandlers,   \* subscribers of an event, in registration order
    MAX_ATTEMPTS,  \* outbox_relay.MAX_ATTEMPTS, and the 5 of fetch's WHERE
    BatchSize,     \* OutboxRelay(batch_size)
    MaxSeq,        \* bound: the last event_seq
    MaxFaults,     \* bound: faults of the kinds below
    Faults         \* which faults may happen

FaultKinds == {"append",  \* append_many raises and rolls back
               "mark",    \* mark_dispatched or mark_failed raises
               "dlq",     \* attempts_for or move_to_dlq raises
               "stop",    \* OutboxRelay.stop, first step of an exit
               "crash"}   \* the process dies

ASSUME RelayAssumption ==
    /\ Producers # {}
    /\ NumHandlers \in Nat \ {0}
    /\ MAX_ATTEMPTS \in Nat \ {0}
    /\ BatchSize \in Nat \ {0}
    /\ MaxSeq \in Nat
    /\ MaxFaults \in Nat
    /\ Faults \subseteq FaultKinds

Seqs     == 1..MaxSeq
Handlers == 1..NumHandlers

VARIABLES
    lastSeq,   \* AUTO_INCREMENT counter of event_store
    author,    \* who inserted an event_seq
    txn,       \* event_seqs in each producer's open transaction
    row,       \* the event's outbox row: absent, pending, dispatched, or
               \* "dead" once move_to_dlq has moved it to event_dlq
    attempts,  \* event_outbox.attempts
    running,   \* OutboxRelay._running
    pc,        \* where the drain stands
    batch,     \* fetched rows not yet settled by this drain
    next,      \* the handler publish() calls next
    raised,    \* publish()'s failures list is not empty
    heard,     \* how many times each handler has absorbed each event
    faults     \* faults so far

dbVars    == <<lastSeq, author, txn, row, attempts>>
relayVars == <<running, pc, batch, next, raised>>
vars      == <<dbVars, relayVars, heard, faults>>

Fault(kind) ==
    /\ kind \in Faults /\ faults < MaxFaults
    /\ faults' = faults + 1

Init ==
    /\ lastSeq = 0
    /\ author = [e \in Seqs |-> CHOOSE p \in Producers : TRUE]
    /\ txn = [p \in Producers |-> {}]
    /\ row = [e \in Seqs |-> "absent"]
    /\ attempts = [e \in Seqs |-> 0]
    /\ running = TRUE
    /\ pc = "idle"
    /\ batch = {}
    /\ next = 1
    /\ raised = FALSE
    /\ heard = [h \in Handlers |-> [e \in Seqs |-> 0]]
    /\ faults = 0

-----------------------------------------------------------------------------
(* EventStore.append_many                                                  *)

\* The process is alive; request threads append even after stop().
Up == pc # "down"

\* INSERT INTO event_store and event_outbox, nothing visible yet.
Insert(p) ==
    /\ Up /\ lastSeq < MaxSeq
    /\ lastSeq' = lastSeq + 1
    /\ author' = [author EXCEPT ![lastSeq + 1] = p]
    /\ txn' = [txn EXCEPT ![p] = @ \cup {lastSeq + 1}]
    /\ UNCHANGED <<row, attempts, relayVars, heard, faults>>

Commit(p) ==
    /\ Up /\ txn[p] # {}
    /\ row' = [e \in Seqs |-> IF e \in txn[p] THEN "pending" ELSE row[e]]
    /\ txn' = [txn EXCEPT ![p] = {}]
    /\ UNCHANGED <<lastSeq, author, attempts, relayVars, heard, faults>>

\* The numbers are spent; the rows never existed.
Rollback(p) ==
    /\ Up /\ txn[p] # {}
    /\ Fault("append")
    /\ txn' = [txn EXCEPT ![p] = {}]
    /\ UNCHANGED <<lastSeq, author, row, attempts, relayVars, heard>>

-----------------------------------------------------------------------------
(* One drain                                                               *)

Due_OffByOne == {e \in Seqs : row[e] = "pending" /\ attempts[e] < MAX_ATTEMPTS - 1}

\* WHERE dispatched_at IS NULL AND attempts < 5
Due == {e \in Seqs : row[e] = "pending" /\ attempts[e] < MAX_ATTEMPTS}

Oldest_OneMore(S) == {e \in S : Cardinality({f \in S : f < e}) <= BatchSize}
Oldest_Newest(S) == {e \in S : Cardinality({f \in S : f > e}) < BatchSize}

\* ... ORDER BY event_seq LIMIT batch_size
Oldest(S) == {e \in S : Cardinality({f \in S : f < e}) < BatchSize}

First(S) == CHOOSE e \in S : \A f \in S : e <= f

\* The row _drain_once is at.
Current == First(batch)

\* publish() starts a fanout with the first handler.
Fanout == next' = 1 /\ raised' = FALSE

Fetch ==
    /\ running /\ pc = "idle" /\ Due # {}
    /\ batch' = Oldest(Due)
    /\ pc' = "publishing" /\ Fanout
    /\ UNCHANGED <<dbVars, running, heard, faults>>

\* Isolating handlers without collecting their failures.
Handle_Swallows ==
    /\ pc = "publishing"
    /\ \E absorbed \in BOOLEAN :
          heard' = IF absorbed
                   THEN [heard EXCEPT ![next][Current] = @ + 1]
                   ELSE heard
    /\ IF next < NumHandlers
       THEN next' = next + 1 /\ UNCHANGED pc
       ELSE pc' = "delivered" /\ UNCHANGED next
    /\ UNCHANGED <<dbVars, running, batch, raised, faults>>

\* A handler absorbs the event, or raises; what it did before it raised may
\* stand.  The last one decides the call.
Handle ==
    /\ pc = "publishing"
    /\ \E fails \in BOOLEAN, absorbed \in BOOLEAN :
          /\ fails \/ absorbed
          /\ raised' = (raised \/ fails)
          /\ heard' = IF absorbed
                      THEN [heard EXCEPT ![next][Current] = @ + 1]
                      ELSE heard
    /\ IF next < NumHandlers
       THEN next' = next + 1 /\ UNCHANGED pc
       ELSE pc' = (IF raised' THEN "failed" ELSE "delivered") /\ UNCHANGED next
    /\ UNCHANGED <<dbVars, running, batch, faults>>

\* On to the next row of the batch, or back to the loop.
Advance ==
    /\ batch' = batch \ {Current}
    /\ pc' = IF batch' = {} THEN "idle" ELSE "publishing"
    /\ Fanout

\* An exception out of _drain_once: the loop backs off and fetches again.
Abort ==
    /\ batch' = {} /\ pc' = "idle" /\ Fanout

MarkDispatched_ClearsLockOnly ==
    /\ pc = "delivered"
    /\ Advance
    /\ UNCHANGED <<dbVars, running, heard, faults>>

MarkDispatched ==
    /\ pc = "delivered"
    /\ \/ /\ row' = [row EXCEPT ![Current] = "dispatched"]
          /\ Advance /\ UNCHANGED faults
       \/ Fault("mark") /\ Abort /\ UNCHANGED row
    /\ UNCHANGED <<lastSeq, author, txn, attempts, running, heard>>

MarkFailed ==
    /\ pc = "failed"
    /\ \/ /\ attempts' = [attempts EXCEPT ![Current] = @ + 1]
          /\ pc' = "capping"
          /\ UNCHANGED <<batch, next, raised, faults>>
       \/ Fault("mark") /\ Abort /\ UNCHANGED attempts
    /\ UNCHANGED <<lastSeq, author, txn, row, running, heard>>

\* Guessing from the value read before mark_failed.
_maybe_dlq_Guesses ==
    /\ pc = "capping"
    /\ row' = IF attempts[Current] >= MAX_ATTEMPTS - 1
              THEN [row EXCEPT ![Current] = "dead"] ELSE row
    /\ Advance
    /\ UNCHANGED <<lastSeq, author, txn, attempts, running, heard, faults>>

\* Both of its own failures are logged and swallowed.
_maybe_dlq ==
    /\ pc = "capping"
    /\ \/ /\ attempts[Current] >= MAX_ATTEMPTS
          /\ row' = [row EXCEPT ![Current] = "dead"]
          /\ UNCHANGED faults
       \/ attempts[Current] < MAX_ATTEMPTS /\ UNCHANGED <<row, faults>>
       \/ Fault("dlq") /\ UNCHANGED row
    /\ Advance
    /\ UNCHANGED <<lastSeq, author, txn, attempts, running, heard>>

-----------------------------------------------------------------------------
(* Lifecycle                                                               *)

Stop ==
    /\ running /\ Up /\ Fault("stop")
    /\ running' = FALSE
    /\ UNCHANGED <<dbVars, pc, batch, next, raised, heard>>

\* `while self._running` is only looked at between drains.
Exit ==
    /\ ~running /\ pc = "idle"
    /\ pc' = "stopped"
    /\ UNCHANGED <<dbVars, running, batch, next, raised, heard, faults>>

\* The process dies, at the end of a shutdown or in the middle of anything:
\* open transactions go with their connections.
Die ==
    /\ \/ pc = "stopped" /\ UNCHANGED faults
       \/ Up /\ Fault("crash")
    /\ pc' = "down"
    /\ txn' = [p \in Producers |-> {}]
    /\ batch' = {} /\ Fanout
    /\ UNCHANGED <<lastSeq, author, row, attempts, running, heard>>

\* bootstrap.py builds and starts a new relay.
Start ==
    /\ pc = "down"
    /\ running' = TRUE /\ pc' = "idle"
    /\ UNCHANGED <<dbVars, batch, next, raised, heard, faults>>

-----------------------------------------------------------------------------
Drain == Fetch \/ Handle \/ MarkDispatched \/ MarkFailed \/ _maybe_dlq \/ Exit

Next ==
    \/ \E p \in Producers : Insert(p) \/ Commit(p) \/ Rollback(p)
    \/ Drain
    \/ Stop \/ Die \/ Start

Spec == Init /\ [][Next]_vars

\* The relay's task is scheduled while the process lives.  A fetch that raises
\* changes nothing and is retried after a second: it is a stutter here, and
\* the fairness says that it does not raise for ever.  Nothing obliges anyone
\* to start a dead process again (docker-compose gives it no restart policy).
FairSpec == Spec /\ WF_vars(Drain)

-----------------------------------------------------------------------------
(* Properties                                                              *)

\* Every variable has its type, a drain never holds more rows than one fetch
\* may claim, and what it holds is still to be settled: nobody else settles
\* rows behind its back (fetch_undispatched, _drain_once).
TypeOK ==
    /\ lastSeq \in 0..MaxSeq
    /\ author \in [Seqs -> Producers]
    /\ txn \in [Producers -> SUBSET Seqs]
    /\ row \in [Seqs -> {"absent", "pending", "dispatched", "dead"}]
    /\ attempts \in [Seqs -> 0..MAX_ATTEMPTS]
    /\ running \in BOOLEAN
    /\ pc \in {"idle", "publishing", "delivered", "failed", "capping", "stopped",
              "down"}
    /\ batch \subseteq Seqs /\ Cardinality(batch) <= BatchSize
    /\ \A e \in batch : row[e] = "pending"
    /\ next \in Handlers
    /\ raised \in BOOLEAN
    /\ heard \in [Handlers -> [Seqs -> Nat]]
    /\ faults \in 0..MaxFaults

\* The dead-letter table holds the events that used up their attempts and no
\* other, and a delivered event never had: an event is given up only after
\* MAX_ATTEMPTS publishes failed (outbox_relay.py, "after MAX_ATTEMPTS, move
\* to DLQ").
DeadOnlyAfterMaxAttempts ==
    \A e \in Seqs :
        /\ row[e] = "dead" => attempts[e] = MAX_ATTEMPTS
        /\ row[e] = "dispatched" => attempts[e] < MAX_ATTEMPTS

\* A subscriber absorbs an event again only for a reason: a publish of it
\* failed somewhere, or the process or a mark_* call failed in between.  The
\* subscribers' idempotence is needed for nothing else.
RepeatsHaveACause ==
    \A h \in Handlers, e \in Seqs :
        heard[h][e] <= attempts[e] + faults + 1

\* A subscriber sees one author's events (a machine's transitions) in the
\* order they were appended, unless a publish of the overtaken one failed or
\* its append did: `continue` after mark_failed is the only place where order
\* is given up, and neither a crash nor an aborted drain is.
OvertakenOnlyAfterFailure ==
    [][\A h \in Handlers, f \in Seqs :
          heard'[h][f] > heard[h][f] =>
              \A e \in 1..(f - 1) :
                  author[e] = author[f] /\ row[e] # "absent" =>
                      heard[h][e] > 0 \/ attempts[e] > 0]_vars

\* The outbox keeps its promise whatever batches, retries, restarts and
\* interleaved transactions do: an event reaches nobody before it is committed
\* nor after it is settled, is settled once, and is settled as dispatched only
\* when it has reached every subscriber.
Promise == INSTANCE Delivery WITH
    Events   <- Seqs,
    Handlers <- Handlers,
    status   <- row,
    reached  <- [e \in Seqs |-> {h \in Handlers : heard[h][e] > 0}]

ImplementsDelivery == Promise!Spec

\* Every committed event is worked on until it is dispatched, dead-lettered or
\* out of attempts, as long as the relay runs: no batch boundary, failing
\* neighbour or aborted drain leaves it behind.
EveryEventIsWorkedOff ==
    \A e \in Seqs :
        row[e] = "pending" ~>
            \/ row[e] \in {"dispatched", "dead"}
            \/ attempts[e] >= MAX_ATTEMPTS
            \/ ~running \/ ~Up
=============================================================================
