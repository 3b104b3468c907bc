------------------------------- MODULE Pipeline -------------------------------
(***************************************************************************)
(* The process from its signal sources to the outbox: MachineDataTailer    *)
(* and the HSMS callbacks offer signals, EquipmentIngest moves them from    *)
(* its queue to the actors' mailboxes, an actor handles them, the relay    *)
(* publishes what it appended; bootstrap.py starts all of it in one step,  *)
(* app.py and shutdown_event_pipeline stop it in order, within a time      *)
(* limit.                                                                  *)
(*                                                                         *)
(* All of it runs on one event loop but the database work, which has       *)
(* threads.  A coroutine gives up the loop only when it has to wait, so    *)
(* the tailer offers a whole batch in one step, and nothing else on the    *)
(* loop runs while ingest has signals to take and room to put them.        *)
(*                                                                         *)
(* One registered machine: actors share nothing but the ingest loop.  A    *)
(* signal is a number, of its row or of its HSMS frame.  A row's edge_seq  *)
(* is its id.  A frame's is made of its system bytes, or of id(message):   *)
(* frames with one key are a retransmission, or have nothing in common but *)
(* a transaction id that came round again, and ingest cannot tell.         *)
(* Handling a signal stands for all that MachineActor does.                *)
(***************************************************************************)
EXTENDS Naturals, Sequences, FiniteSets

CONSTANTS
    MaxRows,      \* bound: rows inserted in machine_data
    MaxFrames,    \* bound: HSMS frames
    FrameKeys,    \* edge_seq of frames
    Strangers,    \* signals of machines nobody registered
    QueueSize,    \* EquipmentIngest(max_queue)
    Window,       \* EquipmentIngest(dedup_window)
    MailboxSize,  \* MachineActorConfig.mailbox_size
    TailBatch,    \* MachineDataTailer(batch_size)
    MaxStarts     \* bound: starts of the process

Rows    == 1..MaxRows
Frames  == (MaxRows + 1)..(MaxRows + MaxFrames)
Signals == Rows \cup Frames

Sentinel == 0    \* None on a queue or a mailbox
Nothing  == 0    \* no signal in hand

ASSUME PipelineAssumption ==
    /\ MaxRows \in Nat /\ MaxFrames \in Nat
    /\ IsFiniteSet(FrameKeys) /\ FrameKeys \cap Rows = {}
    /\ Strangers \subseteq Signals
    /\ QueueSize \in Nat \ {0} /\ Window \in Nat \ {0}
    /\ MailboxSize \in Nat \ {0} /\ TailBatch \in Nat \ {0}
    /\ MaxStarts \in Nat

VARIABLES
    rows,       \* AUTO_INCREMENT counter of machine_data
    key,        \* the edge_seq each frame has when it comes
    came,       \* the frames that have come
    tailer,     \* the tailer's task
    tailing,    \* MachineDataTailer._running
    lastId,     \* MachineDataTailer._last_id
    upTo,       \* last id of the batch fetched
    queue,      \* EquipmentIngest._queue
    ingest,     \* the ingest task; "looping" is the one that has the loop
    ingesting,  \* EquipmentIngest._running
    hand,       \* the signal ingest waits to put in a mailbox
    seen,       \* EquipmentIngest._seen[machine], of edge_seq
    mailbox,    \* MachineActor._mailbox
    actor,      \* the actor's task
    work,       \* the signal it handles
    log,        \* signals handled, as their events are in event_store
    relay,      \* the relay's task
    relaying,   \* OutboxRelay._running
    stopper,    \* what shutdown_event_pipeline waits for
    up,         \* the process lives
    starts,     \* how often it was started
    forgot,     \* history: keys the dedup window has given up
    admitted,   \* history: signals dedup has let pass
    repeats,    \* history: signals dedup has taken for one it let pass
    gone        \* history: signals given up

tailVars   == <<tailer, tailing, lastId, upTo>>
dedupVars  == <<seen, forgot, admitted, repeats>>
ingestVars == <<ingest, ingesting, hand, dedupVars>>
frameVars  == <<key, came>>
actorVars  == <<actor, work>>
relayVars  == <<relay, relaying>>
lifeVars   == <<stopper, up, starts>>
vars == <<rows, frameVars, tailVars, queue, ingestVars, mailbox, actorVars, log,
          relayVars, lifeVars, gone>>

Min2(a, b) == IF a <= b THEN a ELSE b
Held(sig)  == {sig} \ {Nothing}
In(s)      == {s[i] : i \in DOMAIN s} \ {Sentinel}

KeyOf(sig) == IF sig \in Frames THEN key[sig] ELSE sig

QueueRoom   == Len(queue) < QueueSize
MailboxRoom == Len(mailbox) < MailboxSize

\* What a process that dies takes with it.
InFlight == In(queue) \cup Held(hand) \cup In(mailbox) \cup Held(work)

\* Nothing else on the loop runs before ingest waits for something.
LoopFree == up /\ ingest # "looping"

Init ==
    /\ rows = 0
    /\ key \in [Frames -> FrameKeys] /\ came = {}
    /\ tailer = "ended" /\ tailing = FALSE /\ lastId = 0 /\ upTo = 0
    /\ queue = <<>>
    /\ ingest = "ended" /\ ingesting = FALSE /\ hand = Nothing /\ seen = {}
    /\ mailbox = <<>>
    /\ actor = "ended" /\ work = Nothing
    /\ log = <<>>
    /\ relay = "ended" /\ relaying = FALSE
    /\ stopper = "none" /\ up = FALSE /\ starts = 0
    /\ forgot = {} /\ admitted = {} /\ repeats = {}
    /\ gone = {}

-----------------------------------------------------------------------------
(* Start and end of the process.                                           *)

\* bootstrap_event_pipeline never waits: one step of the loop.  The tailer
\* starts behind the rows that are there.
Boot ==
    /\ ~up /\ starts < MaxStarts
    /\ up' = TRUE /\ starts' = starts + 1 /\ stopper' = "none"
    /\ tailer' = "polling" /\ tailing' = TRUE /\ lastId' = rows /\ upTo' = rows
    /\ ingest' = "waiting" /\ ingesting' = TRUE
    /\ actor' = "waiting"
    /\ relay' = "idle" /\ relaying' = TRUE
    /\ gone' = gone \cup ((lastId + 1)..rows)
    /\ UNCHANGED <<rows, frameVars, queue, hand, dedupVars, mailbox, work, log>>

\* The process ends: it is killed, shutdown is over, or _shutdown_pipeline has
\* waited its ten seconds and stops the loop wherever it is.
Exit ==
    /\ up
    /\ up' = FALSE
    /\ gone' = gone \cup InFlight
    /\ tailer' = "ended" /\ tailing' = FALSE
    /\ queue' = <<>> /\ hand' = Nothing /\ seen' = {} /\ forgot' = forgot \cup seen
    /\ ingest' = "ended" /\ ingesting' = FALSE
    /\ mailbox' = <<>> /\ actor' = "ended" /\ work' = Nothing
    /\ relay' = "ended" /\ relaying' = FALSE
    /\ stopper' = "none"
    /\ UNCHANGED <<rows, frameVars, admitted, repeats, lastId, upTo, log, starts>>

-----------------------------------------------------------------------------
(* Sources                                                                 *)

\* iot_simulator.insert_machine_data, a process of its own.
insert_machine_data ==
    /\ rows < MaxRows
    /\ rows' = rows + 1
    /\ UNCHANGED <<frameVars, tailVars, queue, ingestVars, mailbox, actorVars, log,
                   relayVars, lifeVars, gone>>

\* In a thread, while the loop goes on.
_fetch_batch ==
    /\ tailer = "polling" /\ tailing /\ rows > lastId
    /\ tailer' = "fetched"
    /\ upTo' = Min2(rows, lastId + TailBatch)
    /\ UNCHANGED <<rows, frameVars, tailing, lastId, queue, ingestVars, mailbox,
                   actorVars, log, relayVars, lifeVars, gone>>

\* Mutant: the queue has no limit.
Fitting_All(from, to) == to - from

\* EquipmentIngest.offer of a run of signals: those that fit are queued.
Fitting(from, to) == Min2(to - from, QueueSize - Len(queue))

\* Mutant: the cursor moves to the newest row, not to the last one fetched.
OfferBatch_Jumps ==
    /\ LoopFree /\ tailer = "fetched"
    /\ queue' = queue \o [i \in 1..Fitting(lastId, upTo) |-> lastId + i]
    /\ gone' = gone \cup ((lastId + Fitting(lastId, upTo) + 1)..upTo)
    /\ lastId' = rows
    /\ tailer' = "polling"
    /\ UNCHANGED <<rows, frameVars, tailing, upTo, ingestVars, mailbox, actorVars,
                   log, relayVars, lifeVars>>

\* Mutant: the cursor waits for the dispatch, and a refused row stays behind it.
OfferBatch_Stays ==
    /\ LoopFree /\ tailer = "fetched"
    /\ queue' = queue \o [i \in 1..Fitting(lastId, upTo) |-> lastId + i]
    /\ gone' = gone \cup ((lastId + Fitting(lastId, upTo) + 1)..upTo)
    /\ lastId' = lastId + Min2(1, Fitting(lastId, upTo))
    /\ tailer' = "polling"
    /\ UNCHANGED <<rows, frameVars, tailing, upTo, ingestVars, mailbox, actorVars,
                   log, relayVars, lifeVars>>

\* The whole batch, whether or not the tailer has been stopped since, and the
\* cursor moves past what was refused.
OfferBatch ==
    /\ LoopFree /\ tailer = "fetched"
    /\ queue' = queue \o [i \in 1..Fitting(lastId, upTo) |-> lastId + i]
    /\ gone' = gone \cup ((lastId + Fitting(lastId, upTo) + 1)..upTo)
    /\ lastId' = upTo
    /\ tailer' = "polling"
    /\ UNCHANGED <<rows, frameVars, tailing, upTo, ingestVars, mailbox, actorVars,
                   log, relayVars, lifeVars>>

TailerEnds ==
    /\ LoopFree /\ tailer = "polling" /\ ~tailing
    /\ tailer' = "ended"
    /\ UNCHANGED <<rows, frameVars, tailing, lastId, upTo, queue, ingestVars,
                   mailbox, actorVars, log, relayVars, lifeVars, gone>>

\* A frame's callback has dispatched ingest.offer to the loop; one that was
\* under way when its session stopped comes at any later time.  Frames are
\* numbered as they come.
OfferFrame(f) ==
    /\ LoopFree /\ f \notin came /\ \A g \in Frames : g < f => g \in came
    /\ came' = came \cup {f}
    /\ IF QueueRoom
       THEN queue' = Append(queue, f) /\ UNCHANGED gone
       ELSE gone' = gone \cup {f} /\ UNCHANGED queue
    /\ UNCHANGED <<rows, key, tailVars, ingestVars, mailbox, actorVars, log,
                   relayVars, lifeVars>>

-----------------------------------------------------------------------------
(* EquipmentIngest._run                                                    *)

\* _dedup_ok: past its size the set gives up any member, the new one included.
Remembered(k) ==
    LET keys == seen \cup {k}
    IN IF Cardinality(keys) > Window THEN {keys \ {j} : j \in keys} ELSE {keys}

\* MachineActorRegistry.on_signal and MachineActor.offer, which waits for room.
Deliver(sig) ==
    IF MailboxRoom
    THEN /\ mailbox' = Append(mailbox, sig)
         /\ ingest' = "looping"
         /\ UNCHANGED hand
    ELSE /\ hand' = sig
         /\ ingest' = "putting"
         /\ UNCHANGED mailbox

\* Without an actor the signal is logged and lost.  Its machine has a dedup
\* window of its own.
Estranged(sig) ==
    /\ sig \in Strangers
    /\ gone' = gone \cup {sig}
    /\ ingest' = "looping"
    /\ UNCHANGED <<dedupVars, mailbox, hand>>

Admit(sig) ==
    /\ sig \notin Strangers /\ KeyOf(sig) \notin seen
    /\ seen' \in Remembered(KeyOf(sig))
    /\ forgot' = forgot \cup ((seen \cup {KeyOf(sig)}) \ seen')
    /\ admitted' = admitted \cup {sig}
    /\ Deliver(sig)
    /\ UNCHANGED <<repeats, gone>>

Repeat(sig) ==
    /\ sig \notin Strangers /\ KeyOf(sig) \in seen
    /\ repeats' = repeats \cup {sig}
    /\ ingest' = "looping"
    /\ UNCHANGED <<seen, forgot, admitted, mailbox, hand, gone>>

\* Back from get(), or at the test of `while self._running`.
Resumes == ingest = "waiting" \/ (ingest = "looping" /\ ingesting)

Take ==
    /\ Resumes /\ queue # <<>>
    /\ queue' = Tail(queue)
    /\ IF Head(queue) = Sentinel
       THEN ingest' = "ended" /\ UNCHANGED <<dedupVars, mailbox, hand, gone>>
       ELSE Estranged(Head(queue)) \/ Admit(Head(queue)) \/ Repeat(Head(queue))
    /\ UNCHANGED <<rows, frameVars, tailVars, ingesting, actorVars, log, relayVars,
                   lifeVars>>

\* The actor has made room.
Put ==
    /\ ingest = "putting" /\ MailboxRoom
    /\ mailbox' = Append(mailbox, hand)
    /\ hand' = Nothing
    /\ ingest' = "looping"
    /\ UNCHANGED <<rows, frameVars, tailVars, queue, ingesting, dedupVars,
                   actorVars, log, relayVars, lifeVars, gone>>

\* get() on an empty queue waits; a loop that is to stop ends.
LoopTurns ==
    /\ ingest = "looping" /\ (ingesting => queue = <<>>)
    /\ ingest' = IF ingesting THEN "waiting" ELSE "ended"
    /\ UNCHANGED <<rows, frameVars, tailVars, queue, ingesting, hand, dedupVars,
                   mailbox, actorVars, log, relayVars, lifeVars, gone>>

-----------------------------------------------------------------------------
(* MachineActor._run                                                       *)

TakeItem ==
    /\ LoopFree /\ actor = "waiting" /\ mailbox # <<>>
    /\ mailbox' = Tail(mailbox)
    /\ IF Head(mailbox) = Sentinel
       THEN actor' = "ended" /\ UNCHANGED work
       ELSE actor' = "handling" /\ work' = Head(mailbox)
    /\ UNCHANGED <<rows, frameVars, tailVars, queue, ingestVars, log, relayVars,
                   lifeVars, gone>>

\* In a thread: it appends its events, or raises and is logged.
Handle ==
    /\ actor = "handling"
    /\ \/ log' = Append(log, work) /\ UNCHANGED gone
       \/ gone' = gone \cup {work} /\ UNCHANGED log
    /\ actor' = "waiting" /\ work' = Nothing
    /\ UNCHANGED <<rows, frameVars, tailVars, queue, ingestVars, mailbox, relayVars,
                   lifeVars>>

-----------------------------------------------------------------------------
(* OutboxRelay._run                                                        *)

\* One drain, in threads.  What it finds and publishes is OutboxRelay's matter.
Fetch ==
    /\ relay = "idle" /\ relaying /\ log # <<>>
    /\ relay' = "draining"
    /\ UNCHANGED <<rows, frameVars, tailVars, queue, ingestVars, mailbox, actorVars,
                   log, relaying, lifeVars, gone>>

Publish ==
    /\ relay = "draining"
    /\ relay' = "idle"
    /\ UNCHANGED <<rows, frameVars, tailVars, queue, ingestVars, mailbox, actorVars,
                   log, relaying, lifeVars, gone>>

RelayEnds ==
    /\ relay = "idle" /\ ~relaying
    /\ relay' = "ended"
    /\ UNCHANGED <<rows, frameVars, tailVars, queue, ingestVars, mailbox, actorVars,
                   log, relaying, lifeVars, gone>>

-----------------------------------------------------------------------------
(* shutdown_event_pipeline, one await after the other.                     *)

StopSources ==
    /\ LoopFree /\ stopper = "none"
    /\ stopper' = "sources" /\ tailing' = FALSE
    /\ UNCHANGED <<rows, frameVars, tailer, lastId, upTo, queue, ingestVars, mailbox,
                   actorVars, log, relayVars, up, starts, gone>>

\* EquipmentIngest.stop: put(None) waits for room on a full queue.
StopIngest ==
    /\ LoopFree /\ stopper = "sources" /\ tailer = "ended"
    /\ ingesting' = FALSE
    /\ IF QueueRoom
       THEN stopper' = "ingest" /\ queue' = Append(queue, Sentinel)
       ELSE stopper' = "room" /\ UNCHANGED queue
    /\ UNCHANGED <<rows, frameVars, tailVars, ingest, hand, dedupVars,
                   mailbox, actorVars, log, relayVars, up, starts, gone>>

PutSentinel ==
    /\ LoopFree /\ stopper = "room" /\ QueueRoom
    /\ stopper' = "ingest" /\ queue' = Append(queue, Sentinel)
    /\ UNCHANGED <<rows, frameVars, tailVars, ingestVars, mailbox, actorVars, log,
                   relayVars, up, starts, gone>>

\* Mutant: the actors are stopped without waiting for ingest.
StopActors_AtOnce ==
    /\ LoopFree /\ stopper = "ingest"
    /\ MailboxRoom
    /\ stopper' = "actors" /\ mailbox' = Append(mailbox, Sentinel)
    /\ UNCHANGED <<rows, frameVars, tailVars, queue, ingestVars, actorVars, log,
                   relayVars, up, starts, gone>>

\* MachineActorRegistry.stop_all
StopActors ==
    /\ LoopFree /\ stopper = "ingest" /\ ingest = "ended"
    /\ MailboxRoom
    /\ stopper' = "actors" /\ mailbox' = Append(mailbox, Sentinel)
    /\ UNCHANGED <<rows, frameVars, tailVars, queue, ingestVars, actorVars, log,
                   relayVars, up, starts, gone>>

\* Mutant: the relay's task is awaited and was not told to stop.
StopRelay_Forgets ==
    /\ LoopFree /\ stopper = "actors" /\ actor = "ended"
    /\ stopper' = "relay"
    /\ UNCHANGED <<rows, frameVars, tailVars, queue, ingestVars, mailbox, actorVars,
                   log, relayVars, up, starts, gone>>

StopRelay ==
    /\ LoopFree /\ stopper = "actors" /\ actor = "ended"
    /\ stopper' = "relay" /\ relaying' = FALSE
    /\ UNCHANGED <<rows, frameVars, tailVars, queue, ingestVars, mailbox, actorVars,
                   log, relay, up, starts, gone>>

Stopped ==
    /\ LoopFree /\ stopper = "relay" /\ relay = "ended"
    /\ stopper' = "done"
    /\ UNCHANGED <<rows, frameVars, tailVars, queue, ingestVars, mailbox, actorVars,
                   log, relayVars, up, starts, gone>>

-----------------------------------------------------------------------------
Tailer   == _fetch_batch \/ OfferBatch \/ TailerEnds
Ingest   == Take \/ Put \/ LoopTurns
Actor    == TakeItem \/ Handle
Relay    == Fetch \/ Publish \/ RelayEnds
Shutdown == StopIngest \/ PutSentinel \/ StopActors \/ StopRelay \/ Stopped

Next ==
    \/ Boot \/ Exit
    \/ insert_machine_data
    \/ \E f \in Frames : OfferFrame(f)
    \/ Tailer \/ Ingest \/ Actor \/ Relay
    \/ StopSources \/ Shutdown

Spec == Init /\ [][Next]_vars

\* The loop runs every task that can run, and threads finish.  Nothing obliges
\* a process to start or to end, a row or a frame to come.
FairSpec ==
    /\ Spec
    /\ WF_vars(Tailer) /\ WF_vars(Ingest) /\ WF_vars(Actor) /\ WF_vars(Relay)
    /\ WF_vars(Shutdown)

-----------------------------------------------------------------------------
(* Properties                                                              *)

\* Every variable has its type, and no queue holds more than its size.
TypeOK ==
    /\ rows \in 0..MaxRows
    /\ key \in [Frames -> FrameKeys] /\ came \subseteq Frames
    /\ tailer \in {"polling", "fetched", "ended"} /\ tailing \in BOOLEAN
    /\ lastId \in 0..rows /\ upTo \in lastId..rows
    /\ queue \in Seq(Signals \cup {Sentinel}) /\ Len(queue) <= QueueSize
    /\ ingest \in {"waiting", "looping", "putting", "ended"}
    /\ ingesting \in BOOLEAN
    /\ hand \in Signals \cup {Nothing}
    /\ seen \subseteq Rows \cup FrameKeys /\ Cardinality(seen) <= Window
    /\ mailbox \in Seq(Signals \cup {Sentinel}) /\ Len(mailbox) <= MailboxSize
    /\ actor \in {"waiting", "handling", "ended"}
    /\ work \in Signals \cup {Nothing}
    /\ log \in Seq(Signals)
    /\ relay \in {"idle", "draining", "ended"} /\ relaying \in BOOLEAN
    /\ stopper \in {"none", "sources", "room", "ingest", "actors", "relay", "done"}
    /\ up \in BOOLEAN /\ starts \in 0..MaxStarts
    /\ forgot \subseteq Rows \cup FrameKeys
    /\ admitted \subseteq Signals /\ repeats \subseteq Signals
    /\ gone \subseteq Signals

\* Every row the tailer has passed and every frame that came is handled, on its
\* way, or among those the code gave up (a full queue, a stranger, a handler
\* that raised, rows from before the start, a process that died), or dedup took
\* it for another signal with its edge_seq that it had let pass: never a row,
\* and never the first frame with a key (machine_data_tailer.py, ingest.py:104).
EverySignalIsAccountedFor ==
    /\ \A sig \in (1..lastId) \cup came :
          sig \in In(log) \cup InFlight \cup gone \cup repeats
    /\ \A sig \in repeats :
          /\ sig \in came
          /\ \E f \in admitted : f # sig /\ KeyOf(f) = KeyOf(sig)
    /\ admitted \subseteq In(log) \cup InFlight \cup gone
    /\ admitted \cap repeats = {}

\* An actor sees the rows of machine_data in their order and each of them once,
\* across restarts too; two frames with one key it sees only when the dedup
\* window has given up the key, or the process (ingest.py:104).
RowsInOrderFramesOnce ==
    \A i, j \in DOMAIN log : i < j =>
        /\ {log[i], log[j]} \subseteq Rows => log[i] < log[j]
        /\ KeyOf(log[i]) = KeyOf(log[j]) => KeyOf(log[i]) \in forgot

\* Once the actors are stopped none of what ingest had taken is left behind:
\* a shutdown in order loses no more than the ingest queue (bootstrap.py:376).
ShutdownLosesOnlyTheQueue ==
    (up /\ stopper \in {"relay", "done"}) =>
        /\ hand = Nothing /\ work = Nothing /\ mailbox = <<>>
        /\ ingest = "ended" /\ tailer = "ended"

\* stop() waits for room in a queue whose consumer has ended (ingest.py:82).
Stuck == stopper = "room" /\ ingest = "ended" /\ ~QueueRoom

\* A shutdown that has begun ends by itself, unless it is stuck on a full queue:
\* then only the time limit of app.py ends it.
ShutdownEnds == stopper # "none" ~> (stopper = "done" \/ ~up \/ Stuck)
=============================================================================
