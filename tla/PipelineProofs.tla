----------------------------- MODULE PipelineProofs -----------------------------
(***************************************************************************)
(* What becomes of a signal between its source and the log, for any number  *)
(* of rows, frames and starts, and any size of queue, window and mailbox.   *)
(***************************************************************************)
EXTENDS Pipeline, FiniteSetTheorems, SequenceTheorems, TLAPS

USE DEF frameVars, tailVars, dedupVars, ingestVars, actorVars, relayVars, lifeVars,
        Sentinel, Nothing

Items == Signals \cup {Sentinel}

LEMMA SignalFacts ==
    /\ Rows \subseteq Signals /\ Frames \subseteq Signals /\ Signals \subseteq Nat
    /\ 0 \notin Signals /\ Rows \cap Frames = {}
    /\ IsFiniteSet(Signals)
    /\ \A a, b \in 0..MaxRows : (a + 1)..b \subseteq Rows
<1>1. /\ Rows \subseteq Signals /\ Frames \subseteq Signals /\ Signals \subseteq Nat
      /\ 0 \notin Signals /\ Rows \cap Frames = {}
      /\ \A a, b \in 0..MaxRows : (a + 1)..b \subseteq Rows
  BY PipelineAssumption DEF Signals, Rows, Frames
<1>2. IsFiniteSet(Rows) /\ IsFiniteSet(Frames)
  BY PipelineAssumption, FS_Interval DEF Rows, Frames
<1>3. IsFiniteSet(Signals)
  BY <1>2, FS_Union DEF Signals
<1> QED
  BY <1>1, <1>3

\* The edge_seq of a signal, and of a set of them, under an assignment of keys.
Keys          == Rows \cup FrameKeys
KeyIn(k, sig) == IF sig \in Frames THEN k[sig] ELSE sig
KeysIn(k, S)  == {KeyIn(k, sig) : sig \in S}

LEMMA KeyFacts ==
    ASSUME TypeOK
    PROVE  /\ IsFiniteSet(Keys)
           /\ \A sig : KeyOf(sig) = KeyIn(key, sig)
           /\ \A sig \in Signals : KeyIn(key, sig) \in Keys
           /\ \A sig \in Rows : KeyIn(key, sig) = sig
           /\ \A sig \in Frames : KeyIn(key, sig) \notin Rows
<1>1. IsFiniteSet(Rows)
  BY PipelineAssumption, FS_Interval DEF Rows
<1>2. IsFiniteSet(Keys)
  BY <1>1, PipelineAssumption, FS_Union DEF Keys
<1>3. \A sig : KeyOf(sig) = KeyIn(key, sig)
  BY DEF KeyOf, KeyIn
<1>4. \A sig \in Frames : KeyIn(key, sig) \in FrameKeys
  BY DEF KeyIn, TypeOK
<1>5. \A sig \in Rows : KeyIn(key, sig) = sig
  BY SignalFacts DEF KeyIn
<1>6. \A sig \in Signals : KeyIn(key, sig) \in Keys
  BY <1>4, <1>5 DEF Signals, Keys
<1> QED
  BY <1>2, <1>3, <1>4, <1>5, <1>6, PipelineAssumption

-----------------------------------------------------------------------------
(* What a sequence holds.                                                   *)

LEMMA InFacts ==
    ASSUME NEW R, NEW s \in Seq(R), NEW e \in R
    PROVE  /\ In(<<>>) = {}
           /\ In(Append(s, e)) = In(s) \cup Held(e)
           /\ s # <<>> => In(s) = In(Tail(s)) \cup Held(Head(s))
<1>1. In(<<>>) = {}
  BY DEF In
<1>2. /\ DOMAIN Append(s, e) = 1..(Len(s) + 1) /\ DOMAIN s = 1..Len(s)
      /\ Len(s) \in Nat /\ Append(s, e)[Len(s) + 1] = e
      /\ \A i \in 1..Len(s) : Append(s, e)[i] = s[i]
  OBVIOUS
<1>3. {Append(s, e)[i] : i \in DOMAIN Append(s, e)} = {s[i] : i \in DOMAIN s} \cup {e}
  BY <1>2
<1>4. In(Append(s, e)) = In(s) \cup Held(e)
  BY <1>3 DEF In, Held
<1>5. ASSUME s # <<>> PROVE In(s) = In(Tail(s)) \cup Held(Head(s))
  <2>1. /\ Len(s) \in Nat \ {0} /\ DOMAIN s = 1..Len(s)
        /\ DOMAIN Tail(s) = 1..(Len(s) - 1) /\ Head(s) = s[1]
        /\ \A i \in 1..(Len(s) - 1) : Tail(s)[i] = s[i + 1]
    BY <1>5
  <2>2. \A i \in DOMAIN s : s[i] = Head(s) \/ \E j \in DOMAIN Tail(s) : s[i] = Tail(s)[j]
    <3> SUFFICES ASSUME NEW i \in DOMAIN s, i # 1
                 PROVE  \E j \in DOMAIN Tail(s) : s[i] = Tail(s)[j]
      BY <2>1
    <3>1. i - 1 \in DOMAIN Tail(s) /\ Tail(s)[i - 1] = s[i]
      BY <2>1
    <3> QED
      BY <3>1
  <2>3. 1 \in DOMAIN s /\ \A j \in DOMAIN Tail(s) : j + 1 \in DOMAIN s /\ Tail(s)[j] = s[j + 1]
    BY <2>1
  <2>4. {s[i] : i \in DOMAIN s} = {Tail(s)[i] : i \in DOMAIN Tail(s)} \cup {Head(s)}
    BY <2>1, <2>2, <2>3, SMTT(30)
  <2> QED
    BY <2>4 DEF In, Held
<1> QED
  BY <1>1, <1>4, <1>5

\* The run of rows a batch offers.
Run(from, n) == [i \in 1..n |-> from + i]

LEMMA RunFacts ==
    ASSUME NEW R, NEW s \in Seq(R), NEW from \in Nat, NEW n \in Nat,
           (from + 1)..(from + n) \subseteq R
    PROVE  /\ s \o Run(from, n) \in Seq(R)
           /\ Len(s \o Run(from, n)) = Len(s) + n
           /\ \A i \in 1..Len(s) : (s \o Run(from, n))[i] = s[i]
           /\ \A i \in (Len(s) + 1)..(Len(s) + n) :
                  (s \o Run(from, n))[i] = from + (i - Len(s))
           /\ In(s \o Run(from, n)) = In(s) \cup ((from + 1)..(from + n))
<1> DEFINE r == Run(from, n)
           t == s \o r
<1>1. r \in Seq(R) /\ Len(r) = n /\ DOMAIN r = 1..n
      /\ \A i \in 1..n : r[i] = from + i
  <2>1. r \in [1..n -> R]
    BY DEF Run
  <2> QED
    BY <2>1 DEF Run
<1> HIDE DEF r
<1>2. t \in Seq(R) /\ Len(t) = Len(s) + n /\ Len(s) \in Nat
      /\ \A i \in 1..(Len(s) + n) : t[i] = IF i <= Len(s) THEN s[i] ELSE r[i - Len(s)]
  <2>1. t \in Seq(R) /\ Len(t) = Len(s) + n /\ Len(s) \in Nat
    BY <1>1
  <2>2. \A i \in 1..(Len(s) + n) : t[i] = IF i <= Len(s) THEN s[i] ELSE r[i - Len(s)]
    BY <1>1
  <2> QED
    BY <2>1, <2>2
<1>3. /\ \A i \in 1..Len(s) : t[i] = s[i]
      /\ \A i \in (Len(s) + 1)..(Len(s) + n) : t[i] = from + (i - Len(s))
  BY <1>1, <1>2
<1> HIDE DEF t
<1>4. DOMAIN t = 1..(Len(s) + n) /\ DOMAIN s = 1..Len(s)
  BY <1>2
<1>5. {t[i] : i \in DOMAIN t} = {s[i] : i \in DOMAIN s} \cup ((from + 1)..(from + n))
  <2>1. ASSUME NEW i \in DOMAIN t
        PROVE  t[i] \in {s[j] : j \in DOMAIN s} \cup ((from + 1)..(from + n))
    BY <1>2, <1>3, <1>4
  <2>2. ASSUME NEW i \in DOMAIN s PROVE s[i] \in {t[j] : j \in DOMAIN t}
    <3>1. i \in DOMAIN t /\ t[i] = s[i]
      BY <1>2, <1>3, <1>4
    <3> QED
      BY <3>1
  <2>3. ASSUME NEW x \in (from + 1)..(from + n) PROVE x \in {t[j] : j \in DOMAIN t}
    <3>1. Len(s) + (x - from) \in DOMAIN t /\ t[Len(s) + (x - from)] = x
      BY <1>2, <1>3, <1>4, SMTT(30)
    <3> QED
      BY <3>1
  <2> QED
    BY <2>1, <2>2, <2>3
<1>6. In(t) = In(s) \cup ((from + 1)..(from + n))
  BY <1>5 DEF In
<1> QED
  BY <1>2, <1>3, <1>6 DEF t, r

LEMMA RunHolds ==
    ASSUME NEW R, NEW s \in Seq(R), NEW from \in Nat, NEW n \in Nat,
           (from + 1)..(from + n) \subseteq R
    PROVE  In(s \o Run(from, n)) = In(s) \cup ((from + 1)..(from + n))
BY RunFacts

-----------------------------------------------------------------------------
(* Types                                                                   *)

\* A task has a signal exactly while it waits to pass it on or handles it.
HandsInv ==
    /\ ingest = "putting" <=> hand # Nothing
    /\ actor = "handling" <=> work # Nothing

DownInv ==
    ~up => /\ queue = <<>> /\ hand = Nothing /\ mailbox = <<>> /\ work = Nothing
           /\ tailer = "ended" /\ ingest = "ended" /\ actor = "ended"
           /\ relay = "ended" /\ stopper = "none" /\ seen = {}

PipeTypes == TypeOK /\ HandsInv /\ DownInv

LEMMA PipeStarts ==
    ASSUME Init
    PROVE  PipeTypes
<1>1. queue \in Seq(Items) /\ Len(queue) = 0
      /\ mailbox \in Seq(Items) /\ Len(mailbox) = 0 /\ log \in Seq(Signals)
  BY DEF Init
<1>2. Cardinality(seen) = 0
  BY FS_EmptySet DEF Init
<1>3. key \in [Frames -> FrameKeys] /\ came \subseteq Frames
  BY DEF Init
<1>4. /\ queue \in Seq(Signals \cup {Sentinel})
      /\ mailbox \in Seq(Signals \cup {Sentinel})
      /\ rows \in 0..MaxRows /\ lastId \in 0..rows /\ upTo \in lastId..rows
      /\ starts \in 0..MaxStarts
      /\ Len(queue) <= QueueSize /\ Len(mailbox) <= MailboxSize
      /\ Cardinality(seen) <= Window
  BY <1>1, <1>2, PipelineAssumption DEF Init, Items
<1> QED
  BY <1>1, <1>3, <1>4 DEF Init, PipeTypes, TypeOK, HandsInv, DownInv, Items

LEMMA BootTypes ==
    ASSUME PipeTypes, Boot
    PROVE  PipeTypes'
<1>1. (lastId + 1)..rows \subseteq Signals
  <2>1. lastId \in 0..MaxRows /\ rows \in 0..MaxRows
    BY PipelineAssumption DEF PipeTypes, TypeOK
  <2> QED
    BY <2>1, SignalFacts
<1> QED
  BY <1>1, PipelineAssumption DEF Boot, PipeTypes, TypeOK, HandsInv, DownInv

LEMMA InIsTyped ==
    ASSUME NEW s \in Seq(Items)
    PROVE  In(s) \subseteq Signals
<1>1. \A i \in DOMAIN s : s[i] \in Items
  OBVIOUS
<1> QED
  BY <1>1 DEF In, Items

LEMMA ExitTypes ==
    ASSUME PipeTypes, Exit
    PROVE  PipeTypes'
<1>1. gone' \subseteq Signals
  <2>1. queue \in Seq(Items) /\ mailbox \in Seq(Items)
    BY DEF PipeTypes, TypeOK, Items
  <2>2. In(queue) \subseteq Signals /\ In(mailbox) \subseteq Signals
    BY <2>1, InIsTyped
  <2>3. Held(hand) \subseteq Signals /\ Held(work) \subseteq Signals
    BY DEF PipeTypes, TypeOK, Held
  <2> QED
    BY <2>2, <2>3 DEF Exit, InFlight, PipeTypes, TypeOK
<1>2. queue' \in Seq(Items) /\ Len(queue') = 0
      /\ mailbox' \in Seq(Items) /\ Len(mailbox') = 0 /\ Cardinality(seen') = 0
  BY FS_EmptySet DEF Exit
<1>3. Len(queue') <= QueueSize /\ Len(mailbox') <= MailboxSize
      /\ Cardinality(seen') <= Window
  BY <1>2, PipelineAssumption
<1>4. /\ seen' = {} /\ forgot' \subseteq Rows \cup FrameKeys
  BY DEF Exit, PipeTypes, TypeOK
<1>5. TypeOK'
  BY <1>1, <1>2, <1>3, <1>4 DEF Exit, PipeTypes, TypeOK, Items
<1> QED
  BY <1>5 DEF Exit, PipeTypes, HandsInv, DownInv

LEMMA SourceTypes ==
    ASSUME PipeTypes, insert_machine_data \/ _fetch_batch \/ TailerEnds
    PROVE  PipeTypes'
<1>1. CASE insert_machine_data
  BY <1>1, PipelineAssumption
     DEF insert_machine_data, PipeTypes, TypeOK, HandsInv, DownInv
<1>2. CASE _fetch_batch
  <2>1. upTo' \in lastId..rows
    BY <1>2, PipelineAssumption DEF _fetch_batch, PipeTypes, TypeOK, Min2
  <2> QED
    BY <1>2, <2>1 DEF _fetch_batch, PipeTypes, TypeOK, HandsInv, DownInv
<1>3. CASE TailerEnds
  BY <1>3 DEF TailerEnds, PipeTypes, TypeOK, HandsInv, DownInv
<1> QED
  BY <1>1, <1>2, <1>3

\* How many of a batch fit, and what they make of the queue.
LEMMA BatchFacts ==
    ASSUME PipeTypes, OfferBatch
    PROVE  \E n \in Nat :
              /\ lastId + n <= upTo /\ lastId \in Nat /\ upTo \in Nat
              /\ (lastId + 1)..(lastId + n) \subseteq Rows
              /\ (lastId + n + 1)..upTo \subseteq Rows
              /\ Len(queue) + n <= QueueSize
              /\ queue' = queue \o Run(lastId, n)
              /\ gone' = gone \cup ((lastId + n + 1)..upTo)
<1> DEFINE n == Fitting(lastId, upTo)
<1>1. /\ queue \in Seq(Items) /\ Len(queue) <= QueueSize /\ Len(queue) \in Nat
      /\ lastId \in Nat /\ upTo \in Nat /\ lastId <= upTo /\ upTo <= MaxRows
      /\ QueueSize \in Nat
  BY PipelineAssumption DEF PipeTypes, TypeOK, Items
<1>2. n \in Nat /\ lastId + n <= upTo /\ Len(queue) + n <= QueueSize
  BY <1>1 DEF Fitting, Min2
<1>3. /\ queue' = queue \o Run(lastId, n)
      /\ gone' = gone \cup ((lastId + n + 1)..upTo)
  BY DEF OfferBatch, Run
<1> HIDE DEF n
<1>4. /\ (lastId + 1)..(lastId + n) \subseteq Rows
      /\ (lastId + n + 1)..upTo \subseteq Rows
  BY <1>1, <1>2, PipelineAssumption DEF Rows
<1> QED
  BY <1>1, <1>2, <1>3, <1>4

LEMMA OfferBatchTypes ==
    ASSUME PipeTypes, OfferBatch
    PROVE  PipeTypes'
<1>1. PICK n \in Nat :
          /\ lastId + n <= upTo /\ lastId \in Nat /\ upTo \in Nat
          /\ (lastId + 1)..(lastId + n) \subseteq Rows
          /\ (lastId + n + 1)..upTo \subseteq Rows
          /\ Len(queue) + n <= QueueSize
          /\ queue' = queue \o Run(lastId, n)
          /\ gone' = gone \cup ((lastId + n + 1)..upTo)
  BY BatchFacts
<1>2. queue \in Seq(Items) /\ Rows \subseteq Items
  BY SignalFacts DEF PipeTypes, TypeOK, Items
<1>3. queue' \in Seq(Items) /\ Len(queue') <= QueueSize
  <2>1. (lastId + 1)..(lastId + n) \subseteq Items
    BY <1>1, <1>2
  <2>2. queue \o Run(lastId, n) \in Seq(Items)
        /\ Len(queue \o Run(lastId, n)) = Len(queue) + n
    BY <1>1, <1>2, <2>1, RunFacts
  <2> QED
    BY <1>1, <2>2
<1>4. gone' \subseteq Signals
  BY <1>1, SignalFacts DEF PipeTypes, TypeOK
<1>5. lastId' \in 0..rows /\ upTo' \in lastId'..rows'
  BY <1>1, PipelineAssumption DEF OfferBatch, PipeTypes, TypeOK
<1>6. tailer' = "polling" /\ up /\ UNCHANGED <<rows, frameVars, tailing, ingestVars,
             mailbox, actorVars, log, relayVars, lifeVars>>
  BY DEF OfferBatch, LoopFree
<1> QED
  BY <1>3, <1>4, <1>5, <1>6 DEF PipeTypes, TypeOK, HandsInv, DownInv, Items

LEMMA OfferFrameTypes ==
    ASSUME PipeTypes, NEW f \in Frames, OfferFrame(f)
    PROVE  PipeTypes'
<1>1. queue \in Seq(Items) /\ f \in Items /\ f \in Signals
  BY SignalFacts DEF PipeTypes, TypeOK, Items
<1>2. queue' \in Seq(Items) /\ Len(queue') <= QueueSize
  <2>1. Append(queue, f) \in Seq(Items) /\ Len(Append(queue, f)) = Len(queue) + 1
        /\ Len(queue) \in Nat
    BY <1>1
  <2>2. CASE QueueRoom
    BY <2>1, <2>2, PipelineAssumption DEF OfferFrame, QueueRoom
  <2>3. CASE ~QueueRoom
    BY <2>3 DEF OfferFrame, PipeTypes, TypeOK, Items
  <2> QED
    BY <2>2, <2>3
<1>3. came' \subseteq Frames /\ key' = key
  BY DEF OfferFrame, PipeTypes, TypeOK
<1>4. gone' \subseteq Signals
  BY <1>1 DEF OfferFrame, PipeTypes, TypeOK
<1>5. up /\ UNCHANGED <<rows, tailVars, ingestVars, mailbox, actorVars, log,
                        relayVars, lifeVars>>
  BY DEF OfferFrame, LoopFree
<1> QED
  BY <1>2, <1>3, <1>4, <1>5 DEF PipeTypes, TypeOK, HandsInv, DownInv, Items

-----------------------------------------------------------------------------
(* One turn of the ingest loop.                                            *)

\* What the dedup window does with a new key.
Windowed(k) ==
    /\ seen' \subseteq seen \cup {k}
    /\ seen \cup {k} \subseteq seen' \cup forgot'
    /\ forgot \subseteq forgot' /\ forgot' \subseteq forgot \cup seen \cup {k}
    /\ Cardinality(seen') <= Window

LEMMA WindowKeeps ==
    ASSUME PipeTypes, NEW k \in Keys, seen' \in Remembered(k),
           forgot' = forgot \cup ((seen \cup {k}) \ seen')
    PROVE  Windowed(k)
<1> DEFINE keys == seen \cup {k}
<1>1. /\ IsFiniteSet(seen) /\ Cardinality(seen) <= Window /\ Window \in Nat
  BY PipelineAssumption, KeyFacts, FS_Subset DEF PipeTypes, TypeOK, Keys
<1>2. /\ IsFiniteSet(keys) /\ Cardinality(seen) \in Nat /\ Cardinality(keys) \in Nat
      /\ Cardinality(keys) <= Cardinality(seen) + 1
  <2>1. IsFiniteSet(keys)
    BY <1>1, FS_AddElement
  <2>2. Cardinality(seen) \in Nat /\ Cardinality(keys) \in Nat
    BY <1>1, <2>1, FS_CardinalityType
  <2>3. Cardinality(keys) \in {Cardinality(seen), Cardinality(seen) + 1}
    BY <1>1, FS_AddElement
  <2> QED
    BY <2>1, <2>2, <2>3
<1>3. seen' \in IF Cardinality(keys) > Window THEN {keys \ {j} : j \in keys} ELSE {keys}
  BY DEF Remembered
<1> HIDE DEF keys
<1>4. CASE Cardinality(keys) > Window
  <2>1. PICK j \in keys : seen' = keys \ {j}
    BY <1>3, <1>4
  <2>2. Cardinality(seen') = Cardinality(keys) - 1
    BY <1>2, <2>1, FS_RemoveElement
  <2>3. Cardinality(seen') <= Window
    BY <1>1, <1>2, <2>2
  <2> QED
    BY <2>1, <2>3 DEF keys, Windowed
<1>5. CASE ~(Cardinality(keys) > Window)
  <2>1. seen' = keys
    BY <1>3, <1>5
  <2>2. Cardinality(seen') <= Window
    BY <1>1, <1>2, <1>5, <2>1
  <2> QED
    BY <2>1, <2>2 DEF keys, Windowed
<1> QED
  BY <1>4, <1>5

Delivered(sig) ==
    \/ /\ Len(mailbox) < MailboxSize
       /\ mailbox' = Append(mailbox, sig) /\ ingest' = "looping" /\ hand' = hand
    \/ hand' = sig /\ ingest' = "putting" /\ mailbox' = mailbox

\* Dedup takes the signal for a repeat, or lets it pass.
Repeated(sig) ==
    /\ ingest' = "looping"
    /\ KeyIn(key, sig) \in seen /\ repeats' = repeats \cup {sig}
    /\ UNCHANGED <<seen, forgot, admitted, mailbox, hand, gone>>

Passed(sig) ==
    /\ KeyIn(key, sig) \notin seen /\ Windowed(KeyIn(key, sig))
    /\ admitted' = admitted \cup {sig}
    /\ Delivered(sig)
    /\ UNCHANGED <<repeats, gone>>

LEMMA TakeCases ==
    ASSUME PipeTypes, Take
    PROVE  /\ queue # <<>> /\ queue' = Tail(queue) /\ up /\ hand = Nothing
           /\ UNCHANGED <<rows, frameVars, tailVars, ingesting, actorVars, log,
                          relayVars, lifeVars>>
           /\ \/ /\ Head(queue) = Sentinel /\ ingest' = "ended"
                 /\ UNCHANGED <<dedupVars, mailbox, hand, gone>>
              \/ /\ Head(queue) \in Signals /\ ingest' = "looping"
                 /\ gone' = gone \cup {Head(queue)}
                 /\ UNCHANGED <<dedupVars, mailbox, hand>>
              \/ Head(queue) \in Signals /\ Repeated(Head(queue))
              \/ Head(queue) \in Signals /\ Passed(Head(queue))
<1> DEFINE sig == Head(queue)
<1>1. queue \in Seq(Items) /\ queue # <<>>
  BY DEF PipeTypes, TypeOK, Items, Take
<1>2. sig \in Items
  BY <1>1
<1>3. /\ queue' = Tail(queue)
      /\ UNCHANGED <<rows, frameVars, tailVars, ingesting, actorVars, log,
                     relayVars, lifeVars>>
      /\ ingest \in {"waiting", "looping"}
      /\ IF sig = Sentinel
         THEN ingest' = "ended" /\ UNCHANGED <<dedupVars, mailbox, hand, gone>>
         ELSE Estranged(sig) \/ Admit(sig) \/ Repeat(sig)
  BY DEF Take, Resumes
<1>4. up /\ hand = Nothing
  BY <1>3 DEF PipeTypes, HandsInv, DownInv
<1>5. KeyOf(sig) = KeyIn(key, sig) /\ (sig \in Signals => KeyIn(key, sig) \in Keys)
  BY KeyFacts DEF PipeTypes
<1> HIDE DEF sig
<1>6. CASE sig = Sentinel
  BY <1>1, <1>3, <1>4, <1>6 DEF sig
<1>7. CASE sig # Sentinel
  <2>1. sig \in Signals
    BY <1>2, <1>7 DEF Items
  <2>2. CASE Estranged(sig)
    BY <1>1, <1>3, <1>4, <2>1, <2>2 DEF sig, Estranged
  <2>3. CASE Repeat(sig)
    <3>1. Repeated(sig)
      BY <1>5, <2>3 DEF Repeat, Repeated
    <3> QED
      BY <1>1, <1>3, <1>4, <2>1, <3>1 DEF sig
  <2>4. CASE Admit(sig)
    <3>1. /\ KeyIn(key, sig) \notin seen /\ UNCHANGED <<repeats, gone>>
          /\ seen' \in Remembered(KeyIn(key, sig))
          /\ forgot' = forgot \cup ((seen \cup {KeyIn(key, sig)}) \ seen')
          /\ admitted' = admitted \cup {sig}
          /\ Deliver(sig)
      BY <1>5, <2>4 DEF Admit
    <3>2. Windowed(KeyIn(key, sig))
      BY <1>5, <2>1, <3>1, WindowKeeps
    <3>3. Delivered(sig)
      BY <3>1 DEF Deliver, Delivered, MailboxRoom
    <3>4. Passed(sig)
      BY <3>1, <3>2, <3>3 DEF Passed
    <3> QED
      BY <1>1, <1>3, <1>4, <2>1, <3>4 DEF sig
  <2> QED
    BY <1>3, <1>7, <2>2, <2>3, <2>4
<1> QED
  BY <1>6, <1>7

LEMMA TakeTypes ==
    ASSUME PipeTypes, Take
    PROVE  PipeTypes'
<1> DEFINE sig == Head(queue)
<1>1. /\ queue \in Seq(Items) /\ mailbox \in Seq(Items) /\ Len(queue) <= QueueSize
      /\ QueueSize \in Nat /\ MailboxSize \in Nat /\ queue # <<>>
  BY PipelineAssumption DEF PipeTypes, TypeOK, Items, Take
<1>2. Tail(queue) \in Seq(Items) /\ Len(Tail(queue)) <= QueueSize
  BY <1>1
<1>3. queue' \in Seq(Items) /\ Len(queue') <= QueueSize /\ up
      /\ UNCHANGED <<rows, frameVars, tailVars, ingesting, actorVars, log,
                     relayVars, lifeVars>>
  BY <1>2, TakeCases
<1>4. CASE /\ ingest' \in {"ended", "looping"} /\ hand' = hand /\ hand = Nothing
           /\ UNCHANGED <<seen, forgot, admitted, mailbox>>
           /\ repeats' \subseteq Signals /\ gone' \subseteq Signals
  BY <1>3, <1>4 DEF PipeTypes, TypeOK, HandsInv, DownInv, Items
<1>5. CASE sig \in Signals /\ Passed(sig) /\ hand = Nothing
  <2> HIDE DEF sig
  <2>0. /\ Windowed(KeyIn(key, sig)) /\ Delivered(sig) /\ gone' = gone
        /\ admitted' = admitted \cup {sig} /\ repeats' = repeats
        /\ KeyIn(key, sig) \in Rows \cup FrameKeys
    BY <1>5, KeyFacts DEF Passed, PipeTypes, Keys
  <2>1. /\ seen' \subseteq Rows \cup FrameKeys /\ forgot' \subseteq Rows \cup FrameKeys
        /\ Cardinality(seen') <= Window
    BY <2>0 DEF Windowed, PipeTypes, TypeOK
  <2>2. sig \in Items /\ sig # 0
    BY <1>5, SignalFacts DEF Items
  <2>3. Append(mailbox, sig) \in Seq(Items)
        /\ Len(Append(mailbox, sig)) = Len(mailbox) + 1 /\ Len(mailbox) \in Nat
    BY <1>1, <2>2
  <2>4. mailbox' \in Seq(Items) /\ Len(mailbox') <= MailboxSize
    <3>1. Len(mailbox) <= MailboxSize
      BY DEF PipeTypes, TypeOK
    <3> QED
      BY <1>1, <2>0, <2>3, <3>1 DEF Delivered
  <2>5. /\ hand' \in Signals \cup {Nothing}
        /\ ingest' \in {"looping", "putting"}
        /\ ingest' = "putting" <=> hand' # Nothing
    BY <1>5, <2>0, <2>2 DEF Delivered
  <2>6. admitted' \subseteq Signals /\ repeats' \subseteq Signals
    BY <1>5, <2>0 DEF PipeTypes, TypeOK
  <2> QED
    BY <1>3, <2>0, <2>1, <2>4, <2>5, <2>6
       DEF PipeTypes, TypeOK, HandsInv, DownInv, Items
<1>6. gone \subseteq Signals /\ repeats \subseteq Signals
  BY DEF PipeTypes, TypeOK
<1> QED
  BY <1>4, <1>5, <1>6, TakeCases DEF Repeated

LEMMA PutTypes ==
    ASSUME PipeTypes, Put
    PROVE  PipeTypes'
<1>1. mailbox \in Seq(Items) /\ hand \in Items /\ MailboxSize \in Nat
      /\ Len(mailbox) < MailboxSize
  BY PipelineAssumption DEF PipeTypes, TypeOK, Items, Put, MailboxRoom
<1>2. Append(mailbox, hand) \in Seq(Items) /\ Len(Append(mailbox, hand)) <= MailboxSize
  BY <1>1
<1> QED
  BY <1>2 DEF Put, PipeTypes, TypeOK, HandsInv, DownInv, Items

LEMMA LoopTurnsTypes ==
    ASSUME PipeTypes, LoopTurns
    PROVE  PipeTypes'
BY DEF LoopTurns, PipeTypes, TypeOK, HandsInv, DownInv

LEMMA TakeItemTypes ==
    ASSUME PipeTypes, TakeItem
    PROVE  PipeTypes'
<1>1. mailbox \in Seq(Items) /\ mailbox # <<>> /\ MailboxSize \in Nat
      /\ Len(mailbox) <= MailboxSize
  BY PipelineAssumption DEF PipeTypes, TypeOK, Items, TakeItem
<1>2. Tail(mailbox) \in Seq(Items) /\ Len(Tail(mailbox)) <= MailboxSize
      /\ Head(mailbox) \in Items
  BY <1>1
<1>3. mailbox' \in Seq(Items) /\ Len(mailbox') <= MailboxSize
  BY <1>2 DEF TakeItem
<1>4. /\ actor' \in {"waiting", "handling", "ended"}
      /\ work' \in Signals \cup {Nothing}
      /\ actor' = "handling" <=> work' # Nothing
  BY <1>2 DEF TakeItem, PipeTypes, TypeOK, HandsInv, Items
<1> QED
  BY <1>3, <1>4 DEF TakeItem, LoopFree, PipeTypes, TypeOK, HandsInv, DownInv, Items

LEMMA HandleTypes ==
    ASSUME PipeTypes, Handle
    PROVE  PipeTypes'
<1>1. work \in Signals /\ log \in Seq(Signals) /\ gone \subseteq Signals /\ up
  BY DEF Handle, PipeTypes, TypeOK, HandsInv, DownInv
<1>2. Append(log, work) \in Seq(Signals)
  BY <1>1
<1>3. log' \in Seq(Signals) /\ gone' \subseteq Signals
  BY <1>1, <1>2 DEF Handle
<1> QED
  BY <1>1, <1>3 DEF Handle, PipeTypes, TypeOK, HandsInv, DownInv

LEMMA RelayTypesStep ==
    ASSUME PipeTypes, Relay
    PROVE  PipeTypes'
BY DEF Relay, Fetch, Publish, RelayEnds, PipeTypes, TypeOK, HandsInv, DownInv

\* StopIngest and PutSentinel put None on the queue, StopActors in the mailbox.
LEMMA SentinelTypes ==
    ASSUME PipeTypes
    PROVE  /\ Append(queue, Sentinel) \in Seq(Items)
           /\ QueueRoom => Len(Append(queue, Sentinel)) <= QueueSize
           /\ Append(mailbox, Sentinel) \in Seq(Items)
           /\ MailboxRoom => Len(Append(mailbox, Sentinel)) <= MailboxSize
<1>1. queue \in Seq(Items) /\ mailbox \in Seq(Items) /\ 0 \in Items
      /\ QueueSize \in Nat /\ MailboxSize \in Nat
  BY PipelineAssumption DEF PipeTypes, TypeOK, Items
<1> QED
  BY <1>1 DEF QueueRoom, MailboxRoom

LEMMA ShutdownTypes ==
    ASSUME PipeTypes, StopSources \/ Shutdown
    PROVE  PipeTypes'
<1>1. CASE StopSources \/ StopRelay \/ Stopped
  <2>1. /\ stopper' \in {"sources", "relay", "done"} /\ up
        /\ tailing' \in BOOLEAN /\ relaying' \in BOOLEAN
        /\ UNCHANGED <<rows, frameVars, tailer, lastId, upTo, queue, ingestVars,
                       mailbox, actorVars, log, relay, up, starts, gone>>
    BY <1>1 DEF StopSources, StopRelay, Stopped, LoopFree, PipeTypes, TypeOK
  <2> QED
    BY <2>1 DEF PipeTypes, TypeOK, HandsInv, DownInv
<1>2. CASE StopIngest \/ PutSentinel
  <2>1. queue' \in Seq(Items) /\ Len(queue') <= QueueSize
    <3>1. \/ queue' = queue
          \/ QueueRoom /\ queue' = Append(queue, Sentinel)
      BY <1>2 DEF StopIngest, PutSentinel
    <3> QED
      BY <3>1, SentinelTypes DEF PipeTypes, TypeOK, Items
  <2>2. /\ stopper' \in {"room", "ingest"} /\ ingesting' \in BOOLEAN /\ up
        /\ UNCHANGED <<rows, frameVars, tailVars, ingest, hand, dedupVars, mailbox,
                       actorVars, log, relayVars, up, starts, gone>>
    BY <1>2 DEF StopIngest, PutSentinel, LoopFree, PipeTypes, TypeOK
  <2> QED
    BY <2>1, <2>2 DEF PipeTypes, TypeOK, HandsInv, DownInv, Items
<1>3. CASE StopActors
  <2>1. mailbox' \in Seq(Items) /\ Len(mailbox') <= MailboxSize
    BY <1>3, SentinelTypes DEF StopActors
  <2> QED
    BY <1>3, <2>1 DEF StopActors, LoopFree, PipeTypes, TypeOK, HandsInv, DownInv,
                      Items
<1> QED
  BY <1>1, <1>2, <1>3 DEF Shutdown

LEMMA PipeTypesStep ==
    ASSUME PipeTypes, [Next]_vars
    PROVE  PipeTypes'
<1>1. CASE UNCHANGED vars
  BY <1>1 DEF vars, PipeTypes, TypeOK, HandsInv, DownInv
<1> QED
  BY <1>1, BootTypes, ExitTypes, SourceTypes, OfferBatchTypes, OfferFrameTypes,
     TakeTypes, PutTypes, LoopTurnsTypes, TakeItemTypes, HandleTypes,
     RelayTypesStep, ShutdownTypes DEF Next, Tailer, Ingest, Actor

THEOREM PipeTypesAlways == Spec => []PipeTypes
BY PipeStarts, PipeTypesStep, PTL DEF Spec

\* Every variable has its type: the queue, the mailbox and the dedup window stay
\* within their sizes, whatever they are (ingest.py:60, 104; machine_actor.py:113).
THEOREM TypeCorrect == Spec => []TypeOK
<1>1. PipeTypes => TypeOK
  BY DEF PipeTypes
<1> QED
  BY <1>1, PipeTypesAlways, PTL

-----------------------------------------------------------------------------
(* The stages of the way, as sets, and what each step moves between them.    *)

Done    == In(log)
Working == Held(work)
Boxed   == In(mailbox)
InHand  == Held(hand)
Queued  == In(queue)
Past    == Done \cup Working \cup Boxed \cup InHand    \* past the dedup

\* The steps that move nothing, but may put a sentinel in a sequence.
StagesKept ==
    /\ log' = log /\ work' = work /\ hand' = hand
    /\ Boxed' = Boxed /\ Queued' = Queued
    /\ mailbox' \in {mailbox, Append(mailbox, Sentinel)}
    /\ queue' \in {queue, Append(queue, Sentinel)}
    /\ seen' = seen /\ forgot' = forgot /\ gone' = gone
    /\ UNCHANGED <<key, came, lastId, admitted, repeats>>

LEMMA StageTypes ==
    ASSUME PipeTypes
    PROVE  /\ queue \in Seq(Items) /\ mailbox \in Seq(Items) /\ log \in Seq(Items)
           /\ log \in Seq(Signals)
           /\ Done \subseteq Signals /\ Working \subseteq Signals
           /\ Boxed \subseteq Signals /\ InHand \subseteq Signals
           /\ Queued \subseteq Signals
<1>1. queue \in Seq(Items) /\ mailbox \in Seq(Items) /\ log \in Seq(Signals)
  BY DEF PipeTypes, TypeOK, Items
<1>2. log \in Seq(Items)
  BY <1>1 DEF Items
<1>3. Held(work) \subseteq Signals /\ Held(hand) \subseteq Signals
  BY DEF PipeTypes, TypeOK, Held
<1> QED
  BY <1>1, <1>2, <1>3, InIsTyped DEF Done, Working, Boxed, InHand, Queued

\* Appending a sentinel moves no signal.
LEMMA SentinelMovesNone ==
    ASSUME NEW s \in Seq(Items)
    PROVE  In(Append(s, Sentinel)) = In(s)
<1>1. Sentinel \in Items
  BY DEF Items
<1>2. In(Append(s, Sentinel)) = In(s) \cup Held(Sentinel)
  BY <1>1, InFacts
<1>3. Held(Sentinel) = {}
  BY DEF Held
<1> QED
  BY <1>2, <1>3

Quiet ==
    \/ insert_machine_data \/ _fetch_batch \/ TailerEnds \/ LoopTurns \/ Relay
    \/ StopSources \/ Shutdown \/ UNCHANGED vars

LEMMA QuietMovesNone ==
    ASSUME PipeTypes, Quiet
    PROVE  StagesKept
<1>1. CASE insert_machine_data \/ _fetch_batch \/ TailerEnds \/ LoopTurns \/ UNCHANGED vars
  BY <1>1 DEF insert_machine_data, _fetch_batch, TailerEnds, LoopTurns, vars,
              StagesKept, Boxed, Queued
<1>2. CASE Relay \/ StopSources \/ StopRelay \/ Stopped
  BY <1>2 DEF Relay, Fetch, Publish, RelayEnds, StopSources, StopRelay, Stopped,
              StagesKept, Boxed, Queued
<1>3. CASE StopIngest \/ PutSentinel
  <2>1. queue' = queue \/ queue' = Append(queue, Sentinel)
    BY <1>3 DEF StopIngest, PutSentinel
  <2>2. Queued' = Queued
    BY <2>1, StageTypes, SentinelMovesNone DEF Queued
  <2> QED
    BY <1>3, <2>2 DEF StopIngest, PutSentinel, StagesKept, Boxed
<1>4. CASE StopActors
  <2>1. Boxed' = Boxed
    BY <1>4, StageTypes, SentinelMovesNone DEF StopActors, Boxed
  <2> QED
    BY <1>4, <2>1 DEF StopActors, StagesKept, Queued
<1> QED
  BY <1>1, <1>2, <1>3, <1>4 DEF Quiet, Shutdown

LEMMA NextStep ==
    ASSUME [Next]_vars
    PROVE  \/ Boot \/ Exit \/ OfferBatch \/ Take \/ Put \/ TakeItem \/ Handle
           \/ Quiet \/ \E f \in Frames : OfferFrame(f)
BY DEF Next, Tailer, Ingest, Actor, Quiet

LEMMA BootMoves ==
    ASSUME PipeTypes, Boot
    PROVE  /\ UNCHANGED <<key, came, queue, hand, mailbox, work, log, seen, forgot,
                         admitted, repeats>>
           /\ Working = {} /\ Boxed = {} /\ InHand = {} /\ Queued = {}
           /\ lastId' = rows /\ lastId <= rows /\ lastId \in Nat /\ rows \in Nat
           /\ gone' = gone \cup ((lastId + 1)..rows)
<1>1. ~up /\ lastId \in 0..rows /\ rows \in 0..MaxRows
  BY DEF Boot, PipeTypes, TypeOK
<1>2. queue = <<>> /\ mailbox = <<>> /\ hand = Nothing /\ work = Nothing
  BY <1>1 DEF PipeTypes, DownInv
<1>3. In(<<>>) = {}
  BY DEF In
<1> QED
  BY <1>1, <1>2, <1>3, PipelineAssumption
     DEF Boot, Working, Boxed, InHand, Queued, Held

LEMMA ExitMoves ==
    ASSUME Exit
    PROVE  /\ UNCHANGED <<key, came, log, lastId, admitted, repeats>>
           /\ Working' = {} /\ Boxed' = {} /\ InHand' = {} /\ Queued' = {}
           /\ seen' = {} /\ forgot' = forgot \cup seen
           /\ gone' = gone \cup Working \cup Boxed \cup InHand \cup Queued
           /\ mailbox' = <<>> /\ queue' = <<>>
<1>1. In(<<>>) = {} /\ Held(Nothing) = {}
  BY DEF In, Held
<1>2. /\ queue' = <<>> /\ mailbox' = <<>> /\ hand' = Nothing /\ work' = Nothing
      /\ gone' = gone \cup InFlight
      /\ seen' = {} /\ forgot' = forgot \cup seen
      /\ UNCHANGED <<key, came, log, lastId, admitted, repeats>>
  BY DEF Exit
<1> QED
  BY <1>1, <1>2 DEF Working, Boxed, InHand, Queued, InFlight

LEMMA OfferBatchMoves ==
    ASSUME PipeTypes, OfferBatch
    PROVE  \E n \in Nat :
              /\ UNCHANGED <<key, came, hand, mailbox, work, log, seen, forgot,
                             admitted, repeats>>
              /\ lastId + n <= upTo /\ lastId \in Nat /\ upTo \in Nat
              /\ (lastId + 1)..(lastId + n) \subseteq Rows
              /\ queue' = queue \o Run(lastId, n)
              /\ Queued' = Queued \cup ((lastId + 1)..(lastId + n))
              /\ gone' = gone \cup ((lastId + n + 1)..upTo)
              /\ lastId' = upTo
<1>1. PICK n \in Nat :
          /\ lastId + n <= upTo /\ lastId \in Nat /\ upTo \in Nat
          /\ (lastId + 1)..(lastId + n) \subseteq Rows
          /\ (lastId + n + 1)..upTo \subseteq Rows
          /\ Len(queue) + n <= QueueSize
          /\ queue' = queue \o Run(lastId, n)
          /\ gone' = gone \cup ((lastId + n + 1)..upTo)
  BY BatchFacts
<1>2. (lastId + 1)..(lastId + n) \subseteq Items
  BY <1>1, SignalFacts DEF Items
<1>3. Queued' = Queued \cup ((lastId + 1)..(lastId + n))
  <2>1. queue \in Seq(Items)
    BY StageTypes
  <2>2. In(queue \o Run(lastId, n)) = In(queue) \cup ((lastId + 1)..(lastId + n))
    <3>1. lastId \in Nat /\ n \in Nat
      BY <1>1
    <3> QED
      BY <1>2, <2>1, <3>1, RunHolds
  <2> QED
    BY <1>1, <2>2 DEF Queued
<1>4. /\ UNCHANGED <<key, came, hand, mailbox, work, log, seen, forgot, admitted,
                     repeats>>
      /\ lastId' = upTo
  BY DEF OfferBatch
<1> QED
  BY <1>1, <1>3, <1>4

LEMMA OfferFrameMoves ==
    ASSUME PipeTypes, NEW f \in Frames, OfferFrame(f)
    PROVE  /\ UNCHANGED <<key, lastId, hand, mailbox, work, log, seen, forgot,
                         admitted, repeats>>
           /\ f \notin came /\ came' = came \cup {f}
           /\ \/ queue' = Append(queue, f) /\ Queued' = Queued \cup {f} /\ gone' = gone
              \/ queue' = queue /\ Queued' = Queued /\ gone' = gone \cup {f}
<1>1. f \in Items /\ f # 0
  BY SignalFacts DEF Items
<1>2. In(Append(queue, f)) = Queued \cup {f}
  BY <1>1, StageTypes, InFacts DEF Queued, Held
<1> QED
  BY <1>2 DEF OfferFrame, Queued

\* The head of the queue is given up, judged a repeat, or admitted.
LEMMA TakeMoves ==
    ASSUME PipeTypes, Take
    PROVE  /\ UNCHANGED <<key, came, lastId, work, log>> /\ InHand = {} /\ queue # <<>>
           /\ queue' = Tail(queue) /\ hand = Nothing
           /\ Queued = Queued' \cup Held(Head(queue))
           /\ \/ /\ gone' = gone \cup Held(Head(queue))
                 /\ UNCHANGED <<seen, forgot, admitted, repeats, mailbox, hand>>
              \/ /\ Head(queue) \in Signals /\ Held(Head(queue)) = {Head(queue)}
                 /\ KeyIn(key, Head(queue)) \in seen
                 /\ repeats' = repeats \cup {Head(queue)}
                 /\ UNCHANGED <<seen, forgot, admitted, mailbox, hand, gone>>
              \/ /\ Head(queue) \in Signals /\ Held(Head(queue)) = {Head(queue)}
                 /\ KeyIn(key, Head(queue)) \notin seen /\ gone' = gone
                 /\ admitted' = admitted \cup {Head(queue)} /\ repeats' = repeats
                 /\ Windowed(KeyIn(key, Head(queue)))
                 /\ \/ /\ mailbox' = Append(mailbox, Head(queue)) /\ hand' = hand
                       /\ Boxed' = Boxed \cup {Head(queue)} /\ InHand' = {}
                    \/ /\ mailbox' = mailbox /\ hand' = Head(queue)
                       /\ Boxed' = Boxed /\ InHand' = {Head(queue)}
<1> DEFINE sig == Head(queue)
<1>1. /\ queue # <<>> /\ queue' = Tail(queue) /\ hand = Nothing
      /\ UNCHANGED <<key, came, lastId, work, log>>
  BY TakeCases
<1>2. Queued = Queued' \cup Held(sig)
  <2>1. In(queue) = In(Tail(queue)) \cup Held(sig)
    <3>1. queue \in Seq(Items) /\ 0 \in Items
      BY StageTypes DEF Items
    <3> QED
      BY <1>1, <3>1, InFacts
  <2> QED
    BY <1>1, <2>1 DEF Queued
<1>3. InHand = {} /\ Held(0) = {} /\ \A x \in Signals : Held(x) = {x}
  BY <1>1, SignalFacts DEF InHand, Held
<1> HIDE DEF sig
<1>4. CASE sig = Sentinel /\ UNCHANGED <<dedupVars, mailbox, hand, gone>>
  BY <1>1, <1>2, <1>3, <1>4 DEF sig
<1>5. CASE /\ sig \in Signals /\ gone' = gone \cup {sig}
           /\ UNCHANGED <<dedupVars, mailbox, hand>>
  BY <1>1, <1>2, <1>3, <1>5 DEF sig
<1>6. CASE sig \in Signals /\ Repeated(sig)
  BY <1>1, <1>2, <1>3, <1>6 DEF sig, Repeated
<1>7. CASE sig \in Signals /\ Passed(sig)
  <2>0. /\ KeyIn(key, sig) \notin seen /\ Windowed(KeyIn(key, sig))
        /\ admitted' = admitted \cup {sig} /\ Delivered(sig)
        /\ UNCHANGED <<repeats, gone>>
    BY <1>7 DEF Passed
  <2>1. In(Append(mailbox, sig)) = Boxed \cup {sig}
    <3>1. sig \in Items
      BY <1>7 DEF Items
    <3> QED
      BY <1>3, <1>7, <3>1, StageTypes, InFacts DEF Boxed
  <2>2. \/ /\ mailbox' = Append(mailbox, sig) /\ hand' = hand
           /\ Boxed' = Boxed \cup {sig} /\ InHand' = {}
        \/ /\ mailbox' = mailbox /\ hand' = sig
           /\ Boxed' = Boxed /\ InHand' = {sig}
    BY <1>1, <1>3, <1>7, <2>0, <2>1 DEF Delivered, Boxed, InHand
  <2> QED
    BY <1>1, <1>2, <1>3, <1>7, <2>0, <2>2 DEF sig
<1> QED
  BY <1>4, <1>5, <1>6, <1>7, TakeCases DEF sig

LEMMA PutMoves ==
    ASSUME PipeTypes, Put
    PROVE  /\ UNCHANGED <<key, came, lastId, queue, work, log, seen, forgot, gone,
                         admitted, repeats>>
           /\ mailbox' = Append(mailbox, hand) /\ hand \in Signals
           /\ Boxed' = Boxed \cup InHand /\ InHand' = {}
<1>1. hand \in Signals
  BY DEF Put, PipeTypes, TypeOK, HandsInv
<1>2. In(Append(mailbox, hand)) = Boxed \cup InHand
  BY <1>1, StageTypes, InFacts DEF Boxed, InHand, Items
<1>3. Held(0) = {}
  BY DEF Held
<1> QED
  BY <1>1, <1>2, <1>3 DEF Put, Boxed, InHand

LEMMA TakeItemMoves ==
    ASSUME PipeTypes, TakeItem
    PROVE  /\ UNCHANGED <<key, came, lastId, queue, hand, log, seen, forgot, gone,
                         admitted, repeats>>
           /\ mailbox # <<>> /\ mailbox' = Tail(mailbox)
           /\ Working = {} /\ Working' = Held(Head(mailbox))
           /\ Boxed = Boxed' \cup Working'
<1>1. mailbox # <<>> /\ mailbox' = Tail(mailbox) /\ work = Nothing
  BY DEF TakeItem, PipeTypes, HandsInv
<1>2. In(mailbox) = In(Tail(mailbox)) \cup Held(Head(mailbox))
  <2>1. mailbox \in Seq(Items) /\ 0 \in Items
    BY StageTypes DEF Items
  <2> QED
    BY <1>1, <2>1, InFacts
<1>3. work' = Head(mailbox)
  BY <1>1 DEF TakeItem
<1>4. Held(0) = {}
  BY DEF Held
<1> QED
  BY <1>1, <1>2, <1>3, <1>4 DEF TakeItem, Working, Boxed

LEMMA HandleMoves ==
    ASSUME PipeTypes, Handle
    PROVE  /\ UNCHANGED <<key, came, lastId, queue, hand, mailbox, seen, forgot,
                         admitted, repeats>>
           /\ work \in Signals /\ Working = {work} /\ Working' = {}
           /\ \/ log' = Append(log, work) /\ Done' = Done \cup Working /\ gone' = gone
              \/ log' = log /\ Done' = Done /\ gone' = gone \cup Working
<1>1. work \in Signals /\ Working = {work}
  BY SignalFacts DEF Handle, PipeTypes, TypeOK, HandsInv, Working, Held
<1>2. In(Append(log, work)) = Done \cup Working
  BY <1>1, StageTypes, InFacts DEF Done, Working, Items
<1>3. Held(0) = {}
  BY DEF Held
<1> QED
  BY <1>1, <1>2, <1>3 DEF Handle, Done, Working

-----------------------------------------------------------------------------
(* Nothing is lost without a reason.  Each row and each frame is offered     *)
(* once: what waits in the queue dedup has not judged, and what it takes for *)
(* a repeat has a twin it let pass.                                         *)

Offered == (1..lastId) \cup came

Distinct(s) == \A i, j \in DOMAIN s : (i < j /\ s[i] = s[j]) => s[i] = Sentinel

FreshInv ==
    /\ Distinct(queue)
    /\ Queued \cap (admitted \cup repeats) = {}
    /\ Queued \cup admitted \cup repeats \subseteq Offered

AccountInv ==
    /\ Offered \subseteq Past \cup Queued \cup gone \cup repeats
    /\ admitted \subseteq Past \cup gone
    /\ admitted \cap repeats = {}

TwinInv ==
    /\ seen \subseteq KeysIn(key, admitted)
    /\ \A sig \in repeats :
          /\ sig \in came
          /\ \E f \in admitted : f # sig /\ KeyIn(key, f) = KeyIn(key, sig)

FlowInv == PipeTypes /\ FreshInv /\ AccountInv /\ TwinInv

LEMMA DistinctAppend ==
    ASSUME NEW s \in Seq(Items), NEW e \in Items, Distinct(s), In(s) \cap Held(e) = {}
    PROVE  Distinct(Append(s, e))
<1> DEFINE t == Append(s, e)
<1>1. /\ DOMAIN t = 1..(Len(s) + 1) /\ DOMAIN s = 1..Len(s) /\ Len(s) \in Nat
      /\ t[Len(s) + 1] = e /\ \A i \in 1..Len(s) : t[i] = s[i]
  OBVIOUS
<1> HIDE DEF t
<1>2. ASSUME NEW i \in DOMAIN t, NEW j \in DOMAIN t, i < j
      PROVE  /\ i \in DOMAIN s /\ t[i] = s[i]
             /\ (j \in DOMAIN s /\ t[j] = s[j]) \/ t[j] = e
  BY <1>1, <1>2
<1>3. \A i \in DOMAIN s : s[i] # 0 => s[i] \in In(s)
  BY DEF In
<1>4. e # 0 => e \in Held(e)
  BY DEF Held
<1>5. Distinct(t)
  BY <1>2, <1>3, <1>4 DEF Distinct
<1> QED
  BY <1>5 DEF t

LEMMA DistinctTail ==
    ASSUME NEW s \in Seq(Items), s # <<>>, Distinct(s)
    PROVE  Distinct(Tail(s)) /\ Held(Head(s)) \cap In(Tail(s)) = {}
<1> DEFINE t == Tail(s)
<1>1. /\ Len(s) \in Nat \ {0} /\ DOMAIN s = 1..Len(s) /\ Head(s) = s[1]
      /\ DOMAIN t = 1..(Len(s) - 1)
      /\ \A i \in 1..(Len(s) - 1) : t[i] = s[i + 1]
  OBVIOUS
<1> HIDE DEF t
<1>2. /\ \A i \in DOMAIN t : i + 1 \in DOMAIN s /\ t[i] = s[i + 1] /\ 1 < i + 1
      /\ 1 \in DOMAIN s
  BY <1>1
<1>3. \A i, j \in DOMAIN t : i < j => i + 1 < j + 1
  BY <1>1
<1>4. \A x \in In(t) : \E i \in DOMAIN t : x = t[i]
  BY DEF In
<1>5. \A x \in Held(Head(s)) : x = s[1] /\ x # 0
  BY <1>1 DEF Held
<1>6. Distinct(t)
  BY <1>2, <1>3 DEF Distinct
<1>7. Held(Head(s)) \cap In(t) = {}
  BY <1>2, <1>4, <1>5 DEF Distinct
<1> QED
  BY <1>6, <1>7 DEF t

LEMMA DistinctRun ==
    ASSUME NEW s \in Seq(Items), NEW from \in Nat, NEW n \in Nat,
           (from + 1)..(from + n) \subseteq Rows,
           Distinct(s), In(s) \cap ((from + 1)..(from + n)) = {}
    PROVE  Distinct(s \o Run(from, n))
<1> DEFINE t == s \o Run(from, n)
<1>1. (from + 1)..(from + n) \subseteq Items
  BY SignalFacts DEF Items
<1>2. /\ t \in Seq(Items) /\ Len(t) = Len(s) + n /\ Len(s) \in Nat
      /\ \A i \in 1..Len(s) : t[i] = s[i]
      /\ \A i \in (Len(s) + 1)..(Len(s) + n) : t[i] = from + (i - Len(s))
  BY <1>1, RunFacts
<1> HIDE DEF t
<1>3. DOMAIN t = 1..(Len(s) + n) /\ DOMAIN s = 1..Len(s)
  BY <1>2
<1>4. \A i \in DOMAIN s : s[i] # 0 => s[i] \in In(s)
  BY DEF In
<1> SUFFICES ASSUME NEW i \in DOMAIN t, NEW j \in DOMAIN t, i < j, t[i] = t[j]
             PROVE  t[i] = 0
  BY DEF Distinct, t
<1>5. CASE j <= Len(s)
  BY <1>2, <1>3, <1>5 DEF Distinct
<1>6. CASE i > Len(s)
  <2>1. /\ i \in (Len(s) + 1)..(Len(s) + n) /\ j \in (Len(s) + 1)..(Len(s) + n)
        /\ i \in Nat /\ j \in Nat
    BY <1>2, <1>3, <1>6
  <2>2. t[i] = from + (i - Len(s)) /\ t[j] = from + (j - Len(s))
    BY <1>2, <2>1
  <2>3. from + (i - Len(s)) = from + (j - Len(s))
    BY <2>2
  <2>4. i = j
    BY <1>2, <2>1, <2>3
  <2> QED
    BY <2>1, <2>4
<1>7. CASE i <= Len(s) /\ j > Len(s)
  <2>1. /\ t[i] = s[i] /\ i \in DOMAIN s /\ t[j] = from + (j - Len(s))
        /\ t[j] \in (from + 1)..(from + n)
    BY <1>2, <1>3, <1>7, SMTT(30)
  <2> QED
    BY <1>4, <2>1
<1> QED
  BY <1>2, <1>3, <1>5, <1>6, <1>7

\* A step on which dedup judges nothing, and nothing leaves the way but into gone.
LEMMA Unjudged ==
    ASSUME FlowInv, UNCHANGED <<key, admitted, repeats>>, seen' \subseteq seen,
           came \subseteq came', Distinct(queue'),
           gone \subseteq gone', Past \subseteq Past' \cup gone',
           Queued \subseteq Past' \cup Queued' \cup gone',
           Offered \subseteq Offered',
           Offered' \subseteq Offered \cup Queued' \cup gone',
           Queued' \subseteq Queued \cup (Offered' \ Offered)
    PROVE  FreshInv' /\ AccountInv' /\ TwinInv'
<1>1. FreshInv /\ AccountInv /\ TwinInv
  BY DEF FlowInv
<1>2. /\ Queued' \cap (admitted' \cup repeats') = {}
      /\ Queued' \cup admitted' \cup repeats' \subseteq Offered'
  BY <1>1 DEF FreshInv
<1>3. FreshInv'
  BY <1>2 DEF FreshInv
<1>4. AccountInv'
  BY <1>1 DEF AccountInv
<1>5. TwinInv'
  BY <1>1 DEF TwinInv
<1> QED
  BY <1>3, <1>4, <1>5

LEMMA TakeFlows ==
    ASSUME FlowInv, Take
    PROVE  FreshInv' /\ AccountInv' /\ TwinInv'
<1> DEFINE sig == Head(queue)
<1>1. /\ PipeTypes /\ Distinct(queue)
      /\ Queued \cap (admitted \cup repeats) = {}
      /\ Queued \cup admitted \cup repeats \subseteq Offered
      /\ AccountInv /\ TwinInv
  BY DEF FlowInv, FreshInv
<1>2. /\ UNCHANGED <<key, came, lastId, work, log>> /\ InHand = {} /\ queue # <<>>
      /\ queue' = Tail(queue) /\ Queued = Queued' \cup Held(sig)
  BY <1>1, TakeMoves
<1>3. Distinct(queue') /\ Held(sig) \cap Queued' = {}
  <2>1. queue \in Seq(Items)
    BY <1>1, StageTypes
  <2> QED
    BY <1>1, <1>2, <2>1, DistinctTail DEF Queued
<1>4. Offered' = Offered /\ Done' = Done /\ Working' = Working
  BY <1>2 DEF Offered, Done, Working
<1>5. CASE /\ gone' = gone \cup Held(sig)
           /\ UNCHANGED <<seen, forgot, admitted, repeats, mailbox, hand>>
  <2>1. Past' = Past
    BY <1>4, <1>5 DEF Past, Boxed, InHand
  <2> HIDE DEF sig
  <2> QED
    BY <1>2, <1>3, <1>4, <1>5, <2>1, Unjudged
<1>6. CASE /\ sig \in Signals /\ Held(sig) = {sig} /\ KeyIn(key, sig) \in seen
           /\ repeats' = repeats \cup {sig}
           /\ UNCHANGED <<seen, forgot, admitted, mailbox, hand, gone>>
  <2> HIDE DEF sig
  <2>1. Past' = Past
    BY <1>4, <1>6 DEF Past, Boxed, InHand
  <2>2. sig \in Queued /\ sig \notin admitted /\ sig \in Offered /\ sig \notin Queued'
    BY <1>1, <1>2, <1>3, <1>6
  <2>3. FreshInv'
    BY <1>1, <1>2, <1>3, <1>4, <1>6, <2>2 DEF FreshInv
  <2>4. AccountInv'
    BY <1>1, <1>2, <1>4, <1>6, <2>1, <2>2 DEF AccountInv
  <2>5. PICK f \in admitted : KeyIn(key, f) = KeyIn(key, sig)
    BY <1>1, <1>6 DEF TwinInv, KeysIn
  <2>6. f # sig /\ f \in Signals
    BY <1>1, <2>2 DEF PipeTypes, TypeOK
  <2>7. sig \in came
    <3>1. ASSUME sig \in Rows PROVE FALSE
      <4>1. KeyIn(key, sig) = sig
        BY <1>1, <3>1, KeyFacts DEF PipeTypes
      <4>2. f \notin Frames
        BY <1>1, <2>5, <3>1, <4>1, KeyFacts DEF PipeTypes
      <4>3. KeyIn(key, f) = f
        BY <4>2 DEF KeyIn
      <4> QED
        BY <2>5, <2>6, <4>1, <4>3
    <3>2. 1..lastId \subseteq Rows
      BY <1>1, PipelineAssumption DEF PipeTypes, TypeOK, Rows
    <3> QED
      BY <2>2, <3>1, <3>2 DEF Offered
  <2>8. TwinInv'
    BY <1>1, <1>2, <1>6, <2>5, <2>6, <2>7 DEF TwinInv
  <2> QED
    BY <2>3, <2>4, <2>8
<1>7. CASE /\ sig \in Signals /\ Held(sig) = {sig} /\ gone' = gone
           /\ admitted' = admitted \cup {sig} /\ repeats' = repeats
           /\ Windowed(KeyIn(key, sig))
           /\ Boxed' \cup InHand' = Boxed \cup {sig}
  <2> HIDE DEF sig
  <2>1. Past' = Past \cup {sig}
    BY <1>2, <1>4, <1>7 DEF Past
  <2>2. /\ sig \in Queued /\ sig \notin admitted /\ sig \notin repeats
        /\ sig \in Offered /\ sig \notin Queued'
    BY <1>1, <1>2, <1>3, <1>7
  <2>3. FreshInv'
    BY <1>1, <1>2, <1>3, <1>4, <1>7, <2>2 DEF FreshInv
  <2>4. AccountInv'
    BY <1>1, <1>2, <1>4, <1>7, <2>1, <2>2 DEF AccountInv
  <2>5. seen' \subseteq KeysIn(key', admitted')
    BY <1>1, <1>2, <1>7 DEF TwinInv, KeysIn, Windowed
  <2>6. TwinInv'
    BY <1>1, <1>2, <1>7, <2>5 DEF TwinInv
  <2> QED
    BY <2>3, <2>4, <2>6
<1>8. \/ /\ gone' = gone \cup Held(sig)
         /\ UNCHANGED <<seen, forgot, admitted, repeats, mailbox, hand>>
      \/ /\ sig \in Signals /\ Held(sig) = {sig} /\ KeyIn(key, sig) \in seen
         /\ repeats' = repeats \cup {sig}
         /\ UNCHANGED <<seen, forgot, admitted, mailbox, hand, gone>>
      \/ /\ sig \in Signals /\ Held(sig) = {sig} /\ gone' = gone
         /\ admitted' = admitted \cup {sig} /\ repeats' = repeats
         /\ Windowed(KeyIn(key, sig))
         /\ \/ Boxed' = Boxed \cup {sig} /\ InHand' = {}
            \/ Boxed' = Boxed /\ InHand' = {sig}
  BY <1>1, TakeMoves
<1> HIDE DEF sig
<1> QED
  BY <1>5, <1>6, <1>7, <1>8

LEMMA FlowStep ==
    ASSUME FlowInv, [Next]_vars
    PROVE  FreshInv' /\ AccountInv' /\ TwinInv'
<1>0. PipeTypes /\ Distinct(queue) /\ Queued \subseteq Offered
  BY DEF FlowInv, FreshInv
<1>1. CASE Boot
  <2>1. /\ UNCHANGED <<key, came, queue, hand, mailbox, work, log, seen, admitted,
                       repeats>>
        /\ lastId' = rows /\ lastId <= rows /\ lastId \in Nat /\ rows \in Nat
        /\ gone' = gone \cup ((lastId + 1)..rows)
    BY <1>0, <1>1, BootMoves
  <2>2. Past' = Past /\ Queued' = Queued
    BY <2>1 DEF Past, Done, Working, Boxed, InHand, Queued
  <2>3. 1..rows = (1..lastId) \cup ((lastId + 1)..rows)
    BY <2>1
  <2>4. Offered \subseteq Offered' /\ Offered' \subseteq Offered \cup gone'
    BY <2>1, <2>3 DEF Offered
  <2> QED
    BY <1>0, <2>1, <2>2, <2>4, Unjudged
<1>2. CASE Exit
  <2>1. /\ Past' = Done /\ Queued' = {} /\ seen' = {} /\ queue' = <<>>
        /\ gone' = gone \cup Working \cup Boxed \cup InHand \cup Queued
        /\ Offered' = Offered /\ UNCHANGED <<key, came, admitted, repeats>>
    BY <1>2, ExitMoves DEF Past, Done, Offered
  <2>2. Past \subseteq Past' \cup gone' /\ Distinct(queue')
    BY <2>1 DEF Past, Distinct
  <2> QED
    BY <2>1, <2>2, Unjudged
<1>3. CASE OfferBatch
  <2>1. PICK n \in Nat :
          /\ UNCHANGED <<key, came, hand, mailbox, work, log, seen, forgot, admitted,
                         repeats>>
          /\ lastId + n <= upTo /\ lastId \in Nat /\ upTo \in Nat
          /\ (lastId + 1)..(lastId + n) \subseteq Rows
          /\ queue' = queue \o Run(lastId, n)
          /\ Queued' = Queued \cup ((lastId + 1)..(lastId + n))
          /\ gone' = gone \cup ((lastId + n + 1)..upTo)
          /\ lastId' = upTo
    BY <1>0, <1>3, OfferBatchMoves
  <2>2. Past' = Past
    BY <2>1 DEF Past, Done, Working, Boxed, InHand
  <2> DEFINE new == (lastId + 1)..(lastId + n)
  <2>3. 1..upTo = (1..lastId) \cup new \cup ((lastId + n + 1)..upTo)
    BY <2>1
  <2>4. new \cap Offered = {}
    <3>1. new \cap (1..lastId) = {}
      BY <2>1
    <3> QED
      BY <1>0, <2>1, <3>1, SignalFacts DEF Offered, PipeTypes, TypeOK
  <2>5. Distinct(queue')
    <3>1. queue \in Seq(Items) /\ In(queue) \cap new = {}
      BY <1>0, <2>4, StageTypes DEF Queued
    <3> QED
      BY <1>0, <2>1, <3>1, DistinctRun
  <2> HIDE DEF new
  <2>6. Queued' = Queued \cup new
    BY <2>1 DEF new
  <2>7. Offered' = Offered \cup new \cup ((lastId + n + 1)..upTo)
    BY <2>1, <2>3 DEF Offered
  <2> QED
    BY <2>1, <2>2, <2>4, <2>5, <2>6, <2>7, Unjudged
<1>4. ASSUME NEW f \in Frames, OfferFrame(f)
      PROVE  FreshInv' /\ AccountInv' /\ TwinInv'
  <2>1. /\ UNCHANGED <<key, lastId, hand, mailbox, work, log, seen, admitted, repeats>>
        /\ f \notin came /\ came' = came \cup {f}
        /\ \/ queue' = Append(queue, f) /\ Queued' = Queued \cup {f} /\ gone' = gone
           \/ queue' = queue /\ Queued' = Queued /\ gone' = gone \cup {f}
    BY <1>0, <1>4, OfferFrameMoves
  <2>2. Past' = Past
    BY <2>1 DEF Past, Done, Working, Boxed, InHand
  <2>3. f \notin Offered /\ Offered' = Offered \cup {f}
    <3>1. 1..lastId \subseteq Rows
      BY <1>0, PipelineAssumption DEF PipeTypes, TypeOK, Rows
    <3> QED
      BY <2>1, <3>1, SignalFacts DEF Offered
  <2>4. Distinct(queue')
    <3>1. queue \in Seq(Items) /\ f \in Items /\ In(queue) \cap Held(f) = {}
      BY <1>0, <2>3, StageTypes, SignalFacts DEF Queued, Held, Items
    <3> QED
      BY <1>0, <2>1, <3>1, DistinctAppend
  <2> QED
    BY <2>1, <2>2, <2>3, <2>4, Unjudged
<1>5. CASE Take
  BY <1>5, TakeFlows
<1>6. CASE Put
  <2>1. /\ UNCHANGED <<key, came, lastId, queue, work, log, seen, gone, admitted,
                       repeats>>
        /\ Boxed' = Boxed \cup InHand /\ InHand' = {}
    BY <1>0, <1>6, PutMoves
  <2>2. Past' = Past /\ Queued' = Queued /\ Offered' = Offered
    BY <2>1 DEF Past, Done, Working, Queued, Offered
  <2> QED
    BY <1>0, <2>1, <2>2, Unjudged
<1>7. CASE TakeItem
  <2>1. /\ UNCHANGED <<key, came, lastId, queue, hand, log, seen, gone, admitted,
                       repeats>>
        /\ Working = {} /\ Boxed = Boxed' \cup Working'
    BY <1>0, <1>7, TakeItemMoves
  <2>2. Past' = Past /\ Queued' = Queued /\ Offered' = Offered
    BY <2>1 DEF Past, Done, InHand, Queued, Offered
  <2> QED
    BY <1>0, <2>1, <2>2, Unjudged
<1>8. CASE Handle
  <2>1. /\ UNCHANGED <<key, came, lastId, queue, hand, mailbox, seen, admitted,
                       repeats>>
        /\ Working' = {}
        /\ \/ Done' = Done \cup Working /\ gone' = gone
           \/ Done' = Done /\ gone' = gone \cup Working
    BY <1>0, <1>8, HandleMoves
  <2>2. /\ Past \subseteq Past' \cup gone' /\ gone \subseteq gone'
        /\ Queued' = Queued /\ Offered' = Offered
    BY <2>1 DEF Past, Boxed, InHand, Queued, Offered
  <2> QED
    BY <1>0, <2>1, <2>2, Unjudged
<1>9. CASE Quiet
  <2>1. StagesKept
    BY <1>0, <1>9, QuietMovesNone
  <2>2. /\ Past' = Past /\ Queued' = Queued /\ Offered' = Offered
        /\ UNCHANGED <<seen, gone, key, came, admitted, repeats>>
    BY <2>1 DEF StagesKept, Past, Done, Working, InHand, Offered
  <2>3. Distinct(queue')
    <3>1. queue \in Seq(Items) /\ Sentinel \in Items /\ In(queue) \cap Held(Sentinel) = {}
      BY <1>0, StageTypes DEF Items, Held
    <3>2. Distinct(Append(queue, Sentinel))
      BY <1>0, <3>1, DistinctAppend
    <3> QED
      BY <1>0, <2>1, <3>2 DEF StagesKept
  <2> QED
    BY <2>2, <2>3, Unjudged
<1> QED
  BY <1>1, <1>2, <1>3, <1>4, <1>5, <1>6, <1>7, <1>8, <1>9, NextStep

\* Every row the tailer has passed and every frame that came is in the log, on
\* its way, given up for a reason the code knows of, or taken by dedup for
\* another frame with its edge_seq that was let pass: no interleaving of tailer,
\* ingest, actor and shutdown and no death of the process loses one otherwise,
\* and dedup never takes a row (machine_data_tailer.py, ingest.py, bootstrap.py).
THEOREM SignalsAccounted == Spec => []EverySignalIsAccountedFor
<1>1. ASSUME Init PROVE FlowInv
  <2>1. /\ Offered = {} /\ seen = {} /\ admitted = {} /\ repeats = {} /\ queue = <<>>
    BY <1>1 DEF Init, Offered
  <2>2. Queued = {} /\ Distinct(queue)
    BY <2>1 DEF Queued, In, Distinct
  <2>3. FreshInv /\ AccountInv /\ TwinInv
    BY <2>1, <2>2 DEF FreshInv, AccountInv, TwinInv
  <2> QED
    BY <1>1, <2>3, PipeStarts DEF FlowInv
<1>2. FlowInv /\ [Next]_vars => FlowInv'
  BY FlowStep, PipeTypesStep DEF FlowInv
<1>3. FlowInv => EverySignalIsAccountedFor
  <2> SUFFICES ASSUME FlowInv PROVE EverySignalIsAccountedFor
    OBVIOUS
  <2>1. \A sig : KeyOf(sig) = KeyIn(key, sig)
    BY KeyFacts DEF FlowInv, PipeTypes
  <2>2. \A sig \in (1..lastId) \cup came :
           sig \in In(log) \cup InFlight \cup gone \cup repeats
    BY DEF FlowInv, AccountInv, Offered, Past, InFlight, Done, Working, Boxed, InHand,
           Queued
  <2>3. \A sig \in repeats :
           sig \in came /\ \E f \in admitted : f # sig /\ KeyOf(f) = KeyOf(sig)
    BY <2>1 DEF FlowInv, TwinInv
  <2>4. /\ admitted \subseteq In(log) \cup InFlight \cup gone
        /\ admitted \cap repeats = {}
    BY DEF FlowInv, AccountInv, Past, InFlight, Done, Working, Boxed, InHand
  <2> QED
    BY <2>2, <2>3, <2>4 DEF EverySignalIsAccountedFor
<1> QED
  BY <1>1, <1>2, <1>3, PTL DEF Spec

-----------------------------------------------------------------------------
(* Rows keep their order on the whole way, and what is past the dedup is     *)
(* there once unless its key was forgotten.                                 *)

Below(S, T) == \A x \in S \cap Rows, y \in T \cap Rows : x < y

Sorted(s) ==
    \A i, j \in DOMAIN s : (i < j /\ s[i] \in Rows /\ s[j] \in Rows) => s[i] < s[j]

\* Two signals with one key only where the key is one of F.
Single(k, s, F) ==
    \A i, j \in DOMAIN s :
        (i < j /\ s[i] # Sentinel /\ s[j] # Sentinel /\ KeyIn(k, s[i]) = KeyIn(k, s[j]))
            => KeyIn(k, s[i]) \in F

Apart(k, S, T, F) == KeysIn(k, S) \cap KeysIn(k, T) \subseteq F

LEMMA TidyAppend ==
    ASSUME NEW s \in Seq(Items), NEW e \in Items, NEW F, NEW k
    PROVE  /\ Sorted(s) /\ Below(In(s), Held(e)) => Sorted(Append(s, e))
           /\ Single(k, s, F) /\ Apart(k, In(s), Held(e), F)
                => Single(k, Append(s, e), F)
<1> DEFINE t == Append(s, e)
<1>1. /\ DOMAIN t = 1..(Len(s) + 1) /\ DOMAIN s = 1..Len(s) /\ Len(s) \in Nat
      /\ t[Len(s) + 1] = e /\ \A i \in 1..Len(s) : t[i] = s[i]
  OBVIOUS
<1> HIDE DEF t
<1>2. ASSUME NEW i \in DOMAIN t, NEW j \in DOMAIN t, i < j
      PROVE  /\ i \in DOMAIN s /\ t[i] = s[i]
             /\ (j \in DOMAIN s /\ t[j] = s[j]) \/ t[j] = e
  BY <1>1, <1>2
<1>3. \A i \in DOMAIN s : s[i] # 0 => s[i] \in In(s)
  BY DEF In
<1>4. e # 0 => e \in Held(e)
  BY DEF Held
<1>5. 0 \notin Rows
  BY SignalFacts
<1>6. ASSUME Sorted(s), Below(In(s), Held(e)) PROVE Sorted(t)
  <2> SUFFICES ASSUME NEW i \in DOMAIN t, NEW j \in DOMAIN t, i < j,
                      t[i] \in Rows, t[j] \in Rows
               PROVE  t[i] < t[j]
    BY DEF Sorted
  <2> QED
    BY <1>2, <1>3, <1>4, <1>5, <1>6 DEF Sorted, Below
<1>7. ASSUME Single(k, s, F), Apart(k, In(s), Held(e), F) PROVE Single(k, t, F)
  <2> SUFFICES ASSUME NEW i \in DOMAIN t, NEW j \in DOMAIN t, i < j,
                      t[i] # 0, t[j] # 0, KeyIn(k, t[i]) = KeyIn(k, t[j])
               PROVE  KeyIn(k, t[i]) \in F
    BY DEF Single
  <2>1. i \in DOMAIN s /\ t[i] = s[i] /\ s[i] \in In(s)
    BY <1>2, <1>3
  <2>2. CASE j \in DOMAIN s /\ t[j] = s[j]
    BY <1>7, <2>1, <2>2 DEF Single
  <2>3. CASE t[j] = e
    BY <1>4, <1>7, <2>1, <2>3 DEF Apart, KeysIn
  <2> QED
    BY <1>2, <2>2, <2>3
<1> QED
  BY <1>6, <1>7 DEF t

LEMMA TidyTail ==
    ASSUME NEW s \in Seq(Items), s # <<>>, NEW F, NEW k
    PROVE  /\ Sorted(s) => Sorted(Tail(s)) /\ Below(Held(Head(s)), In(Tail(s)))
           /\ Single(k, s, F) => Single(k, Tail(s), F)
                                 /\ Apart(k, Held(Head(s)), In(Tail(s)), F)
<1> DEFINE t == Tail(s)
<1>1. /\ Len(s) \in Nat \ {0} /\ DOMAIN s = 1..Len(s) /\ Head(s) = s[1]
      /\ DOMAIN t = 1..(Len(s) - 1)
      /\ \A i \in 1..(Len(s) - 1) : t[i] = s[i + 1]
  OBVIOUS
<1> HIDE DEF t
<1>2. \A i \in DOMAIN t : i + 1 \in DOMAIN s /\ t[i] = s[i + 1] /\ 1 < i + 1
  BY <1>1
<1>3. 1 \in DOMAIN s
  BY <1>1
<1>4. \A i, j \in DOMAIN t : i < j => i + 1 < j + 1
  BY <1>1
<1>5. \A x \in In(t) : \E i \in DOMAIN t : x = t[i]
  BY DEF In
<1>6. \A x \in Held(Head(s)) : x = s[1] /\ x # 0
  BY <1>1 DEF Held
<1>7. ASSUME Sorted(s) PROVE Sorted(t) /\ Below(Held(Head(s)), In(t))
  <2>1. Sorted(t)
    BY <1>2, <1>4, <1>7 DEF Sorted
  <2>2. Below(Held(Head(s)), In(t))
    BY <1>2, <1>3, <1>5, <1>6, <1>7 DEF Sorted, Below
  <2> QED
    BY <2>1, <2>2
<1>8. ASSUME Single(k, s, F) PROVE Single(k, t, F) /\ Apart(k, Held(Head(s)), In(t), F)
  <2>1. Single(k, t, F)
    BY <1>2, <1>4, <1>8 DEF Single
  <2>2. Apart(k, Held(Head(s)), In(t), F)
    <3> SUFFICES ASSUME NEW x \in Held(Head(s)), NEW y \in In(t),
                        KeyIn(k, x) = KeyIn(k, y)
                 PROVE  KeyIn(k, x) \in F
      BY DEF Apart, KeysIn
    <3>1. PICK i \in DOMAIN t : y = t[i]
      BY <1>5
    <3>2. y # 0
      BY DEF In
    <3> QED
      BY <1>2, <1>3, <1>6, <1>8, <3>1, <3>2 DEF Single
  <2> QED
    BY <2>1, <2>2
<1> QED
  BY <1>7, <1>8 DEF t

LEMMA TidyRun ==
    ASSUME NEW s \in Seq(Items), NEW from \in Nat, NEW n \in Nat,
           (from + 1)..(from + n) \subseteq Rows,
           Sorted(s), Below(In(s), (from + 1)..(from + n))
    PROVE  Sorted(s \o Run(from, n))
<1> DEFINE t == s \o Run(from, n)
<1>1. (from + 1)..(from + n) \subseteq Items
  BY SignalFacts DEF Items
<1>2. /\ t \in Seq(Items) /\ Len(t) = Len(s) + n /\ Len(s) \in Nat
      /\ \A i \in 1..Len(s) : t[i] = s[i]
      /\ \A i \in (Len(s) + 1)..(Len(s) + n) : t[i] = from + (i - Len(s))
  BY <1>1, RunFacts
<1> HIDE DEF t
<1>3. DOMAIN t = 1..(Len(s) + n) /\ DOMAIN s = 1..Len(s)
  BY <1>2
<1>4. \A i \in DOMAIN s : s[i] # 0 => s[i] \in In(s)
  BY DEF In
<1> SUFFICES ASSUME NEW i \in DOMAIN t, NEW j \in DOMAIN t, i < j,
                    t[i] \in Rows, t[j] \in Rows
             PROVE  t[i] < t[j]
  BY DEF Sorted, t
<1>5. CASE j <= Len(s)
  BY <1>2, <1>3, <1>5 DEF Sorted
<1>6. CASE i > Len(s)
  <2>0. i \in (Len(s) + 1)..(Len(s) + n) /\ j \in (Len(s) + 1)..(Len(s) + n)
    BY <1>2, <1>3, <1>6
  <2>1. t[i] = from + (i - Len(s)) /\ t[j] = from + (j - Len(s))
    BY <1>2, <2>0
  <2> QED
    BY <1>2, <1>3, <2>1
<1>7. CASE i <= Len(s) /\ j > Len(s)
  <2>1. /\ t[i] = s[i] /\ i \in DOMAIN s /\ t[j] = from + (j - Len(s))
        /\ t[j] \in (from + 1)..(from + n)
    BY <1>2, <1>3, <1>7, SMTT(30)
  <2>2. t[i] \in In(s)
    BY <1>4, <2>1, SignalFacts
  <2> QED
    BY <2>1, <2>2 DEF Below
<1> QED
  BY <1>2, <1>3, <1>5, <1>6, <1>7

OrderInv ==
    /\ Sorted(log) /\ Sorted(mailbox) /\ Sorted(queue)
    /\ Below(Done, Working \cup Boxed \cup InHand \cup Queued)
    /\ Below(Working, Boxed \cup InHand \cup Queued)
    /\ Below(Boxed, InHand \cup Queued)
    /\ Below(InHand, Queued)
    /\ (Past \cup Queued) \cap Rows \subseteq 1..lastId

OnceInv ==
    /\ Single(key, log, forgot) /\ Single(key, mailbox, forgot)
    /\ Apart(key, Done, Working \cup Boxed \cup InHand, forgot)
    /\ Apart(key, Working, Boxed \cup InHand, forgot)
    /\ Apart(key, Boxed, InHand, forgot)
    /\ KeysIn(key, Past) \subseteq seen \cup forgot

TidyInv == PipeTypes /\ OrderInv /\ OnceInv

LEMMA SingleMore ==
    ASSUME NEW k, NEW s, NEW F, NEW G, F \subseteq G, Single(k, s, F)
    PROVE  Single(k, s, G)
BY DEF Single

LEMMA TidyEmpty == Sorted(<<>>) /\ \A F, k : Single(k, <<>>, F)
BY DEF Sorted, Single

\* A step that moves nothing: a sentinel more makes no difference.
LEMMA TidyKept ==
    ASSUME TidyInv, StagesKept
    PROVE  OrderInv' /\ OnceInv'
<1>1. Held(Sentinel) = {} /\ Sentinel \in Items
  BY DEF Held, Items
<1>2. \A s \in Seq(Items) : /\ Sorted(s) => Sorted(Append(s, Sentinel))
                            /\ Single(key, s, forgot) => Single(key, Append(s, Sentinel), forgot)
  BY <1>1, TidyAppend DEF Below, Apart, KeysIn
<1>3. Sorted(mailbox') /\ Sorted(queue') /\ Single(key, mailbox', forgot)
  BY <1>2, StageTypes DEF TidyInv, OrderInv, OnceInv, StagesKept
<1>4. /\ Done' = Done /\ Working' = Working /\ Boxed' = Boxed /\ InHand' = InHand
      /\ Queued' = Queued /\ Past' = Past /\ log' = log /\ seen' = seen
      /\ forgot' = forgot /\ lastId' = lastId /\ key' = key
  BY DEF StagesKept, Past, Done, Working, InHand
<1>5. OrderInv'
  BY <1>3, <1>4 DEF TidyInv, OrderInv
<1>6. OnceInv'
  BY <1>3, <1>4 DEF TidyInv, OnceInv
<1> QED
  BY <1>5, <1>6

LEMMA BootTidy ==
    ASSUME TidyInv, Boot
    PROVE  OrderInv' /\ OnceInv'
<1>1. /\ UNCHANGED <<key, queue, hand, mailbox, work, log, seen, forgot>>
      /\ lastId' = rows /\ lastId <= rows /\ lastId \in Nat /\ rows \in Nat
  BY BootMoves DEF TidyInv
<1>2. /\ Done' = Done /\ Working' = Working /\ Boxed' = Boxed /\ InHand' = InHand
      /\ Queued' = Queued /\ Past' = Past
  BY <1>1 DEF Past, Done, Working, Boxed, InHand, Queued
<1>3. 1..lastId \subseteq 1..lastId'
  BY <1>1
<1>4. OrderInv'
  BY <1>1, <1>2, <1>3 DEF TidyInv, OrderInv
<1>5. OnceInv'
  BY <1>1, <1>2 DEF TidyInv, OnceInv
<1> QED
  BY <1>4, <1>5

LEMMA ExitTidy ==
    ASSUME TidyInv, Exit
    PROVE  OrderInv' /\ OnceInv'
<1>1. /\ UNCHANGED <<key, log, lastId>>
      /\ Working' = {} /\ Boxed' = {} /\ InHand' = {} /\ Queued' = {}
      /\ seen' = {} /\ forgot' = forgot \cup seen
      /\ mailbox' = <<>> /\ queue' = <<>>
  BY ExitMoves
<1>2. Done' = Done /\ Past' = Done /\ Done \subseteq Past
  BY <1>1 DEF Past, Done
<1>3. Sorted(mailbox') /\ Sorted(queue') /\ Single(key, mailbox', forgot')
  BY <1>1, TidyEmpty
<1>4. Single(key, log', forgot')
  BY <1>1, SingleMore DEF TidyInv, OnceInv
<1>5. OrderInv'
  BY <1>1, <1>2, <1>3 DEF TidyInv, OrderInv, Below
<1>6. OnceInv'
  BY <1>1, <1>2, <1>3, <1>4 DEF TidyInv, OnceInv, Apart, KeysIn
<1> QED
  BY <1>5, <1>6

LEMMA OfferBatchTidy ==
    ASSUME TidyInv, OfferBatch
    PROVE  OrderInv' /\ OnceInv'
<1>1. PICK n \in Nat :
          /\ UNCHANGED <<key, hand, mailbox, work, log, seen, forgot>>
          /\ lastId + n <= upTo /\ lastId \in Nat /\ upTo \in Nat
          /\ (lastId + 1)..(lastId + n) \subseteq Rows
          /\ queue' = queue \o Run(lastId, n)
          /\ Queued' = Queued \cup ((lastId + 1)..(lastId + n))
          /\ lastId' = upTo
  BY OfferBatchMoves DEF TidyInv
<1> DEFINE new == (lastId + 1)..(lastId + n)
<1>2. /\ Done' = Done /\ Working' = Working /\ Boxed' = Boxed /\ InHand' = InHand
      /\ Past' = Past
  BY <1>1 DEF Past, Done, Working, Boxed, InHand
<1>3. /\ Below(1..lastId, new) /\ 1..lastId \subseteq 1..lastId'
      /\ new \subseteq 1..lastId'
  BY <1>1 DEF Below
<1>4. Below(Past \cup Queued, new)
  BY <1>3 DEF TidyInv, OrderInv, Below
<1>5. Sorted(queue')
  <2>1. Below(In(queue), new) /\ queue \in Seq(Items) /\ Sorted(queue)
    BY <1>4, StageTypes DEF Queued, Below, TidyInv, OrderInv
  <2> QED
    BY <1>1, <2>1, TidyRun
<1> HIDE DEF new
<1>6. Queued' = Queued \cup new
  BY <1>1 DEF new
<1>7. /\ Below(Done', Working' \cup Boxed' \cup InHand' \cup Queued')
      /\ Below(Working', Boxed' \cup InHand' \cup Queued')
      /\ Below(Boxed', InHand' \cup Queued')
      /\ Below(InHand', Queued')
  BY <1>2, <1>4, <1>6 DEF TidyInv, OrderInv, Below, Past
<1>8. OrderInv'
  BY <1>1, <1>2, <1>3, <1>5, <1>6, <1>7 DEF TidyInv, OrderInv
<1>9. OnceInv'
  BY <1>1, <1>2 DEF TidyInv, OnceInv
<1> QED
  BY <1>8, <1>9

LEMMA OfferFrameTidy ==
    ASSUME TidyInv, NEW f \in Frames, OfferFrame(f)
    PROVE  OrderInv' /\ OnceInv'
<1>1. /\ UNCHANGED <<key, lastId, hand, mailbox, work, log, seen, forgot>>
      /\ \/ queue' = Append(queue, f) /\ Queued' = Queued \cup {f}
         \/ queue' = queue /\ Queued' = Queued
  BY OfferFrameMoves DEF TidyInv
<1>2. f \notin Rows /\ f \in Items
  BY SignalFacts DEF Items
<1>3. Sorted(queue')
  <2>1. Below(In(queue), Held(f))
    BY <1>2 DEF Below, Held
  <2> QED
    BY <1>1, <1>2, <2>1, StageTypes, TidyAppend DEF TidyInv, OrderInv
<1>4. /\ Done' = Done /\ Working' = Working /\ Boxed' = Boxed /\ InHand' = InHand
      /\ Past' = Past
  BY <1>1 DEF Past, Done, Working, Boxed, InHand
<1>5. /\ Below(Done', Working' \cup Boxed' \cup InHand' \cup Queued')
      /\ Below(Working', Boxed' \cup InHand' \cup Queued')
      /\ Below(Boxed', InHand' \cup Queued')
      /\ Below(InHand', Queued')
      /\ (Past' \cup Queued') \cap Rows \subseteq 1..lastId
  BY <1>1, <1>2, <1>4 DEF TidyInv, OrderInv, Below
<1>6. OrderInv'
  BY <1>1, <1>3, <1>5 DEF TidyInv, OrderInv
<1>7. OnceInv'
  BY <1>1, <1>4 DEF TidyInv, OnceInv
<1> QED
  BY <1>6, <1>7

LEMMA TakeTidy ==
    ASSUME TidyInv, Take
    PROVE  OrderInv' /\ OnceInv'
<1> DEFINE sig == Head(queue)
<1>1. /\ UNCHANGED <<key, lastId, work, log>> /\ InHand = {} /\ queue # <<>>
      /\ queue' = Tail(queue)
      /\ Queued = Queued' \cup Held(sig)
      /\ \/ UNCHANGED <<seen, forgot, mailbox, hand>>
         \/ /\ sig \in Signals /\ Held(sig) = {sig} /\ KeyIn(key, sig) \notin seen
            /\ Windowed(KeyIn(key, sig))
            /\ \/ /\ mailbox' = Append(mailbox, sig)
                  /\ Boxed' = Boxed \cup {sig} /\ InHand' = {}
               \/ /\ mailbox' = mailbox
                  /\ Boxed' = Boxed /\ InHand' = {sig}
  BY TakeMoves DEF TidyInv
<1>2. Sorted(queue') /\ Below(Held(sig), Queued')
  <2>1. queue \in Seq(Items) /\ Sorted(queue)
    BY StageTypes DEF TidyInv, OrderInv
  <2> QED
    BY <1>1, <2>1, TidyTail DEF Queued
<1> HIDE DEF sig
<1>3. Done' = Done /\ Working' = Working /\ log' = log
  BY <1>1 DEF Done, Working
<1>4. CASE UNCHANGED <<seen, forgot, mailbox, hand>>
  <2>1. Boxed' = Boxed /\ InHand' = InHand /\ Past' = Past
    BY <1>3, <1>4 DEF Boxed, InHand, Past
  <2>2. /\ Below(Done', Working' \cup Boxed' \cup InHand' \cup Queued')
        /\ Below(Working', Boxed' \cup InHand' \cup Queued')
        /\ Below(Boxed', InHand' \cup Queued')
        /\ Below(InHand', Queued')
        /\ (Past' \cup Queued') \cap Rows \subseteq 1..lastId
    BY <1>1, <1>3, <2>1 DEF TidyInv, OrderInv, Below
  <2>3. OrderInv'
    BY <1>1, <1>2, <1>4, <2>2 DEF TidyInv, OrderInv
  <2>4. OnceInv'
    BY <1>1, <1>3, <1>4, <2>1 DEF TidyInv, OnceInv
  <2> QED
    BY <2>3, <2>4
<1>5. CASE /\ sig \in Signals /\ Held(sig) = {sig} /\ KeyIn(key, sig) \notin seen
           /\ Windowed(KeyIn(key, sig))
           /\ \/ /\ mailbox' = Append(mailbox, sig)
                 /\ Boxed' = Boxed \cup {sig} /\ InHand' = {}
              \/ /\ mailbox' = mailbox
                 /\ Boxed' = Boxed /\ InHand' = {sig}
  <2>1. /\ seen \cup {KeyIn(key, sig)} \subseteq seen' \cup forgot'
        /\ forgot \subseteq forgot'
    BY <1>5 DEF Windowed
  <2>2. Past' = Past \cup {sig} /\ sig \in Queued
    BY <1>1, <1>3, <1>5 DEF Past
  <2>3. Apart(key, Past, {sig}, forgot)
    BY <1>5 DEF TidyInv, OnceInv, Apart, KeysIn
  <2>4. Below(Done \cup Working \cup Boxed, {sig}) /\ Below({sig}, Queued')
    BY <1>2, <1>5, <2>2 DEF TidyInv, OrderInv, Below
  <2>5. Sorted(mailbox') /\ Single(key, mailbox', forgot')
    <3>1. mailbox \in Seq(Items) /\ sig \in Items
      BY <1>5, StageTypes DEF TidyInv, Items
    <3>2. Sorted(mailbox) /\ Below(In(mailbox), Held(sig))
      BY <1>5, <2>4 DEF TidyInv, OrderInv, Boxed, Below
    <3>3. Single(key, mailbox, forgot') /\ Apart(key, In(mailbox), Held(sig), forgot')
      BY <1>5, <2>1, <2>3, SingleMore DEF TidyInv, OnceInv, Boxed, Past, Apart, KeysIn
    <3>4. Sorted(Append(mailbox, sig)) /\ Single(key, Append(mailbox, sig), forgot')
      BY <3>1, <3>2, <3>3, TidyAppend
    <3> QED
      BY <1>5, <3>2, <3>3, <3>4
  <2>6. /\ Below(Done', Working' \cup Boxed' \cup InHand' \cup Queued')
        /\ Below(Working', Boxed' \cup InHand' \cup Queued')
        /\ Below(Boxed', InHand' \cup Queued')
        /\ Below(InHand', Queued')
    BY <1>1, <1>3, <1>5, <2>4 DEF TidyInv, OrderInv, Below
  <2>7. (Past' \cup Queued') \cap Rows \subseteq 1..lastId
    BY <1>1, <2>2 DEF TidyInv, OrderInv
  <2>8. OrderInv'
    BY <1>1, <1>2, <2>5, <2>6, <2>7 DEF TidyInv, OrderInv
  <2>9. /\ Apart(key, Done', Working' \cup Boxed' \cup InHand', forgot')
        /\ Apart(key, Working', Boxed' \cup InHand', forgot')
        /\ Apart(key, Boxed', InHand', forgot')
    BY <1>1, <1>3, <1>5, <2>1, <2>3 DEF TidyInv, OnceInv, Past, Apart, KeysIn
  <2>10. KeysIn(key, Past') \subseteq seen' \cup forgot'
    BY <2>1, <2>2 DEF TidyInv, OnceInv, KeysIn
  <2>11. Single(key, log', forgot')
    BY <1>3, <2>1, SingleMore DEF TidyInv, OnceInv
  <2>12. OnceInv'
    BY <1>1, <2>5, <2>9, <2>10, <2>11 DEF OnceInv
  <2> QED
    BY <2>8, <2>12
<1> QED
  BY <1>1, <1>4, <1>5

LEMMA PutTidy ==
    ASSUME TidyInv, Put
    PROVE  OrderInv' /\ OnceInv'
<1>1. /\ UNCHANGED <<key, lastId, queue, work, log, seen, forgot>>
      /\ mailbox' = Append(mailbox, hand) /\ hand \in Signals
      /\ Boxed' = Boxed \cup InHand /\ InHand' = {}
  BY PutMoves DEF TidyInv
<1>2. /\ Done' = Done /\ Working' = Working /\ Queued' = Queued
  BY <1>1 DEF Done, Working, Queued
<1>3. Past' = Past
  BY <1>1, <1>2 DEF Past
<1>4. Sorted(mailbox') /\ Single(key, mailbox', forgot)
  <2>1. mailbox \in Seq(Items) /\ hand \in Items
    BY <1>1, StageTypes DEF TidyInv, Items
  <2>2. /\ Sorted(mailbox) /\ Below(In(mailbox), Held(hand))
        /\ Single(key, mailbox, forgot) /\ Apart(key, In(mailbox), Held(hand), forgot)
    BY DEF TidyInv, OrderInv, OnceInv, Boxed, InHand, Below, Apart, KeysIn
  <2> QED
    BY <1>1, <2>1, <2>2, TidyAppend
<1>5. /\ Below(Done', Working' \cup Boxed' \cup InHand' \cup Queued')
      /\ Below(Working', Boxed' \cup InHand' \cup Queued')
      /\ Below(Boxed', InHand' \cup Queued')
      /\ Below(InHand', Queued')
  BY <1>1, <1>2 DEF TidyInv, OrderInv, Below
<1>6. OrderInv'
  BY <1>1, <1>2, <1>3, <1>4, <1>5 DEF TidyInv, OrderInv
<1>7. /\ Apart(key, Done', Working' \cup Boxed' \cup InHand', forgot)
      /\ Apart(key, Working', Boxed' \cup InHand', forgot)
      /\ Apart(key, Boxed', InHand', forgot)
  BY <1>1, <1>2 DEF TidyInv, OnceInv, Apart, KeysIn
<1>8. OnceInv'
  BY <1>1, <1>3, <1>4, <1>7 DEF TidyInv, OnceInv
<1> QED
  BY <1>6, <1>8

LEMMA TakeItemTidy ==
    ASSUME TidyInv, TakeItem
    PROVE  OrderInv' /\ OnceInv'
<1>1. /\ UNCHANGED <<key, lastId, queue, hand, log, seen, forgot>>
      /\ mailbox # <<>> /\ mailbox' = Tail(mailbox)
      /\ Working = {} /\ Working' = Held(Head(mailbox))
      /\ Boxed = Boxed' \cup Working'
  BY TakeItemMoves DEF TidyInv
<1>2. /\ Done' = Done /\ InHand' = InHand /\ Queued' = Queued
  BY <1>1 DEF Done, InHand, Queued
<1>3. Past' = Past
  BY <1>1, <1>2 DEF Past
<1>4. /\ Sorted(mailbox') /\ Below(Working', Boxed')
      /\ Single(key, mailbox', forgot) /\ Apart(key, Working', Boxed', forgot)
  <2>1. mailbox \in Seq(Items) /\ Sorted(mailbox) /\ Single(key, mailbox, forgot)
    BY StageTypes DEF TidyInv, OrderInv, OnceInv
  <2> QED
    BY <1>1, <2>1, TidyTail DEF Boxed
<1>5. /\ Below(Done', Working' \cup Boxed' \cup InHand' \cup Queued')
      /\ Below(Working', Boxed' \cup InHand' \cup Queued')
      /\ Below(Boxed', InHand' \cup Queued')
      /\ Below(InHand', Queued')
  BY <1>1, <1>2, <1>4 DEF TidyInv, OrderInv, Below
<1>6. OrderInv'
  BY <1>1, <1>2, <1>3, <1>4, <1>5 DEF TidyInv, OrderInv
<1>7. /\ Apart(key, Done', Working' \cup Boxed' \cup InHand', forgot)
      /\ Apart(key, Working', Boxed' \cup InHand', forgot)
      /\ Apart(key, Boxed', InHand', forgot)
  BY <1>1, <1>2, <1>4 DEF TidyInv, OnceInv, Apart, KeysIn
<1>8. OnceInv'
  BY <1>1, <1>3, <1>4, <1>7 DEF TidyInv, OnceInv
<1> QED
  BY <1>6, <1>8

LEMMA HandleTidy ==
    ASSUME TidyInv, Handle
    PROVE  OrderInv' /\ OnceInv'
<1>1. /\ UNCHANGED <<key, lastId, queue, hand, mailbox, seen, forgot>>
      /\ work \in Signals /\ Working = {work} /\ Working' = {}
      /\ \/ log' = Append(log, work) /\ Done' = Done \cup Working
         \/ log' = log /\ Done' = Done
  BY HandleMoves DEF TidyInv
<1>2. /\ Boxed' = Boxed /\ InHand' = InHand /\ Queued' = Queued
  BY <1>1 DEF Boxed, InHand, Queued
<1>3. Past' \subseteq Past
  BY <1>1, <1>2 DEF Past
<1>4. Sorted(log') /\ Single(key, log', forgot)
  <2>1. log \in Seq(Items) /\ work \in Items
    BY <1>1, StageTypes DEF TidyInv, Items
  <2>2. /\ Sorted(log) /\ Below(In(log), Held(work))
        /\ Single(key, log, forgot) /\ Apart(key, In(log), Held(work), forgot)
    BY DEF TidyInv, OrderInv, OnceInv, Done, Working, Below, Apart, KeysIn
  <2>3. Sorted(Append(log, work)) /\ Single(key, Append(log, work), forgot)
    BY <2>1, <2>2, TidyAppend
  <2> QED
    BY <1>1, <2>2, <2>3
<1>5. /\ Below(Done', Working' \cup Boxed' \cup InHand' \cup Queued')
      /\ Below(Working', Boxed' \cup InHand' \cup Queued')
      /\ Below(Boxed', InHand' \cup Queued')
      /\ Below(InHand', Queued')
  BY <1>1, <1>2 DEF TidyInv, OrderInv, Below
<1>6. OrderInv'
  BY <1>1, <1>2, <1>3, <1>4, <1>5 DEF TidyInv, OrderInv
<1>7. /\ Apart(key, Done', Working' \cup Boxed' \cup InHand', forgot)
      /\ Apart(key, Working', Boxed' \cup InHand', forgot)
      /\ Apart(key, Boxed', InHand', forgot)
  BY <1>1, <1>2 DEF TidyInv, OnceInv, Apart, KeysIn
<1>8. KeysIn(key, Past') \subseteq seen \cup forgot
  BY <1>3 DEF TidyInv, OnceInv, KeysIn
<1>9. OnceInv'
  BY <1>1, <1>4, <1>7, <1>8 DEF TidyInv, OnceInv
<1> QED
  BY <1>6, <1>9

\* An actor sees the rows in their order and each once, over restarts and full
\* queues; two frames with one key it sees only if the dedup window, or the
\* process, had given up the key (ingest.py:104, machine_data_tailer.py).
THEOREM InOrderAndOnce == Spec => []RowsInOrderFramesOnce
<1>1. ASSUME Init PROVE TidyInv
  <2>1. /\ log = <<>> /\ mailbox = <<>> /\ queue = <<>>
        /\ hand = Nothing /\ work = Nothing
    BY <1>1 DEF Init
  <2>2. In(<<>>) = {} /\ Held(Nothing) = {}
    BY DEF In, Held
  <2>3. Done = {} /\ Working = {} /\ Boxed = {} /\ InHand = {} /\ Queued = {}
    BY <2>1, <2>2 DEF Done, Working, Boxed, InHand, Queued
  <2>4. OrderInv /\ OnceInv
    BY <2>1, <2>3, TidyEmpty DEF OrderInv, OnceInv, Below, Past, Apart, KeysIn
  <2> QED
    BY <1>1, <2>4, PipeStarts DEF TidyInv
<1>2. TidyInv /\ [Next]_vars => TidyInv'
  <2> SUFFICES ASSUME TidyInv, [Next]_vars PROVE TidyInv'
    OBVIOUS
  <2>1. PipeTypes'
    BY PipeTypesStep DEF TidyInv
  <2>2. Quiet => OrderInv' /\ OnceInv'
    BY QuietMovesNone, TidyKept DEF TidyInv
  <2>3. OrderInv' /\ OnceInv'
    BY <2>2, NextStep, BootTidy, ExitTidy, OfferBatchTidy, OfferFrameTidy,
       TakeTidy, PutTidy, TakeItemTidy, HandleTidy
  <2> QED
    BY <2>1, <2>3 DEF TidyInv
<1>3. TidyInv => RowsInOrderFramesOnce
  <2> SUFFICES ASSUME TidyInv, NEW i \in DOMAIN log, NEW j \in DOMAIN log, i < j
               PROVE  /\ {log[i], log[j]} \subseteq Rows => log[i] < log[j]
                      /\ KeyOf(log[i]) = KeyOf(log[j]) => KeyOf(log[i]) \in forgot
    BY DEF RowsInOrderFramesOnce
  <2>1. log[i] # 0 /\ log[j] # 0
    BY SignalFacts, StageTypes DEF TidyInv
  <2>2. \A sig : KeyOf(sig) = KeyIn(key, sig)
    BY KeyFacts DEF TidyInv, PipeTypes
  <2> QED
    BY <2>1, <2>2 DEF TidyInv, OrderInv, OnceInv, Sorted, Single
<1> QED
  BY <1>1, <1>2, <1>3, PTL DEF Spec

-----------------------------------------------------------------------------
(* The shutdown, stage by stage: what comes before has ended, and the        *)
(* sentinel of the mailbox is behind everything else in it.                 *)

Free(s) == \A i \in DOMAIN s : s[i] # Sentinel
Ends(s) == s # <<>> /\ \A i \in DOMAIN s : s[i] = Sentinel <=> i = Len(s)

LEMMA FreeAppend ==
    ASSUME NEW s \in Seq(Items), NEW e \in Signals, Free(s)
    PROVE  Free(Append(s, e))
<1>1. /\ DOMAIN Append(s, e) = 1..(Len(s) + 1) /\ DOMAIN s = 1..Len(s)
      /\ Len(s) \in Nat /\ Append(s, e)[Len(s) + 1] = e
      /\ \A i \in 1..Len(s) : Append(s, e)[i] = s[i]
  OBVIOUS
<1>2. e # 0
  BY SignalFacts
<1> QED
  BY <1>1, <1>2 DEF Free

LEMMA FreeEnds ==
    ASSUME NEW s \in Seq(Items), Free(s)
    PROVE  Ends(Append(s, Sentinel))
<1> DEFINE t == Append(s, Sentinel)
<1>1. /\ DOMAIN t = 1..(Len(s) + 1) /\ DOMAIN s = 1..Len(s) /\ Len(t) = Len(s) + 1
      /\ Len(s) \in Nat /\ t[Len(s) + 1] = Sentinel
      /\ \A i \in 1..Len(s) : t[i] = s[i]
  <2>1. Sentinel \in Items
    BY DEF Items
  <2> QED
    BY <2>1
<1>2. t # <<>>
  BY <1>1
<1> HIDE DEF t
<1>3. \A i \in DOMAIN t : t[i] = Sentinel <=> i = Len(t)
  BY <1>1 DEF Free
<1>4. Ends(t)
  BY <1>2, <1>3 DEF Ends
<1> QED
  BY <1>4 DEF t

LEMMA TailFacts ==
    ASSUME NEW s \in Seq(Items), s # <<>>
    PROVE  /\ Len(s) \in Nat \ {0} /\ DOMAIN s = 1..Len(s) /\ Head(s) = s[1]
           /\ DOMAIN Tail(s) = 1..(Len(s) - 1) /\ Len(Tail(s)) = Len(s) - 1
           /\ \A i \in 1..(Len(s) - 1) : Tail(s)[i] = s[i + 1]
           /\ Tail(s) \in Seq(Items)
OBVIOUS

LEMMA FreeTail ==
    ASSUME NEW s \in Seq(Items), s # <<>>, Free(s)
    PROVE  Head(s) # Sentinel /\ Free(Tail(s))
<1> DEFINE t == Tail(s)
<1>1. /\ Len(s) \in Nat \ {0} /\ DOMAIN s = 1..Len(s) /\ Head(s) = s[1]
      /\ DOMAIN t = 1..(Len(s) - 1)
      /\ \A i \in 1..(Len(s) - 1) : t[i] = s[i + 1]
  BY TailFacts
<1> HIDE DEF t
<1>2. Free(t) /\ Head(s) # Sentinel
  BY <1>1, SMTT(30) DEF Free
<1> QED
  BY <1>2 DEF t

LEMMA EndsTail ==
    ASSUME NEW s \in Seq(Items), Ends(s)
    PROVE  IF Head(s) = Sentinel THEN Tail(s) = <<>> ELSE Ends(Tail(s))
<1> DEFINE t == Tail(s)
<1>0. s # <<>>
  BY DEF Ends
<1>1. /\ Len(s) \in Nat \ {0} /\ DOMAIN s = 1..Len(s) /\ Head(s) = s[1]
      /\ DOMAIN t = 1..(Len(s) - 1) /\ Len(t) = Len(s) - 1
      /\ \A i \in 1..(Len(s) - 1) : t[i] = s[i + 1]
      /\ t \in Seq(Items)
  BY <1>0, TailFacts
<1>2. t = <<>> <=> Len(t) = 0
  BY <1>1
<1> HIDE DEF t
<1>3. Head(s) = Sentinel <=> Len(s) = 1
  BY <1>1 DEF Ends
<1>4. \A i \in DOMAIN t : t[i] = Sentinel <=> i = Len(t)
  BY <1>1 DEF Ends
<1>5. CASE Len(s) = 1
  BY <1>1, <1>2, <1>3, <1>5 DEF t
<1>6. CASE Len(s) # 1
  <2>1. t # <<>> /\ Head(s) # Sentinel
    BY <1>1, <1>2, <1>3, <1>6
  <2>2. Ends(t)
    BY <1>4, <2>1 DEF Ends
  <2> QED
    BY <2>1, <2>2 DEF t
<1> QED
  BY <1>5, <1>6

LEMMA FreeEmpty == Free(<<>>)
BY DEF Free

BeforeActors == {"none", "sources", "room", "ingest"}

ShutInv ==
    /\ stopper \notin {"none", "sources"} => tailer = "ended"
    /\ stopper \notin BeforeActors => ingest = "ended"
    /\ stopper \in BeforeActors => Free(mailbox)
    /\ stopper \in BeforeActors /\ up => actor # "ended"
    /\ stopper = "actors" /\ actor = "ended" => mailbox = <<>>
    /\ stopper = "actors" /\ actor # "ended" => Ends(mailbox)
    /\ stopper \in {"relay", "done"} => actor = "ended" /\ mailbox = <<>>

StopInv == PipeTypes /\ ShutInv

LEMMA IngestStops ==
    ASSUME StopInv, Ingest
    PROVE  ShutInv'
<1>1. /\ ingest # "ended"
      /\ stopper' = stopper /\ tailer' = tailer /\ actor' = actor /\ up' = up
  BY DEF Ingest, Take, Put, LoopTurns, Resumes
<1>2. stopper \in BeforeActors /\ Free(mailbox)
  BY <1>1 DEF StopInv, ShutInv
<1>3. mailbox' = mailbox \/ \E e \in Signals : mailbox' = Append(mailbox, e)
  <2>1. CASE Take
    BY <2>1, TakeCases DEF StopInv, Passed, Repeated, Delivered
  <2>2. CASE Put
    BY <2>2, PutMoves DEF StopInv
  <2>3. CASE LoopTurns
    BY <2>3 DEF LoopTurns
  <2> QED
    BY <2>1, <2>2, <2>3 DEF Ingest
<1>4. Free(mailbox')
  <2>1. CASE mailbox' = mailbox
    BY <1>2, <2>1
  <2>2. ASSUME NEW e \in Signals, mailbox' = Append(mailbox, e)
        PROVE  Free(mailbox')
    BY <1>2, <2>2, StageTypes, FreeAppend DEF StopInv
  <2> QED
    BY <1>3, <2>1, <2>2
<1>5. stopper \notin {"relay", "done", "actors"}
  BY <1>2 DEF BeforeActors
<1> QED
  BY <1>1, <1>2, <1>4, <1>5 DEF StopInv, ShutInv

LEMMA ActorStops ==
    ASSUME StopInv, Actor
    PROVE  ShutInv'
<1>1. /\ stopper' = stopper /\ tailer' = tailer /\ ingest' = ingest /\ up' = up
      /\ actor # "ended" /\ stopper \notin {"relay", "done"}
  BY DEF Actor, TakeItem, Handle, StopInv, ShutInv
<1>2. CASE Handle
  <2>1. mailbox' = mailbox /\ actor' # "ended"
    BY <1>2 DEF Handle
  <2> QED
    BY <1>1, <2>1 DEF StopInv, ShutInv
<1>3. CASE TakeItem
  <2>1. /\ mailbox # <<>> /\ mailbox' = Tail(mailbox)
        /\ (actor' = "ended") <=> (Head(mailbox) = Sentinel)
    BY <1>3 DEF TakeItem
  <2>2. mailbox \in Seq(Items)
    BY StageTypes DEF StopInv
  <2>3. CASE stopper \in BeforeActors
    <3>1. Head(mailbox) # Sentinel /\ Free(mailbox')
      BY <2>1, <2>2, <2>3, FreeTail DEF StopInv, ShutInv
    <3>2. stopper # "actors"
      BY <2>3 DEF BeforeActors
    <3> QED
      BY <1>1, <2>1, <2>3, <3>1, <3>2 DEF StopInv, ShutInv
  <2>4. CASE stopper \notin BeforeActors
    <3>1. stopper = "actors" => Ends(mailbox)
      BY <1>1 DEF StopInv, ShutInv
    <3>2. stopper = "actors" => IF actor' = "ended" THEN mailbox' = <<>> ELSE Ends(mailbox')
      BY <2>1, <2>2, <3>1, EndsTail
    <3> QED
      BY <1>1, <2>4, <3>2 DEF StopInv, ShutInv
  <2> QED
    BY <2>3, <2>4
<1> QED
  BY <1>2, <1>3 DEF Actor

LEMMA ShutdownStops ==
    ASSUME StopInv, StopSources \/ Shutdown
    PROVE  ShutInv'
<1>1. CASE StopSources \/ StopIngest \/ PutSentinel
  <2>1. /\ mailbox' = mailbox /\ actor' = actor /\ ingest' = ingest /\ up' = up
        /\ tailer' = tailer
        /\ stopper \in BeforeActors /\ stopper' \in BeforeActors
        /\ stopper \notin {"none", "sources"} \/ tailer = "ended" \/ stopper' = "sources"
        /\ stopper' \notin {"actors", "relay", "done"}
    BY <1>1 DEF StopSources, StopIngest, PutSentinel, BeforeActors
  <2> QED
    BY <2>1 DEF StopInv, ShutInv
<1>2. CASE StopRelay \/ Stopped
  <2>1. /\ mailbox' = mailbox /\ actor' = actor /\ ingest' = ingest /\ up' = up
        /\ tailer' = tailer
        /\ actor = "ended" \/ stopper = "relay"
        /\ stopper \in {"actors", "relay"} /\ stopper' \in {"relay", "done"}
    BY <1>2 DEF StopRelay, Stopped
  <2>2. /\ stopper \notin BeforeActors /\ stopper' \notin BeforeActors
        /\ stopper \notin {"none", "sources"} /\ stopper' # "actors"
    BY <2>1 DEF BeforeActors
  <2>3. actor = "ended" /\ mailbox = <<>> /\ ingest = "ended" /\ tailer = "ended"
    BY <2>1, <2>2 DEF StopInv, ShutInv
  <2> QED
    BY <2>1, <2>2, <2>3 DEF ShutInv
<1>3. CASE StopActors
  <2>1. /\ stopper = "ingest" /\ stopper' = "actors" /\ ingest = "ended"
        /\ mailbox' = Append(mailbox, Sentinel) /\ up
        /\ tailer' = tailer /\ ingest' = ingest /\ actor' = actor /\ up' = up
    BY <1>3 DEF StopActors, LoopFree
  <2>2. stopper \in BeforeActors /\ stopper' \notin BeforeActors
    BY <2>1 DEF BeforeActors
  <2>3. Free(mailbox) /\ actor # "ended" /\ tailer = "ended"
    BY <2>1, <2>2 DEF StopInv, ShutInv
  <2>4. Ends(mailbox')
    BY <2>1, <2>3, StageTypes, FreeEnds DEF StopInv
  <2> QED
    BY <2>1, <2>2, <2>3, <2>4 DEF ShutInv
<1> QED
  BY <1>1, <1>2, <1>3 DEF Shutdown

LEMMA LifeStops ==
    ASSUME StopInv, Boot \/ Exit
    PROVE  ShutInv'
<1>1. stopper' = "none" /\ mailbox' = <<>> /\ (up' => actor' # "ended")
  <2>1. CASE Boot
    BY <2>1 DEF Boot, StopInv, PipeTypes, DownInv
  <2>2. CASE Exit
    BY <2>2 DEF Exit
  <2> QED
    BY <2>1, <2>2
<1>2. Free(mailbox') /\ stopper' \in BeforeActors
  BY <1>1, FreeEmpty DEF BeforeActors
<1> QED
  BY <1>1, <1>2 DEF ShutInv

\* A shutdown in order loses no more than what is in the ingest queue: when the
\* relay is told to stop, whatever ingest had taken is handled (bootstrap.py:376).
THEOREM OnlyTheQueueIsLost == Spec => []ShutdownLosesOnlyTheQueue
<1>1. ASSUME Init PROVE StopInv
  <2>1. /\ stopper = "none" /\ mailbox = <<>> /\ up = FALSE
        /\ stopper \in BeforeActors
    BY <1>1 DEF Init, BeforeActors
  <2>2. Free(mailbox)
    BY <2>1, FreeEmpty
  <2> QED
    BY <1>1, <2>1, <2>2, PipeStarts DEF StopInv, ShutInv
<1>2. StopInv /\ [Next]_vars => StopInv'
  <2> SUFFICES ASSUME StopInv, [Next]_vars PROVE StopInv'
    OBVIOUS
  <2>1. PipeTypes'
    BY PipeTypesStep DEF StopInv
  <2>2. CASE UNCHANGED vars \/ insert_machine_data \/ Relay
             \/ \E f \in Frames : OfferFrame(f)
    <3>1. /\ stopper' = stopper /\ tailer' = tailer /\ ingest' = ingest
          /\ mailbox' = mailbox /\ actor' = actor /\ up' = up
      BY <2>2 DEF vars, insert_machine_data, Relay, Fetch, Publish, RelayEnds,
                  OfferFrame
    <3> QED
      BY <2>1, <3>1 DEF StopInv, ShutInv
  <2>3. CASE Tailer
    <3>1. /\ stopper' = stopper /\ ingest' = ingest /\ mailbox' = mailbox
          /\ actor' = actor /\ up' = up /\ tailer # "ended"
      BY <2>3 DEF Tailer, _fetch_batch, OfferBatch, TailerEnds
    <3> QED
      BY <2>1, <3>1 DEF StopInv, ShutInv
  <2>4. ShutInv'
    BY <2>2, <2>3, LifeStops, IngestStops, ActorStops, ShutdownStops
       DEF Next, StopInv
  <2> QED
    BY <2>1, <2>4 DEF StopInv
<1>3. StopInv => ShutdownLosesOnlyTheQueue
  <2> SUFFICES ASSUME StopInv, stopper \in {"relay", "done"}
               PROVE  /\ hand = Nothing /\ work = Nothing /\ mailbox = <<>>
                      /\ ingest = "ended" /\ tailer = "ended"
    BY DEF ShutdownLosesOnlyTheQueue
  <2>1. stopper \notin BeforeActors /\ stopper \notin {"none", "sources"}
    BY DEF BeforeActors
  <2>2. mailbox = <<>> /\ actor = "ended" /\ ingest = "ended" /\ tailer = "ended"
    BY <2>1 DEF StopInv, ShutInv
  <2> QED
    BY <2>2 DEF StopInv, PipeTypes, HandsInv
<1> QED
  BY <1>1, <1>2, <1>3, PTL DEF Spec
=============================================================================
