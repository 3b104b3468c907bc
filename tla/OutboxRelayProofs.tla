-------------------------- MODULE OutboxRelayProofs --------------------------
(***************************************************************************)
(* What TLAPS proves about OutboxRelay, for every number of producers,     *)
(* handlers and attempts, every batch size and every mix of faults.        *)
(*                                                                         *)
(* No property of OutboxRelay but TypeOK is inductive: that a dispatched   *)
(* row reached everyone depends on how far the fanout has come, and that   *)
(* an author is not overtaken on the order in which its transactions       *)
(* commit.  RInv adds both.                                                *)
(***************************************************************************)
EXTENDS OutboxRelay, FiniteSetTheorems, NaturalFacts, TLAPS

Draining == pc \in {"publishing", "delivered", "failed", "capping"}

\* A drain is under way exactly while it holds rows, and only the row being
\* capped may have used up its attempts.
BatchInv ==
    /\ batch # {} <=> Draining
    /\ \A e \in batch : attempts[e] < MAX_ATTEMPTS \/ (pc = "capping" /\ e = Current)
    /\ pc = "capping" => attempts[Current] > 0

\* An author's uncommitted rows are newer than all its committed ones.
LogInv ==
    /\ \A e \in Seqs : row[e] # "absent" => e <= lastSeq
    /\ \A p \in Producers : \A e \in txn[p] :
          /\ e <= lastSeq /\ author[e] = p /\ row[e] = "absent"
          /\ \A f \in Seqs : row[f] # "absent" /\ author[f] = p => f < e

\* How far a fanout without a failure has come.
HeardInv ==
    /\ \A e \in Seqs : row[e] = "dispatched" => \A h \in Handlers : heard[h][e] > 0
    /\ pc = "publishing" /\ ~raised => \A h \in 1..(next - 1) : heard[h][Current] > 0
    /\ pc = "delivered" => \A h \in Handlers : heard[h][Current] > 0

\* The one time a handler may have heard an event that no failed attempt and
\* no fault accounts for.
Counted(h, e) ==
    \/ row[e] = "dispatched"
    \/ e = Current /\ pc \in {"delivered", "failed"}
    \/ e = Current /\ pc = "publishing" /\ h < next

RepeatInv ==
    \A h \in Handlers, e \in Seqs :
        heard[h][e] <= attempts[e] + faults + (IF Counted(h, e) THEN 1 ELSE 0)

\* What precedes a row of the batch is in the batch, failed or dispatched.
OrderInv ==
    \A f \in batch : \A e \in 1..(f - 1) :
        author[e] = author[f] /\ row[e] # "absent" =>
            e \in batch \/ attempts[e] > 0 \/ row[e] = "dispatched"

RInv == /\ TypeOK /\ BatchInv /\ LogInv /\ HeardInv /\ RepeatInv /\ OrderInv
        /\ DeadOnlyAfterMaxAttempts

-----------------------------------------------------------------------------
(* Finite sets of event_seqs.                                              *)

LEMMA SeqsFinite ==
    ASSUME NEW S \in SUBSET Seqs
    PROVE  IsFiniteSet(S) /\ Cardinality(S) \in Nat
<1>1. IsFiniteSet(Seqs)
      BY RelayAssumption, FS_Interval DEF Seqs
<1>2. QED BY <1>1, FS_Subset, FS_CardinalityType

\* ORDER BY event_seq: a batch has an oldest row.
LEMMA FirstIsOldest ==
    ASSUME NEW S \in SUBSET Seqs, S # {}
    PROVE  First(S) \in S /\ \A f \in S : First(S) <= f
<1>1. S \in SUBSET Nat
      BY RelayAssumption DEF Seqs
<1>2. \E e \in S : \A f \in S : e <= f
      BY <1>1, LeastNatural
<1>3. QED BY <1>2 DEF First

\* ... and so does every set of rows have a newest one.
LEMMA HasNewest ==
    ASSUME NEW S \in SUBSET Seqs, S # {}
    PROVE  \E m \in S : \A f \in S : f <= m
<1>1. DEFINE D == {MaxSeq - e : e \in S}
<1>2. D \in SUBSET Nat /\ D # {}
      <2>1. \A e \in S : MaxSeq - e \in Nat
            BY RelayAssumption DEF Seqs
      <2>2. QED BY <2>1
<1>3. PICK d \in D : \A c \in D : d <= c
      BY <1>2, LeastNatural
<1>4. PICK m \in S : d = MaxSeq - m
      OBVIOUS
<1>5. \A f \in S : f <= m
      <2>1. TAKE f \in S
      <2>2. MaxSeq - m <= MaxSeq - f
            BY <1>3, <1>4
      <2>3. QED BY <2>2, RelayAssumption DEF Seqs
<1>6. QED BY <1>5

\* LIMIT batch_size: a fetch claims rows of S, at most a batch of them, and
\* with a row every older one.
LEMMA OldestIsABatch ==
    ASSUME NEW S \in SUBSET Seqs
    PROVE  /\ Oldest(S) \subseteq S
           /\ Cardinality(Oldest(S)) <= BatchSize
           /\ \A f \in Oldest(S), e \in S : e < f => e \in Oldest(S)
           /\ S # {} => Oldest(S) # {}
<1> DEFINE Below(f) == {g \in S : g < f}
<1>1. \A f \in S : Below(f) \in SUBSET Seqs
      OBVIOUS
<1>2. Oldest(S) \subseteq S /\ Oldest(S) \in SUBSET Seqs
      BY DEF Oldest
<1>3. ASSUME NEW f \in Oldest(S), NEW e \in S, e < f
      PROVE  e \in Oldest(S)
      <2>1. Below(e) \subseteq Below(f)
            <3>1. e \in Nat /\ f \in Nat /\ \A g \in S : g \in Nat
                  BY <1>2, RelayAssumption DEF Seqs
            <3>2. \A g \in S : g < e => g < f
                  BY <1>3, <3>1
            <3>3. QED BY <3>2
      <2>2. Cardinality(Below(e)) <= Cardinality(Below(f))
            BY <2>1, <1>1, <1>2, SeqsFinite, FS_Subset
      <2>3. Cardinality(Below(f)) < BatchSize
            BY DEF Oldest
      <2>4. Cardinality(Below(e)) \in Nat /\ Cardinality(Below(f)) \in Nat
            BY <1>1, <1>2, SeqsFinite
      <2>5. Cardinality(Below(e)) < BatchSize
            BY <2>2, <2>3, <2>4, RelayAssumption
      <2>6. QED BY <2>5 DEF Oldest
<1>4. Cardinality(Oldest(S)) <= BatchSize
      <2>1. CASE Oldest(S) = {}
            BY <2>1, FS_EmptySet, RelayAssumption
      <2>2. CASE Oldest(S) # {}
            <3>1. PICK m \in Oldest(S) : \A f \in Oldest(S) : f <= m
                  BY <2>2, <1>2, HasNewest
            <3>2. Oldest(S) \subseteq Below(m) \cup {m}
                  BY <3>1, <1>2, RelayAssumption DEF Seqs
            <3>3. IsFiniteSet(Below(m)) /\ Cardinality(Below(m)) \in Nat
                  BY <1>1, <1>2, SeqsFinite
            <3>4. /\ IsFiniteSet(Below(m) \cup {m})
                  /\ Cardinality(Below(m) \cup {m}) = Cardinality(Below(m)) + 1
                  <4>1. m \notin Below(m)
                        BY <1>2, RelayAssumption DEF Seqs
                  <4>2. QED BY <4>1, <3>3, FS_AddElement
            <3>5. Cardinality(Oldest(S)) <= Cardinality(Below(m)) + 1
                  BY <3>2, <3>4, FS_Subset
            <3>6. Cardinality(Below(m)) < BatchSize
                  BY DEF Oldest
            <3>7. Cardinality(Oldest(S)) \in Nat
                  BY <1>2, SeqsFinite
            <3>8. QED BY <3>3, <3>5, <3>6, <3>7, RelayAssumption
      <2>3. QED BY <2>1, <2>2
<1>5. ASSUME S # {} PROVE Oldest(S) # {}
      <2>1. First(S) \in S /\ \A f \in S : First(S) <= f
            BY <1>5, FirstIsOldest
      <2>2. {g \in S : g < First(S)} = {}
            <3>1. \A g \in S : g \in Nat
                  BY RelayAssumption DEF Seqs
            <3>2. \A g \in S : ~ (g < First(S))
                  BY <2>1, <3>1
            <3>3. QED BY <3>2
      <2>3. Cardinality({g \in S : g < First(S)}) < BatchSize
            BY <2>2, FS_EmptySet, RelayAssumption
      <2>4. QED BY <2>1, <2>3 DEF Oldest
<1>6. QED BY <1>2, <1>3, <1>4, <1>5

\* The row in hand, as every step of a drain finds it.
LEMMA CurrentInBatch ==
    ASSUME TypeOK, batch # {}
    PROVE  /\ Current \in batch /\ Current \in Seqs
           /\ row[Current] = "pending"
           /\ \A f \in batch : Current <= f
BY FirstIsOldest DEF TypeOK, Current

\* Advance leaves a smaller batch.
LEMMA SmallerBatch ==
    ASSUME TypeOK, NEW x
    PROVE  /\ batch \ {x} \subseteq Seqs
           /\ Cardinality(batch \ {x}) <= BatchSize
           /\ \A e \in batch \ {x} : row[e] = "pending"
<1>1. batch \in SUBSET Seqs /\ Cardinality(batch) <= BatchSize
      BY DEF TypeOK
<1>2. batch \ {x} \in SUBSET batch
      OBVIOUS
<1>3. IsFiniteSet(batch) /\ Cardinality(batch) \in Nat
      BY <1>1, SeqsFinite
<1>4. Cardinality(batch \ {x}) <= Cardinality(batch)
      BY <1>2, <1>3, FS_Subset
<1>5. Cardinality(batch \ {x}) \in Nat
      BY <1>1, <1>2, SeqsFinite
<1>6. QED BY <1>1, <1>3, <1>4, <1>5, RelayAssumption DEF TypeOK

-----------------------------------------------------------------------------
(* The invariant.                                                          *)

LEMMA EmptyBatch ==
    /\ {} \in SUBSET Seqs /\ Cardinality({}) <= BatchSize
    /\ 1 \in Handlers /\ 0 \in 0..MaxSeq /\ 0 \in 0..MaxFaults
    /\ 0 \in 0..MAX_ATTEMPTS
BY FS_EmptySet, RelayAssumption DEF Handlers

LEMMA FaultIsCounted ==
    ASSUME TypeOK, NEW kind, Fault(kind)
    PROVE  faults' \in 0..MaxFaults
BY RelayAssumption DEF TypeOK, Fault

LEMMA InitInv == Init => RInv
<1> SUFFICES ASSUME Init PROVE RInv
    OBVIOUS
<1>1. batch \subseteq Seqs /\ Cardinality(batch) <= BatchSize
      BY EmptyBatch DEF Init
<1>2. (CHOOSE p \in Producers : TRUE) \in Producers
      BY RelayAssumption
<1>3. TypeOK
      <2>1. author \in [Seqs -> Producers] /\ txn \in [Producers -> SUBSET Seqs]
            BY <1>2 DEF Init
      <2>2. QED BY <1>1, <2>1, EmptyBatch DEF Init, TypeOK
<1>4. BatchInv /\ LogInv /\ HeardInv /\ RepeatInv /\ OrderInv
      BY RelayAssumption DEF Init, BatchInv, Draining, LogInv, HeardInv, RepeatInv, Counted,
         OrderInv, Handlers
<1>5. DeadOnlyAfterMaxAttempts
      BY DEF Init, DeadOnlyAfterMaxAttempts
<1>6. QED BY <1>3, <1>4, <1>5 DEF RInv

\* The relay is not looking at what a producer does, and an open transaction
\* touches no committed row.
LEMMA InsertInv ==
    ASSUME RInv, NEW p \in Producers, Insert(p)
    PROVE  RInv'
<1> USE RelayAssumption DEF RInv, Insert, relayVars, Seqs
<1>1. TypeOK'
      BY DEF TypeOK
<1>2. lastSeq + 1 \in Seqs /\ row[lastSeq + 1] = "absent"
      BY DEF TypeOK, LogInv
<1>3. BatchInv'
      BY DEF BatchInv, Draining, Current, TypeOK
<1>4. LogInv'
      BY <1>2, SMTT(30) DEF LogInv, TypeOK
<1>5. HeardInv' /\ RepeatInv' /\ DeadOnlyAfterMaxAttempts'
      BY DEF HeardInv, RepeatInv, Counted, DeadOnlyAfterMaxAttempts, Current
<1>6. OrderInv'
      BY <1>2, SMTT(30) DEF OrderInv, TypeOK
<1>7. QED BY <1>1, <1>3, <1>4, <1>5, <1>6

LEMMA CommitInv ==
    ASSUME RInv, NEW p \in Producers, Commit(p)
    PROVE  RInv'
<1> USE RelayAssumption DEF RInv, Commit, relayVars
<1>1. TypeOK'
      BY DEF TypeOK
<1>2. BatchInv'
      BY DEF BatchInv, Draining, Current, TypeOK
<1>3. LogInv'
      BY SMTT(30) DEF LogInv, TypeOK, Seqs
<1>4. HeardInv' /\ RepeatInv' /\ DeadOnlyAfterMaxAttempts'
      BY DEF HeardInv, RepeatInv, Counted, DeadOnlyAfterMaxAttempts, Current, LogInv
<1>5. OrderInv'
      <2> SUFFICES ASSUME NEW f \in batch, NEW e \in 1..(f - 1),
                          author[e] = author[f], row'[e] # "absent"
                   PROVE  e \in batch \/ attempts[e] > 0 \/ row'[e] = "dispatched"
          BY DEF OrderInv
      <2>1. e \in Seqs /\ f \in Seqs /\ row[f] = "pending" /\ e < f
            BY DEF TypeOK, Seqs
      <2>2. e \notin txn[p]
            BY <2>1 DEF LogInv, TypeOK, Seqs
      <2>3. row'[e] = row[e]
            BY <2>1, <2>2
      <2>4. QED BY <2>3 DEF OrderInv
<1>6. QED BY <1>1, <1>2, <1>3, <1>4, <1>5

LEMMA RollbackInv ==
    ASSUME RInv, NEW p \in Producers, Rollback(p)
    PROVE  RInv'
<1> USE RelayAssumption DEF RInv, Rollback, Fault, relayVars
<1>1. TypeOK'
      BY DEF TypeOK
<1>2. BatchInv' /\ HeardInv' /\ OrderInv' /\ DeadOnlyAfterMaxAttempts'
      BY DEF BatchInv, Draining, Current, HeardInv, OrderInv, DeadOnlyAfterMaxAttempts
<1>3. LogInv'
      BY DEF LogInv, TypeOK
<1>4. RepeatInv'
      BY DEF RepeatInv, Counted, Current, TypeOK
<1>5. QED BY <1>1, <1>2, <1>3, <1>4

\* A fetch claims whole prefixes of what is due: what it leaves behind has
\* failed or is settled.
LEMMA FetchInv ==
    ASSUME RInv, Fetch
    PROVE  RInv'
<1> USE RelayAssumption DEF RInv, Fetch, Fanout, dbVars
<1>1. Due \in SUBSET Seqs
      BY DEF Due
<1>2. /\ batch' \subseteq Due /\ Cardinality(batch') <= BatchSize
      /\ \A f \in batch', e \in Due : e < f => e \in batch'
      /\ batch' # {}
      BY <1>1, OldestIsABatch
<1>3. TypeOK'
      <2>1. batch' \subseteq Seqs /\ \A e \in batch' : row[e] = "pending"
            BY <1>2 DEF Due
      <2>2. QED BY <1>2, <2>1, EmptyBatch DEF TypeOK
<1>4. BatchInv'
      BY <1>2 DEF BatchInv, Draining, Due
<1>5. LogInv' /\ DeadOnlyAfterMaxAttempts'
      BY DEF LogInv, DeadOnlyAfterMaxAttempts
<1>6. HeardInv'
      BY DEF HeardInv
<1>7. RepeatInv'
      BY DEF RepeatInv, Counted, TypeOK
<1>8. OrderInv'
      <2> SUFFICES ASSUME NEW f \in batch', NEW e \in 1..(f - 1), row[e] # "absent"
                   PROVE  e \in batch' \/ attempts[e] > 0 \/ row[e] = "dispatched"
          BY DEF OrderInv
      <2>1. f \in Seqs /\ e \in Seqs /\ e < f
            BY <1>1, <1>2 DEF Seqs
      <2>2. CASE e \in Due
            BY <1>2, <2>1, <2>2
      <2>3. CASE e \notin Due
            BY <2>1, <2>3 DEF Due, TypeOK, DeadOnlyAfterMaxAttempts
      <2>4. QED BY <2>2, <2>3
<1>9. QED BY <1>3, <1>4, <1>5, <1>6, <1>7, <1>8

LEMMA HandleInv ==
    ASSUME RInv, Handle
    PROVE  RInv'
<1> USE RelayAssumption DEF RInv, Handle, dbVars
<1>1. batch # {} /\ Current' = Current
      BY DEF BatchInv, Draining, Current
<1>2. Current \in Seqs /\ next \in Handlers /\ row[Current] = "pending"
      BY <1>1, CurrentInBatch DEF TypeOK
<1>3. PICK fails \in BOOLEAN, absorbed \in BOOLEAN :
          /\ fails \/ absorbed
          /\ raised' = (raised \/ fails)
          /\ heard' = IF absorbed
                      THEN [heard EXCEPT ![next][Current] = @ + 1]
                      ELSE heard
      OBVIOUS
<1>4. \A h \in Handlers, e \in Seqs :
          heard'[h][e] = IF absorbed /\ h = next /\ e = Current
                         THEN heard[h][e] + 1 ELSE heard[h][e]
      BY <1>2, <1>3 DEF TypeOK
<1>5. heard' \in [Handlers -> [Seqs -> Nat]]
      BY <1>2, <1>3 DEF TypeOK
<1>6. TypeOK'
      BY <1>3, <1>5, SMTT(30) DEF TypeOK, Handlers
<1>7. BatchInv'
      BY <1>1 DEF BatchInv, Draining
<1>8. LogInv' /\ OrderInv' /\ DeadOnlyAfterMaxAttempts'
      BY DEF LogInv, OrderInv, DeadOnlyAfterMaxAttempts
<1>9. HeardInv'
      <2>1. \A h \in Handlers, e \in Seqs : heard'[h][e] >= heard[h][e]
            BY <1>4 DEF TypeOK
      <2>2. \A e \in Seqs : row[e] = "dispatched" =>
                                \A h \in Handlers : heard'[h][e] > 0
            BY <2>1 DEF HeardInv, TypeOK
      <2>3. ASSUME ~raised' PROVE \A h \in 1..next : heard'[h][Current] > 0
            <3>1. ~raised /\ absorbed
                  BY <1>3, <2>3
            <3>2. heard[next][Current] \in Nat /\ heard'[next][Current] > 0
                  BY <1>2, <1>4, <3>1 DEF TypeOK
            <3>3. \A h \in 1..(next - 1) : heard'[h][Current] > 0
                  BY <1>2, <2>1, <3>1 DEF HeardInv, TypeOK, Handlers
            <3>4. QED BY <1>2, <3>2, <3>3 DEF Handlers
      <2>4. CASE next < NumHandlers
            BY <1>1, <1>2, <2>2, <2>3, <2>4 DEF HeardInv, Handlers
      <2>5. CASE ~(next < NumHandlers)
            <3>1. next = NumHandlers
                  BY <1>2, <2>5 DEF Handlers
            <3>2. QED BY <1>1, <2>2, <2>3, <2>5, <3>1 DEF HeardInv, Handlers
      <2>6. QED BY <2>4, <2>5
<1>10. RepeatInv'
      <2> SUFFICES ASSUME NEW h \in Handlers, NEW e \in Seqs
                   PROVE  heard'[h][e] <= attempts[e] + faults
                                          + (IF Counted(h, e)' THEN 1 ELSE 0)
          BY DEF RepeatInv
      <2>1. heard[h][e] \in Nat /\ attempts[e] \in Nat /\ faults \in Nat
            BY DEF TypeOK
      <2>2. heard[h][e] <= attempts[e] + faults + (IF Counted(h, e) THEN 1 ELSE 0)
            BY DEF RepeatInv
      <2>3. CASE h = next /\ e = Current
            <3>1. ~Counted(h, e)
                  BY <1>2, <2>3 DEF Counted, Handlers
            <3>2. Counted(h, e)'
                  BY <1>1, <1>2, <2>3 DEF Counted, Handlers
            <3>3. heard'[h][e] <= heard[h][e] + 1
                  BY <1>4, <2>1
            <3>4. QED BY <2>1, <2>2, <3>1, <3>2, <3>3, <1>5
      <2>4. CASE ~(h = next /\ e = Current)
            <3>1. heard'[h][e] = heard[h][e]
                  BY <1>4, <2>4
            <3>2. Counted(h, e) => Counted(h, e)'
                  BY <1>1, <1>2 DEF Counted, Handlers
            <3>3. QED BY <2>1, <2>2, <3>1, <3>2
      <2>5. QED BY <2>3, <2>4
<1>11. QED BY <1>6, <1>7, <1>8, <1>9, <1>10

\* What Advance and Abort do to the parts that only look at the batch.
LEMMA AdvanceInv ==
    ASSUME TypeOK, BatchInv, batch # {}, Advance
    PROVE  /\ batch' = batch \ {Current} /\ batch' \subseteq Seqs
           /\ Cardinality(batch') <= BatchSize
           /\ pc' = IF batch' = {} THEN "idle" ELSE "publishing"
           /\ next' = 1 /\ raised' = FALSE
           /\ \A e \in batch' : attempts[e] < MAX_ATTEMPTS
BY SmallerBatch DEF Advance, Fanout, BatchInv

LEMMA MarkDispatchedInv ==
    ASSUME RInv, MarkDispatched
    PROVE  RInv'
<1> USE RelayAssumption DEF RInv, MarkDispatched
<1>1. batch # {}
      BY DEF BatchInv, Draining
<1>2. Current \in batch /\ Current \in Seqs /\ row[Current] = "pending"
      BY <1>1, CurrentInBatch
<1>3. CASE row' = [row EXCEPT ![Current] = "dispatched"] /\ Advance /\ UNCHANGED faults
      <2>1. /\ batch' = batch \ {Current} /\ batch' \subseteq Seqs
            /\ Cardinality(batch') <= BatchSize
            /\ pc' = IF batch' = {} THEN "idle" ELSE "publishing"
            /\ next' = 1 /\ raised' = FALSE
            /\ \A e \in batch' : attempts[e] < MAX_ATTEMPTS
            BY <1>1, <1>3, AdvanceInv
      <2>2. \A e \in Seqs : row'[e] = IF e = Current THEN "dispatched" ELSE row[e]
            BY <1>2, <1>3 DEF TypeOK
      <2>3. TypeOK'
            <3>1. \A e \in batch' : row'[e] = "pending"
                  BY <2>1, <2>2 DEF TypeOK
            <3>2. row' \in [Seqs -> {"absent", "pending", "dispatched", "dead"}]
                  BY <1>3 DEF TypeOK
            <3>3. QED BY <1>3, <2>1, <3>1, <3>2, EmptyBatch DEF TypeOK
      <2>4. BatchInv'
            BY <2>1 DEF BatchInv, Draining
      <2>5. LogInv'
            BY <1>2, <2>2 DEF LogInv, TypeOK
      <2>6. HeardInv'
            BY <2>1, <2>2 DEF HeardInv
      <2>7. RepeatInv'
            BY <1>3, <2>1, <2>2 DEF RepeatInv, Counted, TypeOK, Handlers
      <2>8. OrderInv'
            <3> SUFFICES ASSUME NEW f \in batch', NEW e \in 1..(f - 1),
                                author[e] = author[f], row'[e] # "absent"
                         PROVE  e \in batch' \/ attempts[e] > 0 \/ row'[e] = "dispatched"
                BY <1>3 DEF OrderInv
            <3>1. f \in batch /\ e \in Seqs
                  BY <2>1 DEF Seqs
            <3>2. CASE e = Current
                  BY <2>2, <3>1, <3>2
            <3>3. CASE e # Current
                  BY <2>1, <2>2, <3>1, <3>3 DEF OrderInv
            <3>4. QED BY <3>2, <3>3
      <2>9. DeadOnlyAfterMaxAttempts'
            BY <1>2, <2>2 DEF DeadOnlyAfterMaxAttempts, BatchInv
      <2>10. QED BY <2>3, <2>4, <2>5, <2>6, <2>7, <2>8, <2>9
<1>4. CASE Fault("mark") /\ Abort /\ UNCHANGED row
      <2> USE <1>4 DEF Fault, Abort, Fanout
      <2>1. TypeOK'
            <3>1. Cardinality(batch') <= BatchSize
                  BY EmptyBatch
            <3>2. faults' \in 0..MaxFaults
                  BY FaultIsCounted
            <3>3. QED BY <3>1, <3>2, EmptyBatch DEF TypeOK
      <2>2. BatchInv' /\ LogInv' /\ HeardInv' /\ OrderInv' /\ DeadOnlyAfterMaxAttempts'
            BY DEF BatchInv, Draining, LogInv, HeardInv, OrderInv, DeadOnlyAfterMaxAttempts
      <2>3. RepeatInv'
            BY DEF RepeatInv, Counted, TypeOK
      <2>4. QED BY <2>1, <2>2, <2>3
<1>5. QED BY <1>3, <1>4

LEMMA MarkFailedInv ==
    ASSUME RInv, MarkFailed
    PROVE  RInv'
<1> USE RelayAssumption DEF RInv, MarkFailed
<1>1. batch # {}
      BY DEF BatchInv, Draining
<1>2. Current \in batch /\ Current \in Seqs /\ row[Current] = "pending"
      BY <1>1, CurrentInBatch
<1>3. CASE /\ attempts' = [attempts EXCEPT ![Current] = @ + 1]
           /\ pc' = "capping" /\ UNCHANGED <<batch, next, raised, faults>>
      <2>1. \A e \in Seqs : attempts'[e] = IF e = Current THEN attempts[e] + 1
                                                         ELSE attempts[e]
            BY <1>2, <1>3 DEF TypeOK
      <2>2. attempts[Current] < MAX_ATTEMPTS
            BY <1>2 DEF BatchInv
      <2>3. attempts' \in [Seqs -> 0..MAX_ATTEMPTS]
            BY <1>2, <1>3, <2>2 DEF TypeOK
      <2>4. TypeOK'
            BY <1>3, <2>3 DEF TypeOK
      <2>5. Current' = Current
            BY <1>3 DEF Current
      <2>6. BatchInv'
            BY <1>2, <1>3, <2>1, <2>5 DEF BatchInv, Draining, TypeOK
      <2>7. LogInv' /\ HeardInv'
            BY <1>3, <2>5 DEF LogInv, HeardInv
      <2>8. RepeatInv'
            BY <1>2, <1>3, <2>1, <2>5 DEF RepeatInv, Counted, TypeOK
      <2>9. OrderInv'
            <3> SUFFICES ASSUME NEW f \in batch, NEW e \in 1..(f - 1),
                                author[e] = author[f], row[e] # "absent"
                         PROVE  e \in batch \/ attempts'[e] > 0 \/ row[e] = "dispatched"
                BY <1>3 DEF OrderInv
            <3>1. e \in Seqs /\ attempts[e] \in Nat
                  BY DEF TypeOK, Seqs
            <3>2. attempts[e] > 0 => attempts'[e] > 0
                  BY <2>1, <3>1
            <3>3. QED BY <3>2 DEF OrderInv
      <2>10. DeadOnlyAfterMaxAttempts'
            BY <1>2, <1>3, <2>1 DEF DeadOnlyAfterMaxAttempts
      <2>11. QED BY <2>4, <2>6, <2>7, <2>8, <2>9, <2>10
<1>4. CASE Fault("mark") /\ Abort /\ UNCHANGED attempts
      <2> USE <1>4 DEF Fault, Abort, Fanout
      <2>1. TypeOK'
            <3>1. Cardinality(batch') <= BatchSize
                  BY EmptyBatch
            <3>2. faults' \in 0..MaxFaults
                  BY FaultIsCounted
            <3>3. QED BY <3>1, <3>2, EmptyBatch DEF TypeOK
      <2>2. BatchInv' /\ LogInv' /\ HeardInv' /\ OrderInv' /\ DeadOnlyAfterMaxAttempts'
            BY DEF BatchInv, Draining, LogInv, HeardInv, OrderInv, DeadOnlyAfterMaxAttempts
      <2>3. RepeatInv'
            BY DEF RepeatInv, Counted, TypeOK
      <2>4. QED BY <2>1, <2>2, <2>3
<1>5. QED BY <1>3, <1>4

LEMMA MaybeDlqInv ==
    ASSUME RInv, _maybe_dlq
    PROVE  RInv'
<1> USE RelayAssumption DEF RInv, _maybe_dlq, Fault
<1>1. batch # {}
      BY DEF BatchInv, Draining
<1>2. Current \in batch /\ Current \in Seqs /\ row[Current] = "pending"
      BY <1>1, CurrentInBatch
<1>3. /\ batch' = batch \ {Current} /\ batch' \subseteq Seqs
      /\ Cardinality(batch') <= BatchSize
      /\ pc' = IF batch' = {} THEN "idle" ELSE "publishing"
      /\ next' = 1 /\ raised' = FALSE
      /\ \A e \in batch' : attempts[e] < MAX_ATTEMPTS
      BY <1>1, AdvanceInv
<1>4. \/ row' = row
      \/ row' = [row EXCEPT ![Current] = "dead"] /\ attempts[Current] = MAX_ATTEMPTS
      <2>1. attempts[Current] \in 0..MAX_ATTEMPTS
            BY <1>2 DEF TypeOK
      <2>2. attempts[Current] >= MAX_ATTEMPTS => attempts[Current] = MAX_ATTEMPTS
            BY <2>1
      <2>3. QED BY <2>2
<1>5. \A e \in Seqs : row'[e] = row[e] \/ (e = Current /\ row'[e] = "dead"
                                          /\ attempts[e] = MAX_ATTEMPTS)
      BY <1>2, <1>4 DEF TypeOK
<1>6. row' \in [Seqs -> {"absent", "pending", "dispatched", "dead"}]
      BY <1>4 DEF TypeOK
<1>7. faults' \in 0..MaxFaults /\ faults' >= faults
      BY DEF TypeOK
<1>8. TypeOK'
      <2>1. \A e \in batch' : row'[e] = "pending"
            BY <1>3, <1>5 DEF TypeOK
      <2>2. QED BY <1>3, <1>6, <1>7, <2>1, EmptyBatch DEF TypeOK
<1>9. BatchInv'
      BY <1>3 DEF BatchInv, Draining
<1>10. LogInv'
      BY <1>2, <1>5 DEF LogInv, TypeOK
<1>11. HeardInv'
      BY <1>3, <1>5 DEF HeardInv
<1>12. RepeatInv'
      <2> SUFFICES ASSUME NEW h \in Handlers, NEW e \in Seqs
                   PROVE  heard[h][e] <= attempts[e] + faults'
                                         + (IF Counted(h, e)' THEN 1 ELSE 0)
          BY DEF RepeatInv
      <2>1. /\ heard[h][e] \in Nat /\ attempts[e] \in Nat
            /\ faults \in Nat /\ faults' \in Nat /\ faults' >= faults
            BY <1>7 DEF TypeOK
      <2>2. heard[h][e] <= attempts[e] + faults + (IF Counted(h, e) THEN 1 ELSE 0)
            BY DEF RepeatInv
      <2>3. Counted(h, e) => row'[e] = "dispatched"
            BY <1>2, <1>5 DEF Counted
      <2>4. Counted(h, e) => Counted(h, e)'
            BY <2>3 DEF Counted
      <2>5. QED BY <2>1, <2>2, <2>4
<1>13. OrderInv'
      <2> SUFFICES ASSUME NEW f \in batch', NEW e \in 1..(f - 1),
                          author[e] = author[f], row'[e] # "absent"
                   PROVE  e \in batch' \/ attempts[e] > 0 \/ row'[e] = "dispatched"
          BY DEF OrderInv
      <2>1. f \in batch /\ e \in Seqs
            BY <1>3 DEF Seqs
      <2>2. CASE e = Current
            BY <2>2 DEF BatchInv
      <2>3. CASE e # Current
            BY <1>3, <1>5, <2>1, <2>3 DEF OrderInv
      <2>4. QED BY <2>2, <2>3
<1>14. DeadOnlyAfterMaxAttempts'
      BY <1>5 DEF DeadOnlyAfterMaxAttempts
<1>15. QED BY <1>8, <1>9, <1>10, <1>11, <1>12, <1>13, <1>14

LEMMA LifecycleInv ==
    ASSUME RInv, Stop \/ Exit \/ Die \/ Start
    PROVE  RInv'
<1> USE RelayAssumption DEF RInv, Fault, Fanout, dbVars, Up
<1>1. CASE Stop
      <2> USE <1>1 DEF Stop
      <2>1. TypeOK'
            <3>1. faults' \in 0..MaxFaults
                  BY FaultIsCounted
            <3>2. QED BY <3>1 DEF TypeOK
      <2>2. BatchInv' /\ LogInv' /\ HeardInv' /\ OrderInv' /\ DeadOnlyAfterMaxAttempts'
            BY DEF BatchInv, Draining, Current, LogInv, HeardInv, OrderInv,
               DeadOnlyAfterMaxAttempts
      <2>3. RepeatInv'
            BY DEF RepeatInv, Counted, Current, TypeOK
      <2>4. QED BY <2>1, <2>2, <2>3
<1>2. CASE Exit
      BY <1>2 DEF Exit, TypeOK, BatchInv, Draining, Current, LogInv, HeardInv, RepeatInv,
         Counted, OrderInv, DeadOnlyAfterMaxAttempts
<1>3. CASE Die
      <2> USE <1>3 DEF Die
      <2>1. TypeOK'
            <3>1. Cardinality(batch') <= BatchSize
                  BY EmptyBatch
            <3>2. faults' \in 0..MaxFaults
                  BY FaultIsCounted DEF TypeOK
            <3>3. QED BY <3>1, <3>2, EmptyBatch DEF TypeOK
      <2>2. BatchInv' /\ LogInv' /\ HeardInv' /\ OrderInv' /\ DeadOnlyAfterMaxAttempts'
            BY DEF BatchInv, Draining, LogInv, HeardInv, OrderInv, DeadOnlyAfterMaxAttempts
      <2>3. RepeatInv'
            BY DEF RepeatInv, Counted, TypeOK
      <2>4. QED BY <2>1, <2>2, <2>3
<1>4. CASE Start
      BY <1>4 DEF Start, TypeOK, BatchInv, Draining, Current, LogInv, HeardInv, RepeatInv,
         Counted, OrderInv, DeadOnlyAfterMaxAttempts
<1>5. QED BY <1>1, <1>2, <1>3, <1>4

LEMMA StepInv == RInv /\ [Next]_vars => RInv'
<1> SUFFICES ASSUME RInv, [Next]_vars PROVE RInv'
    OBVIOUS
<1>1. CASE UNCHANGED vars
      BY <1>1 DEF RInv, vars, dbVars, relayVars, TypeOK, BatchInv, Draining, Current, LogInv,
         HeardInv, RepeatInv, Counted, OrderInv, DeadOnlyAfterMaxAttempts
<1>2. CASE Next
      BY <1>2, InsertInv, CommitInv, RollbackInv, FetchInv, HandleInv, MarkDispatchedInv,
         MarkFailedInv, MaybeDlqInv, LifecycleInv DEF Next, Drain
<1>3. QED BY <1>1, <1>2

\* Every reachable state satisfies RInv.
THEOREM RelayInvariance == Spec => []RInv
BY InitInv, StepInv, PTL DEF Spec

\* The relay's variables keep their types, a drain holds at most one batch,
\* and nobody else settles what it holds.
THEOREM RelayTypes == Spec => []TypeOK
BY RelayInvariance, PTL DEF RInv

\* Dead-lettered events used up their attempts, delivered ones did not.
THEOREM DeadLettersUsedTheirAttempts == Spec => []DeadOnlyAfterMaxAttempts
BY RelayInvariance, PTL DEF RInv

\* Each repeated delivery has a failed attempt or a fault of its own.
THEOREM RepeatsAreAccountedFor == Spec => []RepeatsHaveACause
<1>1. RInv => RepeatsHaveACause
      <2> SUFFICES ASSUME RInv, NEW h \in Handlers, NEW e \in Seqs
                   PROVE  heard[h][e] <= attempts[e] + faults + 1
          BY DEF RepeatsHaveACause
      <2>1. heard[h][e] \in Nat /\ attempts[e] \in Nat /\ faults \in Nat
            BY RelayAssumption DEF RInv, TypeOK
      <2>2. heard[h][e] <= attempts[e] + faults + (IF Counted(h, e) THEN 1 ELSE 0)
            BY DEF RInv, RepeatInv
      <2>3. QED BY <2>1, <2>2
<1>2. QED BY <1>1, RelayInvariance, PTL

\* Only a failed publish lets a handler see an author's events out of order.
THEOREM AuthorsAreNotOvertaken == Spec => OvertakenOnlyAfterFailure
<1> DEFINE InOrder ==
        \A h \in Handlers, f \in Seqs :
            heard'[h][f] > heard[h][f] =>
                \A e \in 1..(f - 1) :
                    author[e] = author[f] /\ row[e] # "absent" =>
                        heard[h][e] > 0 \/ attempts[e] > 0
<1>1. ASSUME RInv, Next PROVE InOrder
      <2> SUFFICES ASSUME NEW h \in Handlers, NEW f \in Seqs,
                          heard'[h][f] > heard[h][f],
                          NEW e \in 1..(f - 1),
                          author[e] = author[f], row[e] # "absent"
                   PROVE  heard[h][e] > 0 \/ attempts[e] > 0
          OBVIOUS
      <2>1. heard \in [Handlers -> [Seqs -> Nat]] /\ e \in Seqs /\ e < f
            <3>1. heard \in [Handlers -> [Seqs -> Nat]]
                  BY <1>1 DEF RInv, TypeOK
            <3>2. f \in Nat /\ f <= MaxSeq /\ e \in Nat /\ e >= 1 /\ e <= f - 1
                  BY RelayAssumption DEF Seqs
            <3>3. QED BY <3>1, <3>2, RelayAssumption DEF Seqs
      <2>2. heard' # heard
            BY <2>1
      <2>3. Handle
            BY <1>1, <2>2 DEF Next, Drain, Insert, Commit, Rollback, Fetch, MarkDispatched,
               MarkFailed, _maybe_dlq, Stop, Exit, Die, Start
      <2>4. batch # {}
            BY <1>1, <2>3 DEF RInv, BatchInv, Draining, Handle
      <2>5. Current \in batch /\ Current \in Seqs /\ \A g \in batch : Current <= g
            BY <1>1, <2>4, CurrentInBatch DEF RInv
      <2>6. f = Current
            BY <2>1, <2>3, <2>5 DEF Handle
      <2>7. e \notin batch
            BY <2>1, <2>5, <2>6, RelayAssumption DEF Seqs
      <2>8. attempts[e] > 0 \/ row[e] = "dispatched"
            BY <1>1, <2>5, <2>6, <2>7 DEF RInv, OrderInv
      <2>9. QED BY <1>1, <2>1, <2>8 DEF RInv, HeardInv
<1>2. ASSUME RInv, [Next]_vars PROVE [InOrder]_vars
      BY <1>1, <1>2
<1>3. QED BY <1>2, RelayInvariance, PTL DEF Spec, OvertakenOnlyAfterFailure

-----------------------------------------------------------------------------
(* The relay, its retries and its restarts implement Delivery.             *)

Reached == [e \in Seqs |-> {h \in Handlers : heard[h][e] > 0}]

LEMMA RefinesStep ==
    ASSUME RInv, RInv', [Next]_vars
    PROVE  [Promise!Next]_<<row, Reached>>
<1> USE DEF Promise!Next
<1>1. ASSUME UNCHANGED <<row, heard>>
      PROVE  [Promise!Next]_<<row, Reached>>
      BY <1>1 DEF Reached
<1>2. CASE UNCHANGED vars
      BY <1>1, <1>2 DEF vars, dbVars
<1>3. ASSUME NEW p \in Producers, Insert(p) \/ Commit(p) \/ Rollback(p)
      PROVE  [Promise!Next]_<<row, Reached>>
      <2>1. CASE Insert(p) \/ Rollback(p)
            BY <1>1, <2>1 DEF Insert, Rollback
      <2>2. CASE Commit(p)
            <3>1. txn[p] \in SUBSET Seqs /\ \A e \in txn[p] : row[e] = "absent"
                  BY DEF RInv, TypeOK, LogInv
            <3>2. Promise!Commit(txn[p])
                  BY <2>2, <3>1 DEF Promise!Commit, Commit, Reached
            <3>3. QED BY <3>1, <3>2
      <2>3. QED BY <1>3, <2>1, <2>2
<1>4. CASE Fetch \/ Exit \/ MarkFailed \/ Stop \/ Die \/ Start
      BY <1>1, <1>4 DEF Fetch, Exit, MarkFailed, Stop, Die, Start, dbVars
<1>5. ASSUME Draining PROVE Current \in Seqs /\ row[Current] = "pending"
      BY <1>5, CurrentInBatch DEF RInv, BatchInv
<1>6. CASE Handle
      <2>1. /\ Current \in Seqs /\ row[Current] = "pending"
            /\ next \in Handlers /\ row' = row
            /\ heard \in [Handlers -> [Seqs -> Nat]]
            BY <1>5, <1>6 DEF Handle, Draining, RInv, TypeOK, dbVars
      <2>2. CASE heard' = heard
            BY <1>1, <2>1, <2>2
      <2>3. CASE heard' = [heard EXCEPT ![next][Current] = @ + 1]
            <3>1. \A h \in Handlers, e \in Seqs :
                      heard'[h][e] > 0 <=> heard[h][e] > 0 \/ (h = next /\ e = Current)
                  BY <2>1, <2>3
            <3>2. Reached' = [Reached EXCEPT ![Current] = @ \cup {next}]
                  BY <2>1, <3>1 DEF Reached
            <3>3. PICK e \in Seqs, h \in Handlers : e = Current /\ h = next
                  BY <2>1
            <3>4. Promise!Reach(e, h)
                  BY <2>1, <3>2, <3>3 DEF Promise!Reach, Reached
            <3>5. QED BY <3>4
      <2>4. QED BY <1>6, <2>2, <2>3 DEF Handle
<1>7. CASE MarkDispatched
      <2>1. Current \in Seqs /\ row[Current] = "pending"
            BY <1>5, <1>7 DEF MarkDispatched, Draining
      <2>2. CASE row' = row
            BY <1>1, <1>7, <2>2 DEF MarkDispatched
      <2>3. CASE row' = [row EXCEPT ![Current] = "dispatched"]
            <3>1. Reached[Current] = Handlers
                  BY <1>7, <2>1 DEF MarkDispatched, RInv, HeardInv, Reached
            <3>2. Promise!Settle(Current, "dispatched")
                  BY <1>7, <2>1, <2>3, <3>1
                  DEF Promise!Settle, MarkDispatched, Reached, RInv, TypeOK
            <3>3. QED BY <2>1, <3>2
      <2>4. QED BY <1>7, <2>2, <2>3 DEF MarkDispatched
<1>8. CASE _maybe_dlq
      <2>1. Current \in Seqs /\ row[Current] = "pending"
            BY <1>5, <1>8 DEF _maybe_dlq, Draining
      <2>2. CASE row' = row
            BY <1>1, <1>8, <2>2 DEF _maybe_dlq
      <2>3. CASE row' = [row EXCEPT ![Current] = "dead"]
            <3>1. Promise!Settle(Current, "dead")
                  BY <1>8, <2>1, <2>3
                  DEF Promise!Settle, _maybe_dlq, Reached, RInv, TypeOK
            <3>2. QED BY <2>1, <3>1
      <2>4. QED BY <1>8, <2>2, <2>3 DEF _maybe_dlq
<1>9. QED BY <1>2, <1>3, <1>4, <1>6, <1>7, <1>8 DEF Next, Drain

\* An event reaches nobody before its commit or after its settlement, and is
\* settled as dispatched only when everybody has it.
THEOREM RelayImplementsDelivery == Spec => ImplementsDelivery
<1>1. Init => Promise!Init
      BY DEF Init, Promise!Init
<1>2. RInv /\ RInv' /\ [Next]_vars => [Promise!Next]_<<row, Reached>>
      BY RefinesStep
<1>3. QED BY <1>1, <1>2, RelayInvariance, PTL
          DEF Spec, ImplementsDelivery, Promise!Spec, Reached
=============================================================================
