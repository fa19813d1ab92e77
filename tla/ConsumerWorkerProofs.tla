------------------------ MODULE ConsumerWorkerProofs ------------------------
(***************************************************************************)
(* Proofs, for all values of the constants, of what TLC checks of          *)
(* ConsumerWorker on small instances: the inductive invariant IInv and the *)
(* safety properties that follow from it.                                  *)
(***************************************************************************)
EXTENDS ConsumerWorker, OffsetProofs

-----------------------------------------------------------------------------
(* Rows and tables                                                         *)

\* Being at least as recent is transitive.
LEMMA NeverOlderTransitive ==
    ASSUME NEW a \in Tables, NEW b \in Tables, NEW c \in Tables,
           NeverOlder(a, b), NeverOlder(b, c)
    PROVE  NeverOlder(a, c)
<1> SUFFICES ASSUME NEW id \in Ids, a[id] # NoRow
             PROVE  c[id] # NoRow /\ c[id].ts >= a[id].ts
  BY DEF NeverOlder
<1>1. a[id] \in Row /\ b[id] \in Row /\ c[id] \in Row
  BY DEF NeverOlder, Tables
<1> QED
  BY <1>1 DEF NeverOlder, Row

\* Tables that stay as they are have not become older.
LEMMA NeverOlderReflexive ==
    ASSUME NEW a \in Tables
    PROVE  NeverOlder(a, a)
<1> SUFFICES ASSUME NEW id \in Ids, a[id] # NoRow
             PROVE  a[id].ts >= a[id].ts
  BY DEF NeverOlder
<1> QED
  BY DEF Tables, Row

\* Tables that only get more recent keep reflecting what they reflected.
LEMMA ReflectsIsStable ==
    ASSUME NEW old \in Tables, NEW new \in Tables, NeverOlder(old, new),
           NEW m \in Message, Reflects(old, m)
    PROVE  Reflects(new, m)
<1>1. m.id \in Ids /\ m.ts \in Nat
  BY DEF Message
<1>2. old[m.id] \in Row /\ new[m.id] \in Row
  BY <1>1 DEF Reflects, Tables, NeverOlder
<1> QED
  BY <1>1, <1>2 DEF Reflects, NeverOlder, Row

\* What the upsert guarantees: proper tables, nothing older than before, the
\* event reflected, and no key touched but its own.
LEMMA UpsertProperties ==
    ASSUME NEW table \in Tables, NEW m \in Message, m.kind = "event"
    PROVE  /\ Upsert(table, m) \in Tables
           /\ NeverOlder(table, Upsert(table, m))
           /\ Reflects(Upsert(table, m), m)
           /\ \A id \in Ids \ {m.id} : Upsert(table, m)[id] = table[id]
<1>1. m.id \in Ids /\ RowOf(m) \in Row /\ m.ts \in Nat /\ RowOf(m).ts = m.ts
  BY DEF Message, RowOf, Row
<1>2. NoRow \notin Row
  BY RowStoreAssumption
<1>3. \A id \in Ids : table[id] # NoRow => table[id] \in Row /\ table[id].ts \in Nat
  BY DEF Tables, Row
<1>4. CASE TakesEffect(table, m)
  <2>1. Upsert(table, m) = [table EXCEPT ![m.id] = RowOf(m)]
    BY <1>4 DEF Upsert
  <2>2. Upsert(table, m) \in Tables
    BY <1>1, <2>1 DEF Tables
  <2>3. Upsert(table, m)[m.id] = RowOf(m)
    BY <1>1, <2>1 DEF Tables
  <2>4. \A id \in Ids \ {m.id} : Upsert(table, m)[id] = table[id]
    BY <2>1 DEF Tables
  <2>5. table[m.id] # NoRow => m.ts >= table[m.id].ts
    BY <1>1, <1>3, <1>4 DEF TakesEffect, NoTime
  <2>6. \A id \in Ids : table[id] # NoRow =>
           Upsert(table, m)[id] # NoRow /\ Upsert(table, m)[id].ts >= table[id].ts
    BY <1>1, <1>2, <1>3, <2>3, <2>4, <2>5
  <2> QED
    BY <1>1, <1>2, <2>2, <2>3, <2>4, <2>6 DEF NeverOlder, Reflects
<1>5. CASE ~TakesEffect(table, m)
  <2>1. Upsert(table, m) = table
    BY <1>5 DEF Upsert
  <2>2. table[m.id] # NoRow /\ table[m.id].ts >= m.ts
    BY <1>1, <1>3, <1>5 DEF TakesEffect, Message
  <2> QED
    BY <2>1, <2>2, NeverOlderReflexive DEF Reflects
<1> QED
  BY <1>4, <1>5

-----------------------------------------------------------------------------
(* The log                                                                 *)

\* Where there is a message, it is one of Messages.
LEMMA EventType ==
    ASSUME TypeOK, NEW x \in Positions, x[2] < Len(log[x[1]])
    PROVE  EventAt(x) \in Messages /\ EventAt(x) \in Message
<1>1. x[1] \in Partitions /\ x[2] \in Nat
  BY WorkerAssumption DEF Positions
<1>2. log[x[1]] \in Seq(Messages)
  BY <1>1 DEF TypeOK
<1>3. x[2] + 1 \in 1..Len(log[x[1]])
  BY <1>1, <1>2
<1> QED
  BY <1>2, <1>3, WorkerAssumption DEF EventAt

\* Everything the worker remembers of its batch is a message of the log.
LEMMA BatchEvents ==
    ASSUME IInv, NEW x \in batch
    PROVE  /\ x \in Positions
           /\ x[1] \in Partitions /\ x[2] \in Nat
           /\ x[2] < Len(log[x[1]])
           /\ EventAt(x) \in Messages /\ EventAt(x) \in Message
<1>1. x \in Positions /\ x[1] \in Partitions /\ x[2] \in Nat
  BY WorkerAssumption DEF IInv, TypeOK, Positions
<1>2. x[2] < position[x[1]] /\ position[x[1]] <= Len(log[x[1]])
  BY <1>1 DEF IInv, BatchShape, OffsetsInLog
<1>3. x[2] < Len(log[x[1]])
  <2>1. position[x[1]] \in Nat /\ Len(log[x[1]]) \in Nat
    BY <1>1 DEF IInv, TypeOK
  <2> QED
    BY <1>1, <1>2, <2>1
<1> QED
  BY <1>1, <1>3, EventType DEF IInv

-----------------------------------------------------------------------------
(* Seeking and committing                                                  *)

\* The first and the last offset of a batch in a partition exist and bound the
\* others: what _rewind's min and _commit's max return.
LEMMA OffsetsInProperties ==
    ASSUME NEW S \in SUBSET Positions, NEW p \in Partitions, OffsetsIn(S, p) # {}
    PROVE  /\ OffsetsIn(S, p) \in SUBSET (0..(MaxLog - 1))
           /\ Min(OffsetsIn(S, p)) \in OffsetsIn(S, p)
           /\ Max(OffsetsIn(S, p)) \in OffsetsIn(S, p)
           /\ \A o \in OffsetsIn(S, p) :
                 Min(OffsetsIn(S, p)) <= o /\ o <= Max(OffsetsIn(S, p))
<1> DEFINE O == OffsetsIn(S, p)
<1>1. O \in SUBSET (0..(MaxLog - 1)) /\ O \in SUBSET Nat
  BY WorkerAssumption DEF OffsetsIn
<1> HIDE DEF O
<1>2. O # {} => Min(O) \in O /\ \A o \in O : Min(O) <= o
  BY <1>1, MinOfNaturals
<1>3. O # {} => Max(O) \in O /\ \A o \in O : o <= Max(O)
  BY <1>1, MaxOfOffsets, WorkerAssumption
<1> QED
  BY <1>1, <1>2, <1>3 DEF O

\* _rewind seeks to a position no later than the present one, and before
\* which nothing of what it rewinds lies.
LEMMA RewindProperties ==
    ASSUME IInv, NEW S \in SUBSET batch
    PROVE  /\ RewoundTo(S) \in [Partitions -> Nat]
           /\ \A p \in Partitions : RewoundTo(S)[p] <= position[p]
           /\ \A p \in Partitions : \A o \in 0..(RewoundTo(S)[p] - 1) :
                 <<p, o>> \notin S
<1>1. S \subseteq Positions /\ \A x \in S : x[2] < position[x[1]]
  BY DEF IInv, TypeOK, BatchShape
<1>2. position \in [Partitions -> Nat]
  BY DEF IInv, TypeOK
<1>3. ASSUME NEW p \in Partitions
      PROVE  /\ RewoundTo(S)[p] \in Nat
             /\ RewoundTo(S)[p] <= position[p]
             /\ \A o \in 0..(RewoundTo(S)[p] - 1) : <<p, o>> \notin S
  <2>1. CASE OffsetsIn(S, p) = {}
    <3>1. RewoundTo(S)[p] = position[p]
      BY <2>1 DEF RewoundTo
    <3>2. ASSUME NEW o \in Nat, <<p, o>> \in S PROVE FALSE
      <4>1. <<p, o>> \in Positions
        BY <1>1, <3>2
      <4>2. o \in 0..(MaxLog - 1)
        BY <4>1 DEF Positions
      <4> QED
        BY <2>1, <3>2, <4>2 DEF OffsetsIn
    <3> QED
      BY <1>2, <3>1, <3>2
  <2>2. CASE OffsetsIn(S, p) # {}
    <3> DEFINE m == Min(OffsetsIn(S, p))
    <3>1. /\ m \in OffsetsIn(S, p)
          /\ \A o \in OffsetsIn(S, p) : m <= o
      BY <1>1, <2>2, OffsetsInProperties
    <3>2. RewoundTo(S)[p] = m
      BY <2>2 DEF RewoundTo
    <3>3. m \in Nat /\ <<p, m>> \in S
      BY <3>1, WorkerAssumption DEF OffsetsIn
    <3>4. m < position[p]
      <4>1. <<p, m>>[2] < position[<<p, m>>[1]]
        BY <1>1, <3>3, Zenon
      <4> QED
        BY <4>1
    <3>5. ASSUME NEW o \in 0..(m - 1) PROVE <<p, o>> \notin S
      <4>1. SUFFICES ASSUME <<p, o>> \in S PROVE FALSE
        OBVIOUS
      <4>2. <<p, o>> \in Positions
        BY <1>1, <4>1
      <4>3. o \in OffsetsIn(S, p)
        BY <4>1, <4>2 DEF OffsetsIn, Positions
      <4> HIDE DEF m
      <4>4. m <= o
        BY <3>1, <4>3
      <4> QED
        BY <3>3, <4>4
    <3> HIDE DEF m
    <3> QED
      BY <1>2, <3>2, <3>3, <3>4, <3>5
  <2> QED
    BY <2>1, <2>2
<1> QED
  BY <1>3 DEF RewoundTo

\* _commit covers the batch and nothing behind the fetch position.
LEMMA CommitProperties ==
    ASSUME IInv, NEW Q \in SUBSET Partitions, NEW p \in Partitions
    PROVE  LET n == CommittedAfter(batch, Q) IN
           /\ n \in [Partitions -> Nat]
           /\ n[p] = committed[p] \/ (n[p] \in Nat /\ n[p] <= position[p])
<1>1. /\ batch \subseteq Positions /\ \A x \in batch : x[2] < position[x[1]]
      /\ committed \in [Partitions -> Nat] /\ position \in [Partitions -> Nat]
  BY DEF IInv, TypeOK, BatchShape
<1> DEFINE n == CommittedAfter(batch, Q)
<1>2. ASSUME NEW q \in Partitions
      PROVE  /\ n[q] \in Nat
             /\ n[q] = committed[q] \/ n[q] <= position[q]
  <2>1. CASE q \notin Q \/ OffsetsIn(batch, q) = {}
    BY <1>1, <2>1 DEF CommittedAfter
  <2>2. CASE ~(q \notin Q \/ OffsetsIn(batch, q) = {})
    <3> DEFINE m == Max(OffsetsIn(batch, q))
    <3>1. n[q] = m + 1
      BY <2>2 DEF CommittedAfter
    <3>2. m \in OffsetsIn(batch, q)
      BY <1>1, <2>2, OffsetsInProperties
    <3>3. m \in Nat /\ <<q, m>> \in batch
      BY <3>2, WorkerAssumption DEF OffsetsIn
    <3>4. m < position[q]
      <4>1. <<q, m>>[2] < position[<<q, m>>[1]]
        BY <1>1, <3>3, Zenon
      <4> QED
        BY <4>1
    <3> HIDE DEF m, n
    <3> QED
      BY <1>1, <3>1, <3>3, <3>4
  <2> QED
    BY <2>1, <2>2
<1>3. n \in [Partitions -> Nat]
  BY <1>2 DEF CommittedAfter
<1> QED
  BY <1>2, <1>3

-----------------------------------------------------------------------------
(* What is settled                                                         *)

\* Nothing that is settled becomes unsettled while rows only get more recent
\* and dead-letter topics only grow.
LEMMA SettledGrows ==
    ASSUME IInv, log' = log, db' \in Tables, NeverOlder(db, db'), dlq \subseteq dlq'
    PROVE  Settled \subseteq Settled'
<1> SUFFICES ASSUME NEW x \in Settled PROVE x \in Settled'
  OBVIOUS
<1>1. x \in Positions /\ x[2] < Len(log[x[1]])
  BY DEF Settled
<1>2. EventAt(x) \in Message /\ EventAt(x)' = EventAt(x)
  BY <1>1, EventType DEF IInv, EventAt
<1>3. Reflects(db, EventAt(x)) => Reflects(db', EventAt(x))
  BY <1>2, ReflectsIsStable DEF IInv, TypeOK
<1> QED
  BY <1>1, <1>2, <1>3 DEF Settled, EventAt

\* A batch whose events are all reflected or in a dead-letter topic is settled.
LEMMA BatchSettled ==
    ASSUME IInv, pc = "commit"
    PROVE  batch \subseteq Settled
<1> SUFFICES ASSUME NEW x \in batch PROVE x \in Settled
  OBVIOUS
<1>1. x \in Positions /\ x[2] < Len(log[x[1]])
  BY BatchEvents
<1>2. rows = {} /\ left = {} /\ tried = poison /\ ~dlqFailed
  BY DEF IInv, BatchShape, Diverted
<1>3. x \in poison => x \in dlq
  BY <1>2 DEF IInv, Diverted
<1>4. x \notin poison => Reflects(db, EventAt(x))
  BY <1>2 DEF IInv, Accounted, Processing
<1> QED
  BY <1>1, <1>3, <1>4 DEF Settled

-----------------------------------------------------------------------------
(* The invariant holds initially                                           *)

\* A new worker on fresh topics satisfies the invariant.
LEMMA InitInvariant == Init => IInv
<1> SUFFICES ASSUME Init PROVE IInv
  OBVIOUS
<1>1. db \in Tables
  BY WorkerAssumption DEF Init
<1>2. TypeOK
  <2>1. dlqFailed \in BOOLEAN /\ isolating \in BOOLEAN /\ stop \in BOOLEAN /\ pc \in PCs
    BY DEF Init, PCs
  <2>2. 0 \in 0..MaxRetries /\ 0 \in 0..MaxFaults
    BY WorkerAssumption
  <2>3. /\ log \in [Partitions -> Seq(Messages)]
        /\ committed \in [Partitions -> Nat] /\ position \in [Partitions -> Nat]
    BY DEF Init
  <2> QED
    BY <1>1, <2>1, <2>2, <2>3 DEF Init, TypeOK
<1>3. OffsetsInLog
  BY WorkerAssumption DEF Init, OffsetsInLog
<1>4. BatchShape
  BY DEF Init, BatchShape
<1>5. Accounted
  BY DEF Init, Accounted, Processing
<1>6. OpenTransaction
  BY <1>1, NeverOlderReflexive DEF Init, OpenTransaction
<1>7. IsolationShape /\ PoisonIsPermanent /\ Diverted
  BY DEF Init, IsolationShape, PoisonIsPermanent, Diverted
<1>8. NoGapWhileProcessing /\ CommittedIsSettled
  BY DEF Init, NoGapWhileProcessing, CommittedIsSettled
<1> QED
  BY <1>2, <1>3, <1>4, <1>5, <1>6, <1>7, <1>8 DEF IInv

-----------------------------------------------------------------------------
(* Steps that end the processing of a batch                                *)

\* Leave forgets the batch: the invariant then only asks about the database,
\* the committed offsets and the position the worker goes on from.
LEMMA LeaveInvariant ==
    ASSUME IInv,
           NEW next \in {"poll", "down"}, NEW pos \in [Partitions -> Nat],
           Leave(next, pos),
           log' = log, dlq' = dlq,
           db' \in Tables, NeverOlder(db, db'), work' = db',
           committed' \in [Partitions -> Nat],
           \A p \in Partitions : committed'[p] <= Len(log[p]),
           CommittedIsSettled',
           next = "poll" => \A p \in Partitions : pos[p] <= Len(log[p]),
           next = "poll" /\ ~stop =>
               \A p \in Partitions : \A o \in 0..(pos[p] - 1) : <<p, o>> \in Settled,
           stop' = stop, faults' \in 0..MaxFaults
    PROVE  IInv'
<1>1. TypeOK'
  <2>1. 0 \in 0..MaxRetries /\ pc' \in PCs
    BY WorkerAssumption DEF Leave, PCs
  <2>2. dlqFailed' \in BOOLEAN /\ isolating' \in BOOLEAN /\ stop' \in BOOLEAN
    BY DEF Leave, IInv, TypeOK
  <2> QED
    BY <2>1, <2>2 DEF IInv, TypeOK, Leave
<1>2. OffsetsInLog'
  BY DEF IInv, OffsetsInLog, Leave
<1>3. BatchShape'
  BY DEF BatchShape, Leave
<1>4. Accounted'
  BY DEF Accounted, Processing, Leave
<1>5. OpenTransaction'
  BY NeverOlderReflexive DEF OpenTransaction, Leave
<1>6. IsolationShape' /\ PoisonIsPermanent' /\ Diverted'
  BY DEF IsolationShape, PoisonIsPermanent, Diverted, Leave
<1>7. NoGapWhileProcessing'
  <2>1. Settled \subseteq Settled'
    BY SettledGrows
  <2>2. pc' = next /\ position' = pos /\ batch' = {}
    BY DEF Leave
  <2> QED
    BY <2>1, <2>2 DEF NoGapWhileProcessing
<1> QED
  BY <1>1, <1>2, <1>3, <1>4, <1>5, <1>6, <1>7 DEF IInv

\* Leaving without touching Kafka or PostgreSQL, with an open transaction
\* rolled back.
LEMMA QuietLeaveInvariant ==
    ASSUME IInv,
           NEW next \in {"poll", "down"}, NEW pos \in [Partitions -> Nat],
           Leave(next, pos),
           UNCHANGED <<kafka, db, stop>>, work' = db,
           next = "poll" => \A p \in Partitions : pos[p] <= Len(log[p]),
           next = "poll" /\ ~stop =>
               \A p \in Partitions : \A o \in 0..(pos[p] - 1) : <<p, o>> \in Settled,
           faults' \in 0..MaxFaults
    PROVE  IInv'
<1>1. /\ log' = log /\ dlq' = dlq /\ committed' = committed /\ db' = db /\ stop' = stop
  BY DEF kafka
<1>2. db \in Tables /\ committed \in [Partitions -> Nat]
  BY DEF IInv, TypeOK
<1>3. NeverOlder(db, db')
  BY <1>1, <1>2, NeverOlderReflexive
<1>4. CommittedIsSettled'
  BY <1>1 DEF IInv, CommittedIsSettled, Settled, EventAt
<1>5. \A p \in Partitions : committed'[p] <= Len(log[p])
  BY <1>1 DEF IInv, OffsetsInLog
<1> QED
  BY <1>1, <1>2, <1>3, <1>4, <1>5, LeaveInvariant

\* A seek to the beginning of the whole batch leaves no gap.
LEMMA RewindLeavesNoGap ==
    ASSUME IInv, Processing
    PROVE  /\ RewoundTo(batch) \in [Partitions -> Nat]
           /\ \A p \in Partitions : RewoundTo(batch)[p] <= Len(log[p])
           /\ \A p \in Partitions : \A o \in 0..(RewoundTo(batch)[p] - 1) :
                 <<p, o>> \in Settled
<1> DEFINE pos == RewoundTo(batch)
<1>1. /\ pos \in [Partitions -> Nat]
      /\ \A p \in Partitions : pos[p] <= position[p]
      /\ \A p \in Partitions : \A o \in 0..(pos[p] - 1) : <<p, o>> \notin batch
  BY RewindProperties
<1> HIDE DEF pos
<1>2. /\ position \in [Partitions -> Nat]
      /\ \A p \in Partitions : Len(log[p]) \in Nat /\ position[p] <= Len(log[p])
  BY DEF IInv, TypeOK, OffsetsInLog, Processing
<1>3. \A p \in Partitions : pos[p] <= Len(log[p])
  BY <1>1, <1>2
<1>4. ASSUME NEW p \in Partitions, NEW o \in 0..(pos[p] - 1)
      PROVE  <<p, o>> \in Settled
  <2>1. o \in 0..(position[p] - 1)
    BY <1>1, <1>2
  <2>2. <<p, o>> \in Settled \cup batch
    BY <2>1 DEF IInv, NoGapWhileProcessing, Processing
  <2> QED
    BY <1>1, <2>2
<1> QED
  BY <1>1, <1>3, <1>4 DEF pos

\* Every way of leaving a batch unfinished: each seeks back far enough, or
\* ends the process (RewindLeavesNoGap).
LEMMA LeavingStepsInvariant ==
    ASSUME IInv,
           \/ PollError \/ StopPolling \/ GiveUp \/ FatalError \/ StopDelivery \/ Crash
           \/ EndDelivery /\ dlqFailed
    PROVE  IInv'
<1>1. /\ faults \in 0..MaxFaults /\ position \in [Partitions -> Nat]
      /\ pc # "write" => work = db
      /\ rows \subseteq batch
  BY DEF IInv, TypeOK, BatchShape
<1>2. Faulty => faults' \in 0..MaxFaults
  BY <1>1, WorkerAssumption DEF Faulty
<1>3. CASE PollError \/ Crash
  <2>1. Leave("down", position) /\ UNCHANGED <<kafka, db, stop>> /\ work' = db
    BY <1>1, <1>3 DEF PollError, Crash, Exit
  <2>2. faults' \in 0..MaxFaults
    BY <1>2, <1>3 DEF PollError, Crash
  <2> QED
    BY <1>1, <2>1, <2>2, QuietLeaveInvariant
<1>4. CASE StopPolling
  <2>1. RewoundTo(batch) \in [Partitions -> Nat]
    BY RewindProperties
  <2>2. Leave("down", RewoundTo(batch)) /\ UNCHANGED <<kafka, db, stop, faults>> /\ work' = db
    BY <1>1, <1>4 DEF StopPolling, Exit
  <2> QED
    BY <1>1, <2>1, <2>2, QuietLeaveInvariant
<1>5. CASE FatalError
  <2>1. RewoundTo(RewindScope) \in [Partitions -> Nat]
    BY <1>1, RewindProperties DEF RewindScope
  <2>2. Leave("down", RewoundTo(RewindScope)) /\ UNCHANGED <<kafka, db, stop, faults>> /\ work' = db
    BY <1>5 DEF FatalError, Exit
  <2> QED
    BY <1>1, <2>1, <2>2, QuietLeaveInvariant
<1>6. CASE GiveUp
  <2> DEFINE pos == RewoundTo(RewindScope)
  <2>1. /\ pos \in [Partitions -> Nat]
        /\ \A p \in Partitions : pos[p] <= position[p]
    BY <1>1, RewindProperties DEF RewindScope
  <2>2. /\ Leave("poll", pos) /\ stop
        /\ UNCHANGED <<kafka, db, stop, faults>> /\ work' = db
    BY <1>1, <1>6 DEF GiveUp, NextRound
  <2> HIDE DEF pos
  <2>3. \A p \in Partitions : pos[p] <= Len(log[p])
    <3>1. \A p \in Partitions : Len(log[p]) \in Nat /\ position[p] <= Len(log[p])
      BY <1>6 DEF IInv, TypeOK, OffsetsInLog, GiveUp
    <3> QED
      BY <1>1, <2>1, <3>1
  <2> QED
    BY <1>1, <2>1, <2>2, <2>3, QuietLeaveInvariant
<1>7. CASE StopDelivery \/ (EndDelivery /\ dlqFailed)
  <2>1. /\ Leave("poll", RewoundTo(batch)) /\ Processing
        /\ UNCHANGED <<kafka, db, stop, faults>> /\ work' = db
    BY <1>1, <1>7 DEF StopDelivery, EndDelivery, NextRound, Processing
  <2> QED
    BY <1>1, <2>1, RewindLeavesNoGap, QuietLeaveInvariant
<1> QED
  BY <1>3, <1>4, <1>5, <1>6, <1>7

\* Committed offsets of a finished batch, all or some of them.
LEMMA CommitLeavesNoGap ==
    ASSUME IInv, pc = "commit", NEW Q \in SUBSET Partitions,
           committed' = CommittedAfter(batch, Q),
           log' = log, db' = db, dlq' = dlq
    PROVE  /\ committed' \in [Partitions -> Nat]
           /\ \A p \in Partitions : committed'[p] <= Len(log[p])
           /\ CommittedIsSettled'
           /\ \A p \in Partitions : \A o \in 0..(position[p] - 1) : <<p, o>> \in Settled
<1>1. \A p \in Partitions : \A o \in 0..(position[p] - 1) : <<p, o>> \in Settled
  BY BatchSettled DEF IInv, NoGapWhileProcessing
<1>2. committed' \in [Partitions -> Nat] \/ Partitions = {}
  BY CommitProperties
<1>3. committed' \in [Partitions -> Nat]
  BY <1>2 DEF CommittedAfter
<1>4. /\ position \in [Partitions -> Nat] /\ committed \in [Partitions -> Nat]
      /\ \A p \in Partitions : /\ Len(log[p]) \in Nat
                             /\ position[p] <= Len(log[p]) /\ committed[p] <= Len(log[p])
  BY DEF IInv, TypeOK, OffsetsInLog
<1>5. ASSUME NEW p \in Partitions
      PROVE  committed'[p] = committed[p] \/ committed'[p] <= position[p]
  BY CommitProperties
<1>6. \A p \in Partitions : committed'[p] <= Len(log[p])
  BY <1>3, <1>4, <1>5
<1>7. Settled' = Settled
  BY DEF Settled, EventAt
<1>8. ASSUME NEW p \in Partitions, NEW o \in 0..(committed'[p] - 1)
      PROVE  <<p, o>> \in Settled
  <2>1. CASE committed'[p] = committed[p]
    BY <2>1 DEF IInv, CommittedIsSettled
  <2>2. CASE committed'[p] <= position[p]
    <3>1. o \in 0..(position[p] - 1)
      BY <1>3, <1>4, <2>2
    <3> QED
      BY <1>1, <3>1
  <2> QED
    BY <1>5, <2>1, <2>2
<1>9. CommittedIsSettled'
  BY <1>7, <1>8 DEF CommittedIsSettled
<1> QED
  BY <1>1, <1>3, <1>6, <1>9

\* Committing the offsets, also if only some partitions' offsets are stored.
LEMMA CommitStepsInvariant ==
    ASSUME IInv, CommitOffsets \/ CommitError
    PROVE  IInv'
<1>1. /\ faults \in 0..MaxFaults /\ position \in [Partitions -> Nat]
      /\ db \in Tables /\ dlq \subseteq Positions
  BY DEF IInv, TypeOK
<1>2. /\ pc = "commit" /\ Processing /\ work = db
      /\ log' = log /\ db' = db /\ dlq' = dlq /\ work' = work /\ stop' = stop
      /\ NeverOlder(db, db')
  BY <1>1, NeverOlderReflexive
     DEF CommitOffsets, CommitError, Processing, IInv, BatchShape
<1>3. faults' \in 0..MaxFaults
  BY <1>1, WorkerAssumption DEF CommitOffsets, CommitError, Faulty
<1>4. CASE CommitOffsets
  <2>1. committed' = CommittedAfter(batch, Partitions) /\ Leave("poll", position)
    BY <1>4 DEF CommitOffsets, NextRound
  <2>2. \A p \in Partitions : position[p] <= Len(log[p])
    BY <1>2 DEF IInv, OffsetsInLog
  <2> QED
    BY <1>1, <1>2, <1>3, <2>1, <2>2, CommitLeavesNoGap, LeaveInvariant
<1>5. CASE CommitError
  <2>1. PICK Q \in SUBSET Partitions : committed' = CommittedAfter(batch, Q)
    BY <1>5 DEF CommitError
  <2>2. Leave("poll", RewoundTo(batch))
    BY <1>5 DEF CommitError, NextRound
  <2> QED
    BY <1>1, <1>2, <1>3, <2>1, <2>2, CommitLeavesNoGap, RewindLeavesNoGap, LeaveInvariant
<1> QED
  BY <1>4, <1>5

-----------------------------------------------------------------------------
(* Steps outside the database                                              *)

\* A new message lies behind every offset and position, and disturbs nothing.
LEMMA ProduceInvariant ==
    ASSUME IInv, NEW m \in Messages, Produce(m)
    PROVE  IInv'
<1> DEFINE h == Home[m.id]
<1>1. /\ h \in Partitions /\ m \in Message
      /\ log \in [Partitions -> Seq(Messages)] /\ Len(log[h]) < MaxLog /\ MaxLog \in Nat
      /\ log' = [log EXCEPT ![h] = Append(@, m)]
      /\ UNCHANGED <<committed, dlq, db, call, intake, position, pc, stop, faults>>
  BY WorkerAssumption DEF IInv, TypeOK, Produce, Message
<1> HIDE DEF h
<1>2. ASSUME NEW p \in Partitions
      PROVE  /\ log'[p] \in Seq(Messages) /\ Len(log[p]) <= Len(log'[p])
             /\ Len(log[p]) <= MaxLog => Len(log'[p]) <= MaxLog
             /\ \A i \in 1..Len(log[p]) : log'[p][i] = log[p][i]
  BY <1>1
<1>3. ASSUME NEW x \in Positions, x[2] < Len(log[x[1]])
      PROVE  EventAt(x)' = EventAt(x) /\ x[2] < Len(log'[x[1]])
  <2>1. x[1] \in Partitions /\ x[2] \in Nat
    BY <1>1 DEF Positions
  <2>2. Len(log[x[1]]) \in Nat /\ Len(log'[x[1]]) \in Nat
    BY <1>1, <1>2, <2>1
  <2>3. x[2] + 1 \in 1..Len(log[x[1]])
    BY <1>3, <2>1, <2>2
  <2> QED
    BY <1>2, <1>3, <2>1, <2>2, <2>3 DEF EventAt
<1>4. \A x \in batch : EventAt(x)' = EventAt(x)
  BY <1>3, BatchEvents
<1>5. rows \subseteq batch /\ left \subseteq batch /\ poison \subseteq batch /\ todo \subseteq rows
  BY DEF IInv, BatchShape
<1>6. TypeOK'
  <2>1. log' \in [Partitions -> Seq(Messages)]
    BY <1>1, <1>2
  <2> QED
    BY <1>1, <2>1 DEF IInv, TypeOK, call, intake
<1>7. OffsetsInLog'
  <2>1. \A p \in Partitions : /\ Len(log[p]) \in Nat /\ Len(log'[p]) \in Nat
                             /\ committed[p] \in Nat /\ position[p] \in Nat
    BY <1>1, <1>2 DEF IInv, TypeOK
  <2> QED
    BY <1>1, <1>2, <2>1 DEF IInv, OffsetsInLog
<1>8. BatchShape'
  BY <1>1, <1>4, <1>5 DEF IInv, BatchShape, call, intake
<1>9. Accounted' /\ OpenTransaction'
  BY <1>1, <1>4, <1>5 DEF IInv, Accounted, OpenTransaction, Processing, call, intake
<1>10. IsolationShape' /\ PoisonIsPermanent' /\ Diverted'
  BY <1>1, <1>4, <1>5 DEF IInv, IsolationShape, PoisonIsPermanent, Diverted, call, intake
<1>11. Settled \subseteq Settled'
  BY <1>1, <1>3 DEF Settled
<1>12. NoGapWhileProcessing' /\ CommittedIsSettled'
  BY <1>1, <1>11 DEF IInv, NoGapWhileProcessing, CommittedIsSettled, intake
<1> QED
  BY <1>6, <1>7, <1>8, <1>9, <1>10, <1>12 DEF IInv

\* A message is polled: the position passes it as the batch takes it in.
LEMMA PollInvariant ==
    ASSUME IInv, NEW p \in Partitions, Poll(p)
    PROVE  IInv'
<1> DEFINE x == <<p, position[p]>>
<1>1. /\ pc = "poll" /\ ~stop /\ position[p] < Len(log[p])
      /\ batch' = batch \cup {x}
      /\ position' = [position EXCEPT ![p] = @ + 1]
      /\ UNCHANGED <<kafka, db, call, pc, left, poison, tried, dlqFailed, isolating, stop, faults>>
  BY DEF Poll
<1>2. /\ position \in [Partitions -> Nat]
      /\ \A q \in Partitions : /\ Len(log[q]) \in Nat
                             /\ Len(log[q]) <= MaxLog /\ position[q] <= Len(log[q])
  BY <1>1 DEF IInv, TypeOK, OffsetsInLog
<1>3. x \in Positions
  BY <1>1, <1>2, WorkerAssumption DEF Positions
<1>4. \A q \in Partitions : position[q] <= position'[q] /\ position'[q] <= Len(log[q])
  BY <1>1, <1>2
<1>5. \A y \in batch : y[1] \in Partitions /\ y[2] \in Nat /\ y[2] < position[y[1]]
  BY BatchEvents DEF IInv, BatchShape
<1>6. TypeOK'
  <2>1. position' \in [Partitions -> Nat]
    BY <1>1, <1>2
  <2> QED
    BY <1>1, <1>3, <2>1 DEF IInv, TypeOK, kafka, call
<1>7. OffsetsInLog'
  BY <1>1, <1>4 DEF IInv, OffsetsInLog, kafka
<1>8. BatchShape'
  <2>1. \A y \in batch' : y[2] < position'[y[1]]
    <3>1. \A y \in batch : y[2] < position'[y[1]]
      BY <1>1, <1>2, <1>4, <1>5
    <3>2. x[2] < position'[x[1]]
      BY <1>1, <1>2
    <3> QED
      BY <1>1, <3>1, <3>2
  <2> QED
    BY <1>1, <2>1 DEF IInv, BatchShape, kafka, call
<1>9. Accounted' /\ OpenTransaction' /\ IsolationShape' /\ PoisonIsPermanent' /\ Diverted'
  BY <1>1 DEF IInv, BatchShape, Accounted, OpenTransaction, Processing, IsolationShape,
              PoisonIsPermanent, Diverted, kafka, call
<1>10. Settled' = Settled
  BY <1>1 DEF Settled, EventAt, kafka
<1>11. CommittedIsSettled'
  BY <1>1, <1>10 DEF IInv, CommittedIsSettled, kafka
<1>12. NoGapWhileProcessing'
  <2> SUFFICES ASSUME NEW q \in Partitions, NEW o \in 0..(position'[q] - 1)
               PROVE  <<q, o>> \in Settled' \cup batch'
    BY DEF NoGapWhileProcessing
  <2>1. CASE o \in 0..(position[q] - 1)
    BY <1>1, <1>10, <2>1 DEF IInv, NoGapWhileProcessing
  <2>2. CASE o \notin 0..(position[q] - 1)
    <3>1. q = p /\ o = position[p]
      BY <1>1, <1>2, <2>2
    <3> QED
      BY <1>1, <3>1
  <2> QED
    BY <2>1, <2>2
<1> QED
  BY <1>6, <1>7, <1>8, <1>9, <1>11, <1>12 DEF IInv

\* The batch is split into events to write and poison that does not parse.
LEMMA ParseBatchInvariant ==
    ASSUME IInv, ParseBatch
    PROVE  IInv'
<1> DEFINE valid == {x \in batch : Parses(EventAt(x))}
<1>1. /\ pc = "poll" /\ ~stop
      /\ rows' = valid /\ poison' = batch \ valid
      /\ pc' \in {"divert", "attempt"} /\ (pc' = "divert" => valid = {})
      /\ UNCHANGED <<kafka, db, work, todo, retries, batch, left, tried, dlqFailed,
                     isolating, position, stop, faults>>
  BY DEF ParseBatch
<1>2. /\ left = {} /\ todo = {} /\ ~isolating /\ ~dlqFailed /\ work = db /\ tried = {}
  BY <1>1 DEF IInv, BatchShape
<1>3. \A x \in batch : EventAt(x)' = EventAt(x)
  BY <1>1 DEF EventAt, kafka
<1>4. TypeOK'
  <2>1. rows' \subseteq batch /\ poison' \subseteq batch /\ pc' \in PCs
    BY <1>1 DEF PCs
  <2> QED
    BY <1>1, <2>1 DEF IInv, TypeOK, kafka
<1>5. OffsetsInLog'
  BY <1>1 DEF IInv, OffsetsInLog, kafka
<1>6. BatchShape'
  BY <1>1, <1>2, <1>3 DEF IInv, BatchShape, kafka
<1>7. Accounted'
  BY <1>1 DEF Accounted
<1>8. OpenTransaction'
  BY <1>1 DEF IInv, OpenTransaction
<1>9. IsolationShape' /\ Diverted'
  BY <1>1, <1>2 DEF IsolationShape, Diverted
<1>10. PoisonIsPermanent'
  <2>1. \A x \in poison' : ~Parses(EventAt(x)')
    BY <1>1, <1>3
  <2> QED
    BY <2>1 DEF PoisonIsPermanent, Parses
<1>11. NoGapWhileProcessing' /\ CommittedIsSettled'
  BY <1>1 DEF IInv, NoGapWhileProcessing, CommittedIsSettled, Settled, EventAt, kafka
<1> QED
  BY <1>4, <1>5, <1>6, <1>7, <1>8, <1>9, <1>10, <1>11 DEF IInv

\* DlqProducer.send, confirmed or not.
LEMMA DeliveryInvariant ==
    ASSUME IInv, SendToDlq \/ DlqError
    PROVE  IInv'
<1>1. PICK x \in poison \ tried : tried' = tried \cup {x}
  BY DEF SendToDlq, DlqError
<1>2. /\ pc = "divert"
      /\ \/ dlq' = dlq \cup {x} /\ dlqFailed' = dlqFailed
         \/ dlq' \in {dlq, dlq \cup {x}} /\ dlqFailed' = TRUE
      /\ UNCHANGED <<log, committed, db, call, batch, left, poison, isolating, position, pc, stop>>
  BY <1>1, Zenon DEF SendToDlq, DlqError
<1>3. faults' \in 0..MaxFaults
  BY WorkerAssumption DEF IInv, TypeOK, SendToDlq, DlqError, Faulty
<1>4. x \in Positions /\ dlq \subseteq dlq' /\ dlq' \subseteq dlq \cup {x}
  BY <1>2, BatchEvents DEF IInv, BatchShape
<1>5. TypeOK'
  <2>1. dlqFailed' \in BOOLEAN
    BY <1>2, Zenon DEF IInv, TypeOK
  <2>2. tried' \subseteq Positions /\ dlq' \subseteq Positions
    BY <1>1, <1>4 DEF IInv, TypeOK
  <2> QED
    BY <1>2, <1>3, <2>1, <2>2 DEF IInv, TypeOK, call
<1>6. OffsetsInLog' /\ BatchShape'
  BY <1>1, <1>2 DEF IInv, OffsetsInLog, BatchShape, EventAt, call
<1>7. Accounted' /\ OpenTransaction' /\ IsolationShape' /\ PoisonIsPermanent'
  BY <1>2 DEF IInv, Accounted, OpenTransaction, IsolationShape, PoisonIsPermanent,
              Processing, EventAt, call
<1>8. Diverted'
  BY <1>1, <1>2, <1>4 DEF IInv, Diverted
<1>9. Settled \subseteq Settled'
  <2>1. db \in Tables /\ NeverOlder(db, db')
    BY <1>2, NeverOlderReflexive DEF IInv, TypeOK
  <2> QED
    BY <1>2, <1>4, <2>1, SettledGrows
<1>10. NoGapWhileProcessing' /\ CommittedIsSettled'
  BY <1>2, <1>9 DEF IInv, NoGapWhileProcessing, CommittedIsSettled
<1> QED
  BY <1>5, <1>6, <1>7, <1>8, <1>10 DEF IInv

\* All records confirmed: the worker goes on to commit.
LEMMA EndDeliveryInvariant ==
    ASSUME IInv, EndDelivery, ~dlqFailed
    PROVE  IInv'
<1>1. /\ pc = "divert" /\ pc' = "commit" /\ poison \ tried = {}
      /\ UNCHANGED <<kafka, db, work, intake, position, rows, todo, retries, stop, faults>>
  BY DEF EndDelivery
<1>2. tried = poison
  BY <1>1 DEF IInv, BatchShape
<1>3. TypeOK' /\ OffsetsInLog'
  BY <1>1 DEF IInv, TypeOK, OffsetsInLog, PCs, kafka, intake
<1>4. BatchShape' /\ Accounted' /\ OpenTransaction' /\ IsolationShape' /\ PoisonIsPermanent'
  BY <1>1 DEF IInv, BatchShape, Accounted, OpenTransaction, IsolationShape,
              PoisonIsPermanent, Processing, EventAt, kafka, intake
<1>5. Diverted'
  BY <1>1, <1>2 DEF IInv, Diverted, kafka, intake
<1>6. NoGapWhileProcessing' /\ CommittedIsSettled'
  BY <1>1 DEF IInv, NoGapWhileProcessing, CommittedIsSettled, Settled, EventAt, kafka, intake
<1> QED
  BY <1>3, <1>4, <1>5, <1>6 DEF IInv

\* The stop event is set between any two steps.
LEMMA SignalInvariant ==
    ASSUME IInv, Signal
    PROVE  IInv'
<1>1. /\ pc # "down" /\ stop' = TRUE
      /\ UNCHANGED <<kafka, db, call, intake, position, pc>>
  BY DEF Signal
<1>2. faults' \in 0..MaxFaults
  BY WorkerAssumption DEF IInv, TypeOK, Signal, Faulty
<1>3. TypeOK' /\ OffsetsInLog'
  BY <1>1, <1>2 DEF IInv, TypeOK, OffsetsInLog, kafka, call, intake
<1>4. BatchShape' /\ Accounted' /\ OpenTransaction' /\ IsolationShape' /\ PoisonIsPermanent' /\ Diverted'
  BY <1>1 DEF IInv, BatchShape, Accounted, OpenTransaction, IsolationShape, Diverted,
              PoisonIsPermanent, Processing, EventAt, kafka, call, intake
<1>5. NoGapWhileProcessing' /\ CommittedIsSettled'
  BY <1>1 DEF IInv, NoGapWhileProcessing, CommittedIsSettled, Settled, EventAt, kafka, intake
<1> QED
  BY <1>3, <1>4, <1>5 DEF IInv

\* A new worker starts at the committed offsets, with nothing else to remember.
LEMMA RestartInvariant ==
    ASSUME IInv, Restart
    PROVE  IInv'
<1>1. /\ pc = "down" /\ pc' = "poll" /\ position' = committed /\ stop' = FALSE
      /\ UNCHANGED <<kafka, db, call, intake, faults>>
  BY DEF Restart
<1>2. batch = {}
  BY <1>1 DEF IInv, BatchShape
<1>3. TypeOK' /\ OffsetsInLog'
  BY <1>1 DEF IInv, TypeOK, OffsetsInLog, PCs, kafka, call, intake
<1>4. BatchShape' /\ Accounted' /\ OpenTransaction' /\ IsolationShape' /\ PoisonIsPermanent' /\ Diverted'
  BY <1>1, <1>2 DEF IInv, BatchShape, Accounted, OpenTransaction, IsolationShape, Diverted,
              PoisonIsPermanent, Processing, EventAt, kafka, call, intake
<1>5. NoGapWhileProcessing' /\ CommittedIsSettled'
  BY <1>1 DEF IInv, NoGapWhileProcessing, CommittedIsSettled, Settled, EventAt, kafka, intake
<1> QED
  BY <1>3, <1>4, <1>5 DEF IInv

-----------------------------------------------------------------------------
(* Steps of a transaction                                                  *)

\* A transaction opens on the committed tables.
LEMMA BeginWriteInvariant ==
    ASSUME IInv, BeginWrite
    PROVE  IInv'
<1>1. /\ pc = "attempt" /\ pc' = "write" /\ work' = db /\ todo' = rows /\ work = db
      /\ UNCHANGED <<kafka, db, rows, retries, intake, position, stop, faults>>
  BY DEF BeginWrite, IInv, BatchShape
<1>2. db \in Tables
  BY DEF IInv, TypeOK
<1>3. TypeOK' /\ OffsetsInLog'
  BY <1>1 DEF IInv, TypeOK, OffsetsInLog, PCs, kafka, intake
<1>4. OpenTransaction'
  BY <1>1, <1>2, NeverOlderReflexive DEF OpenTransaction
<1>5. BatchShape' /\ Accounted' /\ IsolationShape' /\ PoisonIsPermanent' /\ Diverted'
  BY <1>1 DEF IInv, BatchShape, Accounted, IsolationShape, Diverted,
              PoisonIsPermanent, Processing, EventAt, kafka, intake
<1>6. NoGapWhileProcessing' /\ CommittedIsSettled'
  BY <1>1 DEF IInv, NoGapWhileProcessing, CommittedIsSettled, Settled, EventAt, kafka, intake
<1> QED
  BY <1>3, <1>4, <1>5, <1>6 DEF IInv

\* While an event is poison for its missing form, no form is written, so the
\* form stays missing.
LEMMA ExecuteRowInvariant ==
    ASSUME IInv, ExecuteRow
    PROVE  IInv'
<1>1. PICK x \in todo : /\ EventAt(x).kind = "event"
                        /\ work' = Upsert(work, EventAt(x))
                        /\ todo' = todo \ {x}
  BY DEF ExecuteRow, Foremost
<1>2. /\ pc = "write"
      /\ UNCHANGED <<kafka, db, rows, retries, intake, position, pc, stop, faults>>
  BY DEF ExecuteRow
<1>3. /\ todo \subseteq rows /\ rows \subseteq batch /\ poison \subseteq batch
      /\ work \in Tables /\ db \in Tables
  BY DEF IInv, BatchShape, TypeOK
<1>4. \A y \in batch : EventAt(y) \in Message
  BY BatchEvents
<1>5. /\ work' \in Tables /\ NeverOlder(work, work') /\ Reflects(work', EventAt(x))
      /\ \A id \in Ids \ {EventAt(x).id} : work'[id] = work[id]
  BY <1>1, <1>3, <1>4, UpsertProperties
<1>6. TypeOK' /\ OffsetsInLog'
  BY <1>1, <1>2, <1>5 DEF IInv, TypeOK, OffsetsInLog, kafka, intake
<1>7. BatchShape' /\ Accounted' /\ IsolationShape' /\ Diverted'
  BY <1>1, <1>2 DEF IInv, BatchShape, Accounted, IsolationShape, Diverted,
                    Processing, EventAt, kafka, intake
<1>8. OpenTransaction'
  <2>1. NeverOlder(db, work')
    BY <1>3, <1>5, NeverOlderTransitive DEF IInv, OpenTransaction
  <2>2. ASSUME NEW y \in rows \ (todo \ {x}) PROVE Reflects(work', EventAt(y))
    <3>1. CASE y = x
      BY <1>5, <3>1
    <3>2. CASE y # x
      <4>1. Reflects(work, EventAt(y))
        BY <1>2, <2>2, <3>2 DEF IInv, OpenTransaction
      <4> QED
        BY <1>3, <1>4, <1>5, <4>1, ReflectsIsStable
    <3> QED
      BY <3>1, <3>2
  <2> QED
    BY <1>1, <1>2, <2>1, <2>2 DEF OpenTransaction, EventAt, kafka
<1>9. PoisonIsPermanent'
  <2>1. ASSUME NEW y \in poison, Parses(EventAt(y))
        PROVE  work'[EventAt(y).form] = NoRow
    <3>1. /\ EventAt(y).form # NoForm /\ work[EventAt(y).form] = NoRow
          /\ ~IsForm(EventAt(x))
      BY <1>1, <1>3, <2>1 DEF IInv, PoisonIsPermanent
    <3>2. EventAt(y).form \in FormIds
      BY <1>3, <1>4, <3>1 DEF Message
    <3>3. EventAt(y).form \in Ids \ {EventAt(x).id}
      BY <3>1, <3>2 DEF IsForm, Ids
    <3> QED
      BY <1>5, <3>1, <3>3
  <2> QED
    BY <1>2, <2>1 DEF IInv, PoisonIsPermanent, EventAt, kafka, intake
<1>10. NoGapWhileProcessing' /\ CommittedIsSettled'
  BY <1>2 DEF IInv, NoGapWhileProcessing, CommittedIsSettled, Settled, EventAt, kafka, intake
<1> QED
  BY <1>6, <1>7, <1>8, <1>9, <1>10 DEF IInv

\* Moving on to the next isolated event, or to the dead-letter delivery:
\* nothing of S is dropped, and forms come first.
LEMMA IsolateNextProperties ==
    ASSUME NEW S, IsolateNext(S)
    PROVE  /\ rows' \cup left' = S
           /\ pc' \in {"attempt", "divert"}
           /\ pc' = "divert" => rows' = {} /\ left' = {}
           /\ \A x, y \in rows' : x = y
           /\ \A x \in rows', y \in left' : IsForm(EventAt(y)) => IsForm(EventAt(x))
           /\ S = {} => left' = {}
<1>1. CASE S = {}
  BY <1>1 DEF IsolateNext
<1>2. CASE S # {}
  <2>1. PICK x \in Foremost(S) : rows' = {x} /\ left' = S \ {x}
    BY <1>2 DEF IsolateNext
  <2>2. pc' = "attempt"
    BY <1>2 DEF IsolateNext
  <2>3. x \in S /\ \A y \in S : IsForm(EventAt(y)) => IsForm(EventAt(x))
    BY <2>1 DEF Foremost
  <2> QED
    BY <1>2, <2>1, <2>2, <2>3
<1> QED
  BY <1>1, <1>2

\* The transaction commits; the next event to isolate, if any, is taken up.
LEMMA CommitWriteInvariant ==
    ASSUME IInv, CommitWrite
    PROVE  IInv'
<1>1. /\ pc = "write" /\ todo = {} /\ db' = work /\ retries' = 0
      /\ UNCHANGED <<kafka, work, todo, batch, poison, tried, dlqFailed, isolating,
                     position, stop, faults>>
  BY DEF CommitWrite
<1>2. /\ rows' \cup left' = left /\ pc' \in {"attempt", "divert"}
      /\ pc' = "divert" => rows' = {} /\ left' = {}
      /\ \A x, y \in rows' : x = y
      /\ \A x \in rows', y \in left' : IsForm(EventAt(y)) => IsForm(EventAt(x))
      /\ left = {} => left' = {}
  BY IsolateNextProperties DEF CommitWrite
<1>3. /\ db \in Tables /\ work \in Tables /\ NeverOlder(db, work)
      /\ \A x \in rows : Reflects(work, EventAt(x))
      /\ left \subseteq batch
  BY <1>1 DEF IInv, TypeOK, OpenTransaction, BatchShape
<1>4. TypeOK'
  <2>1. 0 \in 0..MaxRetries /\ pc' \in PCs /\ rows' \subseteq left /\ left' \subseteq left
    BY <1>2, WorkerAssumption DEF PCs
  <2> QED
    BY <1>1, <2>1 DEF IInv, TypeOK, kafka
<1>5. OffsetsInLog'
  BY <1>1, <1>2 DEF IInv, OffsetsInLog, kafka
<1>6. BatchShape'
  BY <1>1, <1>2, <1>3 DEF IInv, BatchShape, EventAt, kafka
<1>7. Accounted'
  <2>1. ASSUME NEW x \in batch \ (poison \cup left) PROVE Reflects(work, EventAt(x))
    <3>1. CASE x \in rows
      BY <1>3, <3>1
    <3>2. CASE x \notin rows
      <4>1. Reflects(db, EventAt(x)) /\ EventAt(x) \in Message
        BY <1>1, <2>1, <3>2, BatchEvents DEF IInv, Accounted, Processing
      <4> QED
        BY <1>3, <4>1, ReflectsIsStable
    <3> QED
      BY <3>1, <3>2
  <2> QED
    BY <1>1, <1>2, <2>1 DEF Accounted, EventAt, kafka
<1>8. OpenTransaction'
  <2>1. NeverOlder(work, work)
    BY <1>3, NeverOlderReflexive
  <2> QED
    BY <1>1, <1>2, <2>1 DEF OpenTransaction
<1>9. IsolationShape' /\ PoisonIsPermanent' /\ Diverted'
  BY <1>1, <1>2 DEF IInv, IsolationShape, PoisonIsPermanent, Diverted, EventAt, kafka
<1>10. Settled \subseteq Settled'
  BY <1>1, <1>3, SettledGrows DEF kafka
<1>11. NoGapWhileProcessing' /\ CommittedIsSettled'
  BY <1>1, <1>10 DEF IInv, NoGapWhileProcessing, CommittedIsSettled, kafka
<1> QED
  BY <1>4, <1>5, <1>6, <1>7, <1>8, <1>9, <1>11 DEF IInv

\* The ambiguous commit included: another attempt starts from tables that
\* are the old ones or the new ones.
LEMMA TransientErrorInvariant ==
    ASSUME IInv, TransientError
    PROVE  IInv'
<1>1. /\ pc = "write" /\ db' \in {db, work} /\ work' = db'
      /\ UNCHANGED <<kafka, stop>>
  BY DEF TransientError, AfterLostConnection
<1>2. faults' \in 0..MaxFaults
  BY WorkerAssumption DEF IInv, TypeOK, TransientError, Faulty
<1>3. /\ db \in Tables /\ work \in Tables /\ db' \in Tables
      /\ NeverOlder(db, db') /\ NeverOlder(db, work)
  BY <1>1, NeverOlderReflexive DEF IInv, TypeOK, OpenTransaction
<1>4. Settled \subseteq Settled'
  BY <1>1, <1>3, SettledGrows DEF kafka
<1>5. CommittedIsSettled'
  BY <1>1, <1>4 DEF IInv, CommittedIsSettled, kafka
<1>6. rows \subseteq batch /\ poison \subseteq batch
  BY DEF IInv, BatchShape
<1>7. CASE retries >= MaxRetries
  <2>1. Leave("down", RewoundTo(RewindScope))
    BY <1>7 DEF TransientError, Exhausted, Exit
  <2>2. RewoundTo(RewindScope) \in [Partitions -> Nat]
    BY <1>6, RewindProperties DEF RewindScope
  <2>3. /\ log' = log /\ dlq' = dlq /\ committed' = committed
        /\ committed \in [Partitions -> Nat]
        /\ \A p \in Partitions : committed'[p] <= Len(log[p])
    BY <1>1 DEF IInv, TypeOK, OffsetsInLog, kafka
  <2> QED
    BY <1>1, <1>2, <1>3, <1>5, <2>1, <2>2, <2>3, LeaveInvariant
<1>8. CASE ~(retries >= MaxRetries)
  <2>1. /\ retries' = retries + 1 /\ pc' = "attempt" /\ todo' = {}
        /\ UNCHANGED <<rows, intake, position>>
    BY <1>8 DEF TransientError, Exhausted
  <2>2. TypeOK'
    <3>1. retries' \in 0..MaxRetries
      BY <1>8, <2>1, WorkerAssumption DEF IInv, TypeOK
    <3> QED
      BY <1>1, <1>2, <1>3, <2>1, <3>1 DEF IInv, TypeOK, PCs, kafka, intake
  <2>3. OffsetsInLog' /\ BatchShape' /\ IsolationShape' /\ Diverted'
    BY <1>1, <2>1 DEF IInv, OffsetsInLog, BatchShape, IsolationShape, Diverted,
                      EventAt, kafka, intake
  <2>4. Accounted'
    <3>1. ASSUME NEW x \in batch, Reflects(db, EventAt(x)) PROVE Reflects(db', EventAt(x))
      BY <1>3, <3>1, BatchEvents, ReflectsIsStable
    <3> QED
      BY <1>1, <2>1, <3>1 DEF IInv, Accounted, Processing, EventAt, kafka, intake
  <2>5. OpenTransaction'
    BY <1>1, <1>3, <2>1, NeverOlderReflexive DEF OpenTransaction
  <2>6. PoisonIsPermanent'
    <3>1. ASSUME NEW y \in poison, Parses(EventAt(y)) PROVE work'[EventAt(y).form] = NoRow
      <4>1. EventAt(y).form # NoForm /\ work[EventAt(y).form] = NoRow
        BY <3>1 DEF IInv, PoisonIsPermanent
      <4>2. EventAt(y).form \in Ids
        BY <1>6, <4>1, BatchEvents DEF Message, Ids
      <4> QED
        BY <1>1, <1>3, <4>1, <4>2 DEF NeverOlder
    <3> QED
      BY <1>1, <2>1, <3>1 DEF IInv, PoisonIsPermanent, EventAt, kafka, intake
  <2>7. NoGapWhileProcessing'
    BY <1>1, <1>4, <2>1 DEF IInv, NoGapWhileProcessing, kafka, intake
  <2> QED
    BY <1>5, <2>2, <2>3, <2>4, <2>5, <2>6, <2>7 DEF IInv
<1> QED
  BY <1>7, <1>8

\* A foreign key violation with attempts left rolls back and changes nothing.
LEMMA ForeignKeyRetryInvariant ==
    ASSUME IInv, ForeignKeyRetry
    PROVE  IInv'
<1>1. /\ pc = "write" /\ pc' = "attempt" /\ todo' = {} /\ work' = db
      /\ retries < MaxRetries /\ retries' = retries + 1
      /\ UNCHANGED <<kafka, db, rows, intake, position, stop, faults>>
  BY WorkerAssumption DEF ForeignKeyRetry, Exhausted, IInv, TypeOK
<1>2. /\ db \in Tables /\ NeverOlder(db, work) /\ NeverOlder(db, db)
      /\ poison \subseteq batch
  BY NeverOlderReflexive DEF IInv, TypeOK, OpenTransaction, BatchShape
<1>3. TypeOK'
  <2>1. retries' \in 0..MaxRetries
    BY <1>1, WorkerAssumption DEF IInv, TypeOK
  <2> QED
    BY <1>1, <2>1 DEF IInv, TypeOK, PCs, kafka, intake
<1>4. OffsetsInLog' /\ BatchShape' /\ Accounted' /\ IsolationShape' /\ Diverted'
  BY <1>1 DEF IInv, OffsetsInLog, BatchShape, Accounted, IsolationShape, Diverted,
              Processing, EventAt, kafka, intake
<1>5. OpenTransaction'
  BY <1>1, <1>2 DEF OpenTransaction
<1>6. PoisonIsPermanent'
  <2>1. ASSUME NEW y \in poison, Parses(EventAt(y)) PROVE db[EventAt(y).form] = NoRow
    <3>1. EventAt(y).form # NoForm /\ work[EventAt(y).form] = NoRow
      BY <2>1 DEF IInv, PoisonIsPermanent
    <3>2. EventAt(y).form \in Ids
      BY <1>2, <3>1, BatchEvents DEF Message, Ids
    <3> QED
      BY <1>2, <3>1, <3>2 DEF NeverOlder
  <2> QED
    BY <1>1, <2>1 DEF IInv, PoisonIsPermanent, EventAt, kafka, intake
<1>7. NoGapWhileProcessing' /\ CommittedIsSettled'
  BY <1>1 DEF IInv, NoGapWhileProcessing, CommittedIsSettled, Settled, EventAt, kafka, intake
<1> QED
  BY <1>3, <1>4, <1>5, <1>6, <1>7 DEF IInv

\* The event that becomes poison is a counterparty whose form is missing,
\* and no form is left to be isolated after it.
LEMMA ForeignKeyGiveUpInvariant ==
    ASSUME IInv, ForeignKeyGiveUp
    PROVE  IInv'
<1> DEFINE rest == IF isolating THEN left ELSE rows
<1>1. /\ pc = "write" /\ isolating' = TRUE /\ retries' = 0 /\ todo' = {} /\ work' = db
      /\ poison' = IF isolating THEN poison \cup rows ELSE poison
      /\ UNCHANGED <<kafka, db, batch, tried, dlqFailed, position, stop, faults>>
  BY DEF ForeignKeyGiveUp
<1>2. /\ rows' \cup left' = rest /\ pc' \in {"attempt", "divert"}
      /\ pc' = "divert" => rows' = {} /\ left' = {}
      /\ \A x, y \in rows' : x = y
      /\ \A x \in rows', y \in left' : IsForm(EventAt(y)) => IsForm(EventAt(x))
  BY IsolateNextProperties DEF ForeignKeyGiveUp
<1>3. PICK v \in todo : ViolatesForeignKey(work, EventAt(v))
  BY DEF ForeignKeyGiveUp, Foremost
<1>4. /\ db \in Tables /\ NeverOlder(db, work) /\ NeverOlder(db, db)
      /\ poison \subseteq batch /\ rows \subseteq batch /\ left \subseteq batch /\ todo \subseteq rows
      /\ ~isolating => left = {}
  BY NeverOlderReflexive DEF IInv, TypeOK, OpenTransaction, BatchShape, IsolationShape
<1>5. /\ EventAt(v).form # NoForm /\ work[EventAt(v).form] = NoRow
      /\ ~IsForm(EventAt(v))
  <2>1. EventAt(v) \in Messages
    BY <1>4, BatchEvents
  <2> QED
    BY <1>3, <2>1, WorkerAssumption DEF ViolatesForeignKey
<1>6. \A x \in batch : EventAt(x)' = EventAt(x)
  BY <1>1 DEF EventAt, kafka
<1> HIDE DEF rest
<1>7. rest \subseteq batch /\ rest \subseteq rows \cup left
  BY <1>4 DEF rest
<1>8. TypeOK'
  <2>1. 0 \in 0..MaxRetries /\ pc' \in PCs
    BY <1>2, WorkerAssumption DEF PCs
  <2>2. batch \subseteq Positions
    BY DEF IInv, TypeOK
  <2>3. rows' \subseteq Positions /\ left' \subseteq Positions /\ poison' \subseteq Positions
    BY <1>1, <1>2, <1>4, <1>7, <2>2
  <2> QED
    BY <1>1, <2>1, <2>3 DEF IInv, TypeOK, kafka
<1>9. OffsetsInLog'
  BY <1>1, <1>2 DEF IInv, OffsetsInLog, kafka
<1>10. BatchShape'
  <2>1. rows' \subseteq batch /\ left' \subseteq batch /\ poison' \subseteq batch /\ tried \subseteq poison'
    BY <1>1, <1>2, <1>4, <1>7 DEF IInv, BatchShape
  <2>2. \A x \in rows' \cup left' : Parses(EventAt(x)')
    BY <1>2, <1>4, <1>6, <1>7 DEF IInv, BatchShape
  <2> QED
    BY <1>1, <1>2, <2>1, <2>2 DEF IInv, BatchShape, Parses
<1>11. Accounted'
  <2>1. ASSUME NEW x \in batch \ (poison' \cup rows' \cup left') PROVE Reflects(db, EventAt(x))
    <3>1. x \notin poison \cup rows \cup left
      BY <1>1, <1>2, <1>4, <2>1 DEF rest
    <3> QED
      BY <1>1, <2>1, <3>1 DEF IInv, Accounted, Processing
  <2> QED
    BY <1>1, <1>6, <2>1 DEF Accounted
<1>12. OpenTransaction'
  BY <1>1, <1>2, <1>4 DEF OpenTransaction
<1>13. IsolationShape'
  BY <1>1, <1>2, <1>4, <1>6, <1>7 DEF IsolationShape, IsForm
<1>14. PoisonIsPermanent'
  <2>1. ASSUME NEW y \in poison', Parses(EventAt(y))
        PROVE  /\ EventAt(y).form # NoForm /\ work[EventAt(y).form] = NoRow
               /\ \A z \in rest : ~IsForm(EventAt(z))
    <3>1. CASE y \in poison
      BY <1>7, <2>1, <3>1 DEF IInv, PoisonIsPermanent
    <3>2. CASE y \notin poison
      <4>1. isolating /\ y \in rows /\ rest = left
        BY <1>1, <2>1, <3>2 DEF rest
      <4>2. y = v
        BY <1>3, <1>4, <4>1 DEF IInv, IsolationShape
      <4> QED
        BY <1>5, <4>1, <4>2 DEF IInv, IsolationShape
    <3> QED
      BY <3>1, <3>2
  <2>2. ASSUME NEW y \in poison', Parses(EventAt(y)) PROVE db[EventAt(y).form] = NoRow
    <3>1. EventAt(y).form # NoForm /\ work[EventAt(y).form] = NoRow
      BY <2>1, <2>2
    <3>2. EventAt(y).form \in Ids
      BY <1>1, <1>4, <3>1, BatchEvents DEF Message, Ids
    <3> QED
      BY <1>4, <3>1, <3>2 DEF NeverOlder
  <2>3. poison' \subseteq batch
    BY <1>1, <1>4
  <2> QED
    BY <1>1, <1>2, <1>6, <1>7, <2>1, <2>2, <2>3 DEF PoisonIsPermanent, Parses, IsForm
<1>15. Diverted'
  BY <1>1, <1>2 DEF IInv, Diverted, kafka
<1>16. NoGapWhileProcessing' /\ CommittedIsSettled'
  BY <1>1 DEF IInv, NoGapWhileProcessing, CommittedIsSettled, Settled, EventAt, kafka
<1> QED
  BY <1>8, <1>9, <1>10, <1>11, <1>12, <1>13, <1>14, <1>15, <1>16 DEF IInv

-----------------------------------------------------------------------------
(* The invariant                                                           *)

\* Stuttering steps preserve the invariant.
LEMMA StutterInvariant ==
    ASSUME IInv, UNCHANGED vars
    PROVE  IInv'
<1> USE DEF vars, kafka, call, intake
<1>1. TypeOK' /\ OffsetsInLog' /\ BatchShape' /\ Diverted'
  BY DEF IInv, TypeOK, OffsetsInLog, BatchShape, Diverted, EventAt
<1>2. Accounted' /\ OpenTransaction' /\ IsolationShape' /\ PoisonIsPermanent'
  BY DEF IInv, Accounted, OpenTransaction, IsolationShape, PoisonIsPermanent, Processing, EventAt
<1>3. NoGapWhileProcessing' /\ CommittedIsSettled'
  BY DEF IInv, NoGapWhileProcessing, CommittedIsSettled, Settled, EventAt
<1> QED
  BY <1>1, <1>2, <1>3 DEF IInv

\* The invariant is inductive: one case per action of Next.
LEMMA StepInvariant == IInv /\ [Next]_vars => IInv'
<1> SUFFICES ASSUME IInv, [Next]_vars PROVE IInv'
  OBVIOUS
<1>1. CASE \E m \in Messages : Produce(m)
  BY <1>1, ProduceInvariant
<1>2. CASE \E p \in Partitions : Poll(p)
  BY <1>2, PollInvariant
<1>3. CASE PollNothing \/ UNCHANGED vars
  BY <1>3, StutterInvariant DEF PollNothing
<1>4. CASE ParseBatch
  BY <1>4, ParseBatchInvariant
<1>5. CASE \/ PollError \/ StopPolling \/ GiveUp \/ FatalError \/ StopDelivery \/ Crash
           \/ EndDelivery /\ dlqFailed
  BY <1>5, LeavingStepsInvariant
<1>6. CASE EndDelivery /\ ~dlqFailed
  BY <1>6, EndDeliveryInvariant
<1>7. CASE CommitOffsets \/ CommitError
  BY <1>7, CommitStepsInvariant
<1>8. CASE SendToDlq \/ DlqError
  BY <1>8, DeliveryInvariant
<1>9. CASE BeginWrite
  BY <1>9, BeginWriteInvariant
<1>10. CASE ExecuteRow
  BY <1>10, ExecuteRowInvariant
<1>11. CASE CommitWrite
  BY <1>11, CommitWriteInvariant
<1>12. CASE TransientError
  BY <1>12, TransientErrorInvariant
<1>13. CASE ForeignKeyRetry
  BY <1>13, ForeignKeyRetryInvariant
<1>14. CASE ForeignKeyGiveUp
  BY <1>14, ForeignKeyGiveUpInvariant
<1>15. CASE Signal
  BY <1>15, SignalInvariant
<1>16. CASE Restart
  BY <1>16, RestartInvariant
<1> QED
  BY <1>1, <1>2, <1>3, <1>4, <1>5, <1>6, <1>7, <1>8, <1>9, <1>10, <1>11, <1>12, <1>13,
     <1>14, <1>15, <1>16 DEF Next, Work, Trouble

\* IInv holds in every reachable state, for every log, batch size, retry
\* limit and number of faults.
THEOREM Invariance == Spec => []IInv
BY InitInvariant, StepInvariant, PTL DEF Spec

\* Type correctness of the worker, the broker and the database.
THEOREM TypeCorrect == Spec => []TypeOK
<1>1. IInv => TypeOK
  BY DEF IInv
<1> QED
  BY <1>1, Invariance, PTL

\* Nothing is lost: a committed offset never passes a message that is neither
\* in the database nor in a dead-letter topic.
THEOREM NothingIsLost == Spec => []CommittedIsSettled
<1>1. IInv => CommittedIsSettled
  BY DEF IInv
<1> QED
  BY <1>1, Invariance, PTL

\* The fetch position of a running worker never jumps over a message.
THEOREM NothingIsSkipped == Spec => []NoGap
<1>1. IInv => NoGap
  BY DEF IInv, NoGap, NoGapWhileProcessing
<1> QED
  BY <1>1, Invariance, PTL

-----------------------------------------------------------------------------
(* What a step may do to the database and to the dead-letter topics        *)

\* Only these steps change the tables, and only to those of the transaction.
LEMMA DatabaseSteps ==
    ASSUME IInv, Next
    PROVE  \/ db' = db
           \/ /\ CommitWrite \/ TransientError
              /\ pc = "write" /\ todo = {} /\ db' = work /\ log' = log
<1> USE DEF kafka, vars
<1>1. CASE CommitWrite \/ TransientError
  BY <1>1 DEF CommitWrite, TransientError, AfterLostConnection
<1>2. CASE \E m \in Messages : Produce(m)
  BY <1>2 DEF Produce
<1>3. CASE \/ \E p \in Partitions : Poll(p)
           \/ PollNothing \/ StopPolling \/ ParseBatch \/ PollError
  BY <1>3 DEF Poll, PollNothing, StopPolling, ParseBatch, PollError
<1>4. CASE BeginWrite \/ GiveUp \/ ExecuteRow \/ ForeignKeyRetry \/ ForeignKeyGiveUp \/ FatalError
  BY <1>4 DEF BeginWrite, GiveUp, ExecuteRow, ForeignKeyRetry, ForeignKeyGiveUp, FatalError
<1>5. CASE \/ SendToDlq \/ StopDelivery \/ EndDelivery \/ CommitOffsets
           \/ DlqError \/ CommitError
  BY <1>5 DEF SendToDlq, StopDelivery, EndDelivery, CommitOffsets, DlqError, CommitError
<1>6. CASE Signal \/ Crash \/ Restart
  BY <1>6 DEF Signal, Crash, Restart
<1> QED
  BY <1>1, <1>2, <1>3, <1>4, <1>5, <1>6 DEF Next, Work, Trouble

\* Only poison enters a dead-letter topic, and only while it is delivered.
LEMMA DlqSteps ==
    ASSUME IInv, Next
    PROVE  \/ dlq' = dlq
           \/ /\ SendToDlq \/ DlqError
              /\ pc = "divert" /\ dlq \subseteq dlq' /\ dlq' \ dlq \subseteq poison
              /\ log' = log
<1> USE DEF kafka, vars
<1>1. CASE SendToDlq \/ DlqError
  BY <1>1 DEF SendToDlq, DlqError
<1>2. CASE \E m \in Messages : Produce(m)
  BY <1>2 DEF Produce
<1>3. CASE \/ \E p \in Partitions : Poll(p)
           \/ PollNothing \/ StopPolling \/ ParseBatch \/ PollError
  BY <1>3 DEF Poll, PollNothing, StopPolling, ParseBatch, PollError
<1>4. CASE BeginWrite \/ GiveUp \/ ExecuteRow \/ ForeignKeyRetry \/ ForeignKeyGiveUp \/ FatalError
  BY <1>4 DEF BeginWrite, GiveUp, ExecuteRow, ForeignKeyRetry, ForeignKeyGiveUp, FatalError
<1>5. CASE \/ StopDelivery \/ EndDelivery \/ CommitOffsets \/ CommitError
           \/ CommitWrite \/ TransientError
  BY <1>5 DEF StopDelivery, EndDelivery, CommitOffsets, CommitError, CommitWrite, TransientError
<1>6. CASE Signal \/ Crash \/ Restart
  BY <1>6 DEF Signal, Crash, Restart
<1> QED
  BY <1>1, <1>2, <1>3, <1>4, <1>5, <1>6 DEF Next, Work, Trouble

\* No redelivery, reordering, retry or crash makes a row disappear or older.
THEOREM RowsOnlyGetNewer == Spec => RowsNeverGetOlder
<1>1. IInv /\ [Next]_vars => [NeverOlder(db, db')]_vars
  <2> SUFFICES ASSUME IInv, Next PROVE NeverOlder(db, db')
    OBVIOUS
  <2>1. db \in Tables /\ NeverOlder(db, db) /\ NeverOlder(db, work)
    BY NeverOlderReflexive DEF IInv, TypeOK, OpenTransaction
  <2> QED
    BY <2>1, DatabaseSteps
<1> QED
  BY <1>1, Invariance, PTL DEF Spec, RowsNeverGetOlder

\* A batch reaches the database as a whole or not at all, unless its events
\* are isolated.
THEOREM BatchesAreAtomic == Spec => AllOrNothing
<1> DEFINE A == db' # db /\ ~isolating => \A x \in rows : Reflects(db', EventAt(x))
<1>1. IInv /\ [Next]_vars => [A]_vars
  <2> SUFFICES ASSUME IInv, Next, db' # db, NEW x \in rows PROVE Reflects(db', EventAt(x))
    OBVIOUS
  <2>1. pc = "write" /\ todo = {} /\ db' = work
    BY DatabaseSteps
  <2> QED
    BY <2>1 DEF IInv, OpenTransaction
<1> QED
  BY <1>1, Invariance, PTL DEF Spec, AllOrNothing

\* Neither a failure nor the order of a batch diverts a valid event: what
\* enters a dead-letter topic does not parse or refers to a missing form.
THEOREM OnlyPoisonInDlq == Spec => OnlyPoisonIsDiverted
<1> DEFINE A == \A x \in dlq' \ dlq :
                  \/ ~Parses(EventAt(x))
                  \/ EventAt(x).form # NoForm /\ db[EventAt(x).form] = NoRow
<1>1. IInv /\ [Next]_vars => [A]_vars
  <2> SUFFICES ASSUME IInv, Next, NEW x \in dlq' \ dlq, Parses(EventAt(x))
               PROVE  EventAt(x).form # NoForm /\ db[EventAt(x).form] = NoRow
    OBVIOUS
  <2>1. x \in poison /\ pc = "divert"
    BY DlqSteps
  <2> QED
    BY <2>1 DEF IInv, PoisonIsPermanent, BatchShape
<1> QED
  BY <1>1, Invariance, PTL DEF Spec, OnlyPoisonIsDiverted

\* Dead-letter records follow the database writes of their batch.
THEOREM DlqAfterDatabase == Spec => WritesBeforeDiversion
<1> DEFINE A == \A x \in dlq' \ dlq : \A y \in batch \ poison : Reflects(db, EventAt(y))
<1>1. IInv /\ [Next]_vars => [A]_vars
  <2> SUFFICES ASSUME IInv, Next, NEW x \in dlq' \ dlq, NEW y \in batch \ poison
               PROVE  Reflects(db, EventAt(y))
    OBVIOUS
  <2>1. pc = "divert"
    BY DlqSteps
  <2> QED
    BY <2>1 DEF IInv, Accounted, BatchShape, Processing
<1> QED
  BY <1>1, Invariance, PTL DEF Spec, WritesBeforeDiversion

-----------------------------------------------------------------------------
(* The worker implements AtLeastOnce                                       *)

\* Apart from the producers, a step changes the committed offsets, or what is
\* settled, or neither, and never the log.
LEMMA KafkaSteps ==
    ASSUME IInv, Next
    PROVE  \/ \E m \in Messages : Produce(m)
           \/ /\ CommitOffsets \/ CommitError
              /\ pc = "commit" /\ log' = log /\ db' = db /\ dlq' = dlq
              /\ \E Q \in SUBSET Partitions : committed' = CommittedAfter(batch, Q)
           \/ log' = log /\ committed' = committed
<1> USE DEF kafka, vars
<1>1. CASE CommitOffsets
  <2>1. Partitions \in SUBSET Partitions
    OBVIOUS
  <2> QED
    BY <1>1, <2>1 DEF CommitOffsets
<1>2. CASE CommitError
  BY <1>2 DEF CommitError
<1>3. CASE \/ \E p \in Partitions : Poll(p)
           \/ PollNothing \/ StopPolling \/ ParseBatch \/ PollError
  BY <1>3 DEF Poll, PollNothing, StopPolling, ParseBatch, PollError
<1>4. CASE \/ BeginWrite \/ GiveUp \/ ExecuteRow \/ ForeignKeyRetry \/ ForeignKeyGiveUp
           \/ FatalError \/ CommitWrite \/ TransientError
  BY <1>4 DEF BeginWrite, GiveUp, ExecuteRow, ForeignKeyRetry, ForeignKeyGiveUp,
              FatalError, CommitWrite, TransientError
<1>5. CASE SendToDlq \/ DlqError \/ StopDelivery \/ EndDelivery
  BY <1>5 DEF SendToDlq, DlqError, StopDelivery, EndDelivery
<1>6. CASE Signal \/ Crash \/ Restart
  BY <1>6 DEF Signal, Crash, Restart
<1> QED
  BY <1>1, <1>2, <1>3, <1>4, <1>5, <1>6 DEF Next, Work, Trouble

\* A published message settles at most itself.
LEMMA ProduceIsPublish ==
    ASSUME IInv, NEW m \in Messages, Produce(m)
    PROVE  Promise!Publish(Home[m.id], m)
<1> DEFINE h == Home[m.id]
           new == <<h, Len(log[h])>>
<1>1. /\ h \in Partitions
      /\ log \in [Partitions -> Seq(Messages)]
      /\ log' = [log EXCEPT ![h] = Append(@, m)]
      /\ committed' = committed /\ dlq' = dlq /\ db' = db
  BY WorkerAssumption DEF IInv, TypeOK, Produce, Message
<1>2. ASSUME NEW x \in Positions, x # new
      PROVE  x \in Settled' <=> x \in Settled
  <2>1. x[1] \in Partitions /\ x[2] \in Nat /\ x = <<x[1], x[2]>>
    BY WorkerAssumption DEF Positions
  <2>2. CASE x[1] # h
    <3>1. log'[x[1]] = log[x[1]]
      BY <1>1, <2>1, <2>2
    <3> QED
      BY <1>1, <3>1 DEF Settled, EventAt
  <2>3. CASE x[1] = h
    <3>1. x[2] # Len(log[h])
      BY <1>2, <2>1, <2>3
    <3>2. /\ log'[h] = Append(log[h], m) /\ log[h] \in Seq(Messages)
          /\ Len(log[h]) \in Nat /\ Len(log'[h]) = Len(log[h]) + 1
      BY <1>1
    <3>3. x[2] < Len(log'[h]) <=> x[2] < Len(log[h])
      BY <2>1, <3>1, <3>2
    <3>4. x[2] < Len(log[h]) => log'[h][x[2] + 1] = log[h][x[2] + 1]
      BY <2>1, <3>2
    <3> QED
      BY <1>1, <2>3, <3>3, <3>4 DEF Settled, EventAt
  <2> QED
    BY <2>2, <2>3
<1>3. new \notin Settled
  <2>1. Len(log[h]) \in Nat
    BY <1>1
  <2> QED
    BY <2>1 DEF Settled
<1> HIDE DEF new
<1>4. Settled \subseteq Positions /\ Settled' \subseteq Positions
  BY DEF Settled
<1>5. Settled' \in {Settled, Settled \cup {new}}
  <2>1. CASE new \in Settled'
    BY <1>2, <1>4, <2>1
  <2>2. CASE new \notin Settled'
    BY <1>2, <1>3, <1>4, <2>2
  <2> QED
    BY <2>1, <2>2
<1> QED
  BY <1>1, <1>5 DEF Promise!Publish, new

\* A step that neither publishes nor commits offsets settles messages or
\* stutters: none is unsettled.
LEMMA OtherStepsSettle ==
    ASSUME IInv, Next, log' = log, committed' = committed
    PROVE  Promise!Settle
<1>1. db \in Tables /\ work \in Tables /\ NeverOlder(db, db) /\ NeverOlder(db, work)
  BY NeverOlderReflexive DEF IInv, TypeOK, OpenTransaction
<1>2. db' \in Tables /\ NeverOlder(db, db')
  BY <1>1, DatabaseSteps
<1>3. dlq \subseteq dlq'
  BY DlqSteps
<1>4. Settled \subseteq Settled'
  BY <1>2, <1>3, SettledGrows
<1>5. ASSUME NEW x \in Settled'
      PROVE  x[1] \in Partitions /\ x[2] \in 0..(Len(log[x[1]]) - 1)
  <2>1. x \in Positions /\ x[2] < Len(log[x[1]])
    BY <1>5 DEF Settled
  <2>2. x[1] \in Partitions /\ x[2] \in Nat
    BY <2>1, WorkerAssumption DEF Positions
  <2>3. Len(log[x[1]]) \in Nat
    BY <2>2 DEF IInv, TypeOK
  <2> QED
    BY <2>1, <2>2, <2>3
<1> QED
  BY <1>4, <1>5 DEF Promise!Settle

\* Committing offsets, wholly or in part, covers settled messages only.
LEMMA CommitsAreCommits ==
    ASSUME IInv, pc = "commit", log' = log, db' = db, dlq' = dlq,
           NEW Q \in SUBSET Partitions, committed' = CommittedAfter(batch, Q)
    PROVE  Promise!Commit
<1>1. committed' \in [Partitions -> Nat] /\ CommittedIsSettled'
  BY CommitLeavesNoGap
<1>2. Settled' = Settled
  BY DEF Settled, EventAt
<1> QED
  BY <1>1, <1>2 DEF Promise!Commit, Promise!Covered, CommittedIsSettled

\* Every behaviour of worker, broker, database and faults is one the abstract
\* specification allows.
THEOREM ImplementsAtLeastOnce == Spec => DeliversAtLeastOnce
<1>1. Init => Promise!Init
  <2> SUFFICES ASSUME Init PROVE Promise!Init
    OBVIOUS
  <2>1. Settled = {}
    <3> SUFFICES ASSUME NEW x \in Settled PROVE FALSE
      OBVIOUS
    <3>1. x[1] \in Partitions /\ x[2] \in Nat /\ x[2] < Len(log[x[1]])
      BY WorkerAssumption DEF Settled, Positions
    <3>2. log[x[1]] = <<>>
      BY <3>1 DEF Init
    <3> QED
      BY <3>1, <3>2
  <2> QED
    BY <2>1 DEF Init, Promise!Init
<1>2. IInv /\ [Next]_vars => [Promise!Next]_(Promise!vars)
  <2> SUFFICES ASSUME IInv, [Next]_vars PROVE [Promise!Next]_(Promise!vars)
    OBVIOUS
  <2>1. CASE UNCHANGED vars
    BY <2>1 DEF vars, kafka, Promise!vars, Settled, EventAt
  <2>2. CASE \E m \in Messages : Produce(m)
    <3>1. PICK m \in Messages : Produce(m)
      BY <2>2
    <3>2. Home[m.id] \in Partitions
      BY WorkerAssumption DEF Message
    <3> QED
      BY <3>1, <3>2, ProduceIsPublish DEF Promise!Next
  <2>3. CASE Next /\ ~(\E m \in Messages : Produce(m))
    <3>1. \/ /\ pc = "commit" /\ log' = log /\ db' = db /\ dlq' = dlq
             /\ \E Q \in SUBSET Partitions : committed' = CommittedAfter(batch, Q)
          \/ log' = log /\ committed' = committed
      BY <2>3, KafkaSteps
    <3>2. Promise!Commit \/ Promise!Settle
      BY <2>3, <3>1, CommitsAreCommits, OtherStepsSettle
    <3> QED
      BY <3>2 DEF Promise!Next
  <2> QED
    BY <2>1, <2>2, <2>3
<1> QED
  BY <1>1, <1>2, Invariance, PTL DEF Spec, Promise!Spec, DeliversAtLeastOnce

-----------------------------------------------------------------------------
(* The last version wins, if a key has one version per timestamp           *)

\* The upsert writes an event's row whole, and no other row.
LEMMA UpsertKeepsVersions ==
    ASSUME OneVersionPerTime,
           NEW table \in Tables, KeepsVersions(table),
           NEW m \in Messages, m.kind = "event"
    PROVE  KeepsVersions(Upsert(table, m))
<1> DEFINE new == Upsert(table, m)
<1> SUFFICES ASSUME NEW n \in Messages, n.kind = "event",
                    new[n.id] # NoRow, new[n.id].ts = n.ts
             PROVE  new[n.id] = RowOf(n)
  BY DEF KeepsVersions
<1>1. m \in Message /\ n \in Message /\ m.id \in Ids /\ n.id \in Ids
  BY WorkerAssumption DEF Message
<1>2. CASE new[n.id] = table[n.id]
  BY <1>2 DEF KeepsVersions
<1>3. CASE new[n.id] # table[n.id]
  <2>1. n.id = m.id
    BY <1>1, <1>3, UpsertProperties
  <2>2. new[m.id] = RowOf(m)
    BY <1>1, <1>3, <2>1 DEF Upsert, Tables
  <2>3. m.ts = n.ts
    BY <2>1, <2>2 DEF RowOf
  <2> QED
    BY <2>1, <2>2, <2>3 DEF OneVersionPerTime
<1> QED
  BY <1>2, <1>3

\* Apart from an upsert, a transaction begins with the committed tables, stays
\* as it is, or ends and leaves what the step leaves committed.
LEMMA TransactionSteps ==
    ASSUME IInv, Next
    PROVE  ExecuteRow \/ work' = work \/ work' = db \/ work' = db'
<1> USE DEF kafka, vars, call
<1>1. CASE CommitWrite \/ TransientError
  BY <1>1 DEF CommitWrite, TransientError
<1>2. CASE \E m \in Messages : Produce(m)
  BY <1>2 DEF Produce
<1>3. CASE \/ \E p \in Partitions : Poll(p)
           \/ PollNothing \/ StopPolling \/ ParseBatch \/ PollError
  BY <1>3 DEF Poll, PollNothing, StopPolling, ParseBatch, PollError
<1>4. CASE BeginWrite \/ GiveUp \/ ForeignKeyRetry \/ ForeignKeyGiveUp \/ FatalError
  BY <1>4 DEF BeginWrite, GiveUp, ForeignKeyRetry, ForeignKeyGiveUp, FatalError
<1>5. CASE \/ SendToDlq \/ StopDelivery \/ EndDelivery \/ CommitOffsets
           \/ DlqError \/ CommitError
  BY <1>5 DEF SendToDlq, StopDelivery, EndDelivery, CommitOffsets, DlqError, CommitError
<1>6. CASE Signal \/ Crash \/ Restart
  BY <1>6 DEF Signal, Crash, Restart
<1> QED
  BY <1>1, <1>2, <1>3, <1>4, <1>5, <1>6 DEF Next, Work, Trouble

\* No step makes a row out of two versions.
LEMMA StepKeepsVersions ==
    ASSUME OneVersionPerTime, IInv, RowsAreVersions, [Next]_vars
    PROVE  RowsAreVersions'
<1>1. CASE UNCHANGED vars
  BY <1>1 DEF vars, call, RowsAreVersions, KeepsVersions
<1>2. CASE Next
  <2>1. db' = db \/ db' = work
    BY <1>2, DatabaseSteps
  <2>2. KeepsVersions(db') /\ KeepsVersions(db) /\ KeepsVersions(work)
    BY <2>1 DEF RowsAreVersions
  <2>3. KeepsVersions(work')
    <3>1. CASE ExecuteRow
      <4>1. PICK x \in Foremost(todo) :
              EventAt(x).kind = "event" /\ work' = Upsert(work, EventAt(x))
        BY <3>1 DEF ExecuteRow
      <4>2. x \in batch
        BY <4>1 DEF Foremost, IInv, BatchShape
      <4>3. EventAt(x) \in Messages /\ work \in Tables
        BY <4>2, BatchEvents DEF IInv, TypeOK
      <4> QED
        BY <2>2, <4>1, <4>3, UpsertKeepsVersions
    <3>2. CASE ~ExecuteRow
      <4>1. work' = work \/ work' = db \/ work' = db'
        BY <1>2, <3>2, TransactionSteps
      <4> QED
        BY <2>2, <4>1
    <3> QED
      BY <3>1, <3>2
  <2> QED
    BY <2>2, <2>3 DEF RowsAreVersions, KeepsVersions
<1> QED
  BY <1>1, <1>2

\* A row is always one version of its object, if the topics hold one version of
\* an object per timestamp.
THEOREM VersionsStayWhole == ASSUME OneVersionPerTime PROVE Spec => []RowsAreVersions
<1>1. Init => RowsAreVersions
  BY DEF Init, OneVersionPerTime, RowsAreVersions
<1>2. IInv /\ RowsAreVersions /\ [Next]_vars => RowsAreVersions'
  BY StepKeepsVersions
<1> QED
  BY <1>1, <1>2, Invariance, PTL DEF Spec

\* When everything is committed each row is the last version of its key,
\* whatever was redelivered on the way.
THEOREM LastVersionTheorem == ASSUME OneVersionPerTime PROVE Spec => []LastVersionWins
<1>1. ASSUME IInv, RowsAreVersions PROVE LastVersionWins
  <2> SUFFICES ASSUME CaughtUp, NEW id \in Ids, NEW x \in LastVersions(id)
               PROVE  /\ db[id] # NoRow
                      /\ db[id].ts > EventAt(x).ts \/ db[id] = RowOf(EventAt(x))
    BY DEF LastVersionWins
  <2>1. /\ x \in Positions /\ x \notin dlq
        /\ x[2] < Len(log[x[1]]) /\ EventAt(x).id = id
    BY DEF LastVersions
  <2>2. x[1] \in Partitions /\ x[2] \in Nat /\ x = <<x[1], x[2]>>
    BY <2>1, WorkerAssumption DEF Positions
  <2>3. EventAt(x) \in Messages /\ EventAt(x).ts \in Nat
    BY <1>1, <2>1, EventType DEF IInv, Message
  <2>4. x \in Settled
    <3>1. committed[x[1]] = Len(log[x[1]]) /\ committed[x[1]] \in Nat
      BY <1>1, <2>2 DEF CaughtUp, IInv, TypeOK
    <3>2. x[2] \in 0..(committed[x[1]] - 1)
      BY <2>1, <2>2, <3>1
    <3> QED
      BY <1>1, <2>2, <3>2 DEF IInv, CommittedIsSettled
  <2>5. /\ EventAt(x).kind = "event" /\ db[id] # NoRow /\ db[id].ts >= EventAt(x).ts
    BY <2>1, <2>4 DEF Settled, Reflects
  <2>6. db[id].ts \in Nat
    BY <1>1, <2>5 DEF IInv, TypeOK, Tables, Row
  <2>7. db[id].ts > EventAt(x).ts \/ db[id].ts = EventAt(x).ts
    BY <2>3, <2>5, <2>6
  <2> QED
    BY <1>1, <2>1, <2>3, <2>5, <2>7 DEF RowsAreVersions, KeepsVersions
<1> QED
  BY <1>1, Invariance, VersionsStayWhole, PTL
=============================================================================
