--------------------------- MODULE ConsumerWorker ---------------------------
(***************************************************************************)
(* consumer-service: the Worker of consumer/worker.py with the transaction *)
(* of consumer/db.py, between a Kafka log and PostgreSQL.                  *)
(*                                                                         *)
(* One worker polls a batch from all partitions, writes it in a single     *)
(* transaction, retries transient errors, isolates the events behind a     *)
(* foreign key violation one by one, sends what can never be written to    *)
(* the dead-letter topics, and only then commits the offsets; whatever     *)
(* goes wrong first makes it seek back.  Processes crash, are stopped by a *)
(* signal and restarted; the broker and the database fail, also after      *)
(* having done what they were asked.                                       *)
(*                                                                         *)
(* A position in the log is a pair <<partition, offset>>, offsets count    *)
(* from 0.  Logging, metrics and health are left out; time is left out, so *)
(* a deadline is a step that may always be taken.                          *)
(***************************************************************************)
EXTENDS RowStore, Sequences, FiniteSets, FiniteSetsExt

CONSTANTS
    Partitions,     \* the partitions of both topics
    Home,           \* the partition a key is hashed to
    Messages,       \* the messages the topics may receive
    InitialTables,  \* contents PostgreSQL may start with
    BatchMax,       \* Config.batch_max_messages
    MaxRetries,     \* Config.max_retries
    MaxLog,         \* bound: messages per partition
    MaxFaults       \* bound: faults, crashes and signals of a behaviour

ASSUME WorkerAssumption ==
    /\ Home \in [Ids -> Partitions]
    /\ Messages \subseteq Message
    /\ \A m \in Messages : IsForm(m) => m.form = NoForm
    /\ InitialTables \subseteq Tables
    /\ BatchMax \in Nat \ {0}
    /\ MaxRetries \in Nat
    /\ MaxLog \in Nat
    /\ MaxFaults \in Nat

VARIABLES
    log,        \* Kafka: the messages of every partition
    committed,  \* Kafka: the group's committed offsets
    dlq,        \* Kafka: positions whose message is in a dead-letter topic
    db,         \* PostgreSQL: the committed tables
    work,       \* PostgreSQL: the tables as the open transaction sees them
                \* (db when none is open)
    position,   \* the consumer's fetch position in every partition
    pc,         \* where the worker is
    batch,      \* the polled messages being processed
    rows,       \* the events of the running _apply_with_retry
    todo,       \* the events its transaction has not executed yet
    retries,    \* its retry counter
    left,       \* the events _apply_individually has not reached yet
    poison,     \* the messages to be sent to a dead-letter topic
    tried,      \* the poison messages already handed to DlqProducer.send
    dlqFailed,  \* one of them was not confirmed
    isolating,  \* _apply_individually is running
    stop,       \* the stop event
    faults      \* faults so far

kafka  == <<log, committed, dlq>>
call   == <<rows, todo, retries, work>>
intake == <<batch, left, poison, tried, dlqFailed, isolating>>
vars   == <<kafka, db, call, intake, position, pc, stop, faults>>

PCs == {"poll", "attempt", "write", "divert", "commit", "down"}

\* The positions that exist in the log, and the message at one of them.
Positions == Partitions \X (0..(MaxLog - 1))
EventAt(x) == log[x[1]][x[2] + 1]

TypeOK ==
    /\ log \in [Partitions -> Seq(Messages)]
    /\ committed \in [Partitions -> Nat]
    /\ dlq \subseteq Positions
    /\ db \in Tables
    /\ work \in Tables
    /\ position \in [Partitions -> Nat]
    /\ pc \in PCs
    /\ batch \subseteq Positions
    /\ rows \subseteq Positions
    /\ todo \subseteq Positions
    /\ left \subseteq Positions
    /\ poison \subseteq Positions
    /\ tried \subseteq Positions
    /\ retries \in 0..MaxRetries
    /\ dlqFailed \in BOOLEAN
    /\ isolating \in BOOLEAN
    /\ stop \in BOOLEAN
    /\ faults \in 0..MaxFaults

Init ==
    /\ log = [p \in Partitions |-> <<>>]
    /\ committed = [p \in Partitions |-> 0]
    /\ dlq = {}
    /\ db \in InitialTables
    /\ work = db
    /\ position = committed
    /\ pc = "poll"
    /\ batch = {} /\ rows = {} /\ todo = {} /\ left = {}
    /\ poison = {} /\ tried = {}
    /\ retries = 0
    /\ dlqFailed = FALSE /\ isolating = FALSE /\ stop = FALSE
    /\ faults = 0

-----------------------------------------------------------------------------
(* Offsets                                                                 *)

OffsetsIn(S, p) == {o \in 0..(MaxLog - 1) : <<p, o>> \in S}

\* Mutants of RewoundTo: no seek at all; a seek in one partition only.
NotRewound(S) == position

RewoundInOnePartition(S) ==
    IF S = {} THEN position
    ELSE LET x == CHOOSE y \in S : TRUE
         IN  [position EXCEPT ![x[1]] = Min(OffsetsIn(S, x[1]))]

\* _rewind: seek every partition of S back to its first message in S.
RewoundTo(S) ==
    [p \in Partitions |->
        IF OffsetsIn(S, p) = {} THEN position[p] ELSE Min(OffsetsIn(S, p))]

\* _commit: one past the last message of S in each of the partitions Q.
CommittedAfter(S, Q) ==
    [p \in Partitions |->
        IF p \notin Q \/ OffsetsIn(S, p) = {} THEN committed[p]
        ELSE Max(OffsetsIn(S, p)) + 1]

\* Mutant of Foremost: the order of arrival alone, without forms first.
EarliestPolled(S) ==
    {x \in S : \A y \in S : x[1] = y[1] => x[2] <= y[2]}

\* The events of S that may come next in the order the code writes them:
\* ownership forms first, otherwise the order of arrival, which is the
\* offset order within a partition and arbitrary between partitions.
Foremost(S) ==
    {x \in S : \A y \in S :
        /\ IsForm(EventAt(y)) => IsForm(EventAt(x))
        /\ (x[1] = y[1] /\ IsForm(EventAt(x)) = IsForm(EventAt(y)))
              => x[2] <= y[2]}

Faulty == faults < MaxFaults /\ faults' = faults + 1

-----------------------------------------------------------------------------
(* The producers                                                           *)

\* A message with its key: always the same partition for the same key.
Produce(m) ==
    /\ Len(log[Home[m.id]]) < MaxLog
    /\ log' = [log EXCEPT ![Home[m.id]] = Append(@, m)]
    /\ UNCHANGED <<committed, dlq, db, call, intake, position, pc, stop, faults>>

-----------------------------------------------------------------------------
(* run, _poll_batch                                                        *)

\* _process_batch returns or run is left: what the batch was is forgotten.
Leave(next, pos) ==
    /\ pc' = next
    /\ position' = pos
    /\ batch' = {} /\ left' = {} /\ poison' = {} /\ tried' = {}
    /\ rows' = {} /\ todo' = {}
    /\ retries' = 0
    /\ dlqFailed' = FALSE /\ isolating' = FALSE

NextRound(pos) == Leave("poll", pos)
Exit(pos) == Leave("down", pos)

\* One consumer.poll that returns the next message of partition p.
Poll(p) ==
    /\ pc = "poll" /\ ~stop
    /\ Cardinality(batch) < BatchMax
    /\ position[p] < Len(log[p])
    /\ batch' = batch \cup {<<p, position[p]>>}
    /\ position' = [position EXCEPT ![p] = @ + 1]
    /\ UNCHANGED <<kafka, db, call, pc, left, poison, tried, dlqFailed, isolating,
                   stop, faults>>

\* poll returns nothing, end of partition or a retriable error: poll again.
PollNothing ==
    /\ pc = "poll" /\ ~stop
    /\ UNCHANGED vars

\* poll returns an error that is not retriable: KafkaException leaves run.
PollError ==
    /\ pc = "poll" /\ ~stop
    /\ Faulty
    /\ Exit(position)
    /\ UNCHANGED <<kafka, db, work, stop>>

\* The stop event ends the loop; a batch already polled is seeked back.
StopPolling ==
    /\ pc = "poll" /\ stop
    /\ Exit(RewoundTo(batch))
    /\ UNCHANGED <<kafka, db, work, stop, faults>>

\* The batch is full, its time is over or nothing more arrives:
\* _process_batch parses it and calls _apply_with_retry with what is valid.
ParseBatch ==
    /\ pc = "poll" /\ ~stop
    /\ batch # {}
    /\ LET valid == {x \in batch : Parses(EventAt(x))} IN
       /\ rows' = valid
       /\ poison' = batch \ valid
       /\ pc' = IF valid = {} THEN "divert" ELSE "attempt"
    /\ UNCHANGED <<kafka, db, work, todo, retries, batch, left, tried, dlqFailed,
                   isolating, position, stop, faults>>

-----------------------------------------------------------------------------
(* _apply_with_retry, Database.apply_batch                                 *)

\* Mutant of Exhausted: one attempt too many.
ExhaustedTooLate == retries > MaxRetries

\* _apply_with_retry has no attempt left.
Exhausted == retries >= MaxRetries

\* The messages a failing _apply_with_retry rewinds: the whole batch, or the
\* single message when it was called by _apply_individually.
RewindScope == IF isolating THEN rows ELSE batch

\* `while not stop`: open the transaction.
BeginWrite ==
    /\ pc = "attempt" /\ ~stop
    /\ pc' = "write"
    /\ work' = db
    /\ todo' = rows
    /\ UNCHANGED <<kafka, db, rows, retries, intake, position, stop, faults>>

\* The stop event ends the retry loop (or the wait between two attempts).
GiveUp ==
    /\ pc = "attempt" /\ stop
    /\ NextRound(RewoundTo(RewindScope))
    /\ UNCHANGED <<kafka, db, work, stop, faults>>

\* The next upsert of the transaction.
ExecuteRow ==
    /\ pc = "write"
    /\ \E x \in Foremost(todo) :
        /\ EventAt(x).kind = "event"
        /\ ~ViolatesForeignKey(work, EventAt(x))
        /\ work' = Upsert(work, EventAt(x))
        /\ todo' = todo \ {x}
    /\ UNCHANGED <<kafka, db, rows, retries, intake, position, pc, stop, faults>>

\* Mutant of IsolateNext: a poison event ends the loop.
IsolateNoMore(S) ==
    /\ pc' = "divert"
    /\ rows' = {} /\ left' = {}

\* _apply_individually calls _apply_with_retry for the next event of S, or
\* returns to the delivery of poison messages when there is none.
IsolateNext(S) ==
    IF S = {}
    THEN /\ pc' = "divert"
         /\ rows' = {} /\ left' = {}
    ELSE /\ pc' = "attempt"
         /\ \E x \in Foremost(S) : rows' = {x} /\ left' = S \ {x}

\* All rows executed and the commit confirmed.
CommitWrite ==
    /\ pc = "write" /\ todo = {}
    /\ db' = work
    /\ IsolateNext(left)
    /\ retries' = 0
    /\ UNCHANGED <<kafka, work, todo, batch, poison, tried, dlqFailed, isolating,
                   position, stop, faults>>

\* Mutant of AfterLostConnection: every statement commits on its own.
AfterLostConnectionAutocommit == {db, work}

\* The tables after a connection error: all of the transaction is rolled
\* back, but a commit under way may have taken place.
AfterLostConnection == IF todo = {} THEN {db, work} ELSE {db}

\* OperationalError or InterfaceError, from any statement or from the commit
\* itself.  Another attempt, or
\* rewind and leave run when the attempts are used up.
TransientError ==
    /\ pc = "write"
    /\ Faulty
    /\ db' \in AfterLostConnection
    /\ IF Exhausted
       THEN Exit(RewoundTo(RewindScope))
       ELSE /\ retries' = retries + 1
            /\ pc' = "attempt"
            /\ todo' = {}
            /\ UNCHANGED <<rows, intake, position>>
    /\ work' = db'
    /\ UNCHANGED <<kafka, stop>>

\* The next upsert is refused by the foreign key; the transaction is rolled
\* back.  Another attempt, in case the form is still on its way.
ForeignKeyRetry ==
    /\ pc = "write" /\ ~Exhausted
    /\ \E x \in Foremost(todo) :
        EventAt(x).kind = "event" /\ ViolatesForeignKey(work, EventAt(x))
    /\ retries' = retries + 1
    /\ pc' = "attempt"
    /\ todo' = {}
    /\ work' = db
    /\ UNCHANGED <<kafka, db, rows, intake, position, stop, faults>>

\* The same with the attempts used up: a batch is applied event by event, a
\* single event is poison.
ForeignKeyGiveUp ==
    /\ pc = "write" /\ Exhausted
    /\ \E x \in Foremost(todo) :
        EventAt(x).kind = "event" /\ ViolatesForeignKey(work, EventAt(x))
    /\ isolating' = TRUE
    /\ poison' = IF isolating THEN poison \cup rows ELSE poison
    /\ IsolateNext(IF isolating THEN left ELSE rows)
    /\ retries' = 0
    /\ todo' = {}
    /\ work' = db
    /\ UNCHANGED <<kafka, db, batch, tried, dlqFailed, position, stop, faults>>

\* Any other error of the driver: rewind and leave run.
FatalError ==
    /\ pc = "write"
    /\ \E x \in Foremost(todo) : EventAt(x).kind = "unstorable"
    /\ Exit(RewoundTo(RewindScope))
    /\ work' = db
    /\ UNCHANGED <<kafka, db, stop, faults>>

-----------------------------------------------------------------------------
(* _process_batch: DlqProducer.send for every poison message, then _commit *)

\* The broker confirmed the record within the flush.
SendToDlq ==
    /\ pc = "divert" /\ ~stop
    /\ \E x \in poison \ tried :
        /\ dlq' = dlq \cup {x}
        /\ tried' = tried \cup {x}
    /\ UNCHANGED <<log, committed, db, call, batch, left, poison, dlqFailed,
                   isolating, position, pc, stop, faults>>

\* It did not, whether or not the record was or will be written.
DlqError ==
    /\ pc = "divert" /\ ~stop
    /\ Faulty
    /\ \E x \in poison \ tried :
        /\ dlq' \in {dlq, dlq \cup {x}}
        /\ tried' = tried \cup {x}
    /\ dlqFailed' = TRUE
    /\ UNCHANGED <<log, committed, db, call, batch, left, poison, isolating,
                   position, pc, stop>>

\* The stop event is looked at before every record.
StopDelivery ==
    /\ pc = "divert" /\ stop
    /\ poison \ tried # {}
    /\ NextRound(RewoundTo(batch))
    /\ UNCHANGED <<kafka, db, work, stop, faults>>

\* All records tried: commit, or seek back if one failed.
EndDelivery ==
    /\ pc = "divert"
    /\ poison \ tried = {}
    /\ IF dlqFailed
       THEN NextRound(RewoundTo(batch))
       ELSE /\ pc' = "commit"
            /\ UNCHANGED <<intake, position, rows, todo, retries>>
    /\ UNCHANGED <<kafka, db, work, stop, faults>>

CommitOffsets ==
    /\ pc = "commit"
    /\ committed' = CommittedAfter(batch, Partitions)
    /\ NextRound(position)
    /\ UNCHANGED <<log, dlq, db, work, stop, faults>>

\* The commit raises, although the broker may have stored the offsets of
\* some or all partitions.
CommitError ==
    /\ pc = "commit"
    /\ Faulty
    /\ \E Q \in SUBSET Partitions : committed' = CommittedAfter(batch, Q)
    /\ NextRound(RewoundTo(batch))
    /\ UNCHANGED <<log, dlq, db, work, stop>>

-----------------------------------------------------------------------------
(* The process                                                             *)

\* SIGTERM or SIGINT: Worker.stop, between any two steps.
Signal ==
    /\ pc # "down" /\ ~stop
    /\ Faulty
    /\ stop' = TRUE
    /\ UNCHANGED <<kafka, db, call, intake, position, pc>>

Crash ==
    /\ pc # "down"
    /\ Faulty
    /\ Exit(position)
    /\ work' = db
    /\ UNCHANGED <<kafka, db, stop>>

\* The container is started again: a new Worker at the committed offsets.
Restart ==
    /\ pc = "down"
    /\ pc' = "poll"
    /\ position' = committed
    /\ stop' = FALSE
    /\ UNCHANGED <<kafka, db, call, intake, faults>>

-----------------------------------------------------------------------------
\* What the worker does on its own, and what is done to it.
Work ==
    \/ \E p \in Partitions : Poll(p)
    \/ PollNothing \/ StopPolling \/ ParseBatch
    \/ BeginWrite \/ GiveUp \/ ExecuteRow \/ CommitWrite
    \/ ForeignKeyRetry \/ ForeignKeyGiveUp \/ FatalError
    \/ SendToDlq \/ StopDelivery \/ EndDelivery \/ CommitOffsets

Trouble ==
    PollError \/ TransientError \/ DlqError \/ CommitError \/ Signal \/ Crash

Next ==
    \/ \E m \in Messages : Produce(m)
    \/ Work
    \/ Trouble
    \/ Restart

Spec == Init /\ [][Next]_vars

\* A live process keeps executing and the container's restart policy starts
\* a dead one again.  Nothing obliges a producer or a fault to happen.
FairSpec == Spec /\ WF_vars(Work) /\ WF_vars(Restart)

-----------------------------------------------------------------------------
(* Safety                                                                  *)

\* Everything before the end of a log that the consumer has seen to.
Settled ==
    {x \in Positions : /\ x[2] < Len(log[x[1]])
                       /\ x \in dlq \/ Reflects(db, EventAt(x))}

\* Nothing is lost: a committed offset never passes a message that is
\* neither in the database (or superseded there) nor in a dead-letter topic,
\* whatever failed and whenever the process died (_commit is reached only
\* through a complete _process_batch).
CommittedIsSettled ==
    \A p \in Partitions : \A o \in 0..(committed[p] - 1) : <<p, o>> \in Settled

\* The fetch position of a worker that goes on never jumps over a message it
\* has not dealt with: whatever lies before it is settled or in the batch
\* (_rewind seeks every partition of the batch).
NoGap ==
    pc = "down" \/ stop \/
    \A p \in Partitions : \A o \in 0..(position[p] - 1) :
        <<p, o>> \in Settled \cup batch

\* Only what can never be written goes to a dead-letter topic: a message
\* that does not parse, or a counterparty whose form is not in the database.
\* No database failure, and no form that is in the same batch, may divert a
\* valid event.
OnlyPoisonIsDiverted ==
    [][\A x \in dlq' \ dlq :
         \/ ~Parses(EventAt(x))
         \/ EventAt(x).form # NoForm /\ db[EventAt(x).form] = NoRow]_vars

\* A record is sent to a dead-letter topic only after everything else in its
\* batch has reached the database (the comment on lines 236-238).
WritesBeforeDiversion ==
    [][\A x \in dlq' \ dlq : \A y \in batch \ poison :
         Reflects(db, EventAt(y))]_vars

\* Unless the batch is being isolated, the tables change for all its events
\* or for none (apply_batch is one transaction).
AllOrNothing ==
    [][db' # db /\ ~isolating => \A x \in rows : Reflects(db', EventAt(x))]_vars

\* A row never disappears and never becomes older than it was, whatever is
\* delivered again or out of order.
NeverOlder(old, new) ==
    \A id \in Ids : old[id] # NoRow =>
        new[id] # NoRow /\ new[id].ts >= old[id].ts

RowsNeverGetOlder == [][NeverOlder(db, db')]_vars

\* When everything is committed, each row is the last version of its key:
\* among the newest events of the key the one published last, dead-letter
\* records apart.
CaughtUp == \A p \in Partitions : committed[p] = Len(log[p])

LastVersions(id) ==
    LET of == {x \in Positions \ dlq : x[2] < Len(log[x[1]]) /\ EventAt(x).id = id}
    IN  {x \in of : \A y \in of :
            \/ EventAt(y).ts < EventAt(x).ts
            \/ EventAt(y).ts = EventAt(x).ts /\ y[2] <= x[2]}

LastVersionWins ==
    CaughtUp /\ pc = "poll" /\ position = committed /\ batch = {} =>
        \A id \in Ids : \A x \in LastVersions(id) :
            /\ db[id] # NoRow
            /\ db[id].ts > EventAt(x).ts \/ db[id] = RowOf(EventAt(x))

-----------------------------------------------------------------------------
(* The invariant behind these properties                                   *)

\* The worker holds a batch that it has polled completely.
Processing == pc \in {"attempt", "write", "divert", "commit"}

\* Logs are bounded, and offsets lie inside them.
OffsetsInLog ==
    /\ \A p \in Partitions : Len(log[p]) <= MaxLog /\ committed[p] <= Len(log[p])
    /\ pc # "down" => \A p \in Partitions : position[p] <= Len(log[p])

\* What the worker remembers of its batch belongs to the batch, which lies
\* before the fetch position.
BatchShape ==
    /\ \A x \in batch : x[2] < position[x[1]]
    /\ rows \subseteq batch /\ todo \subseteq rows /\ left \subseteq batch
    /\ poison \subseteq batch /\ tried \subseteq poison
    /\ \A x \in rows \cup left : Parses(EventAt(x))
    /\ pc = "down" => batch = {}
    /\ pc \in {"poll", "divert", "commit", "down"} => rows = {} /\ left = {}
    /\ pc \in {"poll", "down"} => poison = {} /\ ~dlqFailed /\ ~isolating
    /\ pc # "write" => todo = {} /\ work = db

\* No event of the batch is forgotten: it is in the database, or poison, or
\* still to be written.
Accounted ==
    Processing => \A x \in batch \ (poison \cup rows \cup left) :
        Reflects(db, EventAt(x))

\* The transaction only adds to the committed tables, and has done what it
\* has executed.
OpenTransaction ==
    /\ NeverOlder(db, work)
    /\ \A x \in rows \ todo : pc = "write" => Reflects(work, EventAt(x))

\* Outside isolation the transaction has all events that are not poison; in
\* isolation it has one, and forms come before counterparties.
IsolationShape ==
    /\ ~isolating => left = {}
    /\ isolating => \A x, y \in rows : x = y
    /\ isolating => \A x \in rows, y \in left :
           IsForm(EventAt(y)) => IsForm(EventAt(x))

\* Poison is permanent: the form is missing, and no form is about to be
\* written.
PoisonIsPermanent ==
    \A x \in poison : Parses(EventAt(x)) =>
        /\ EventAt(x).form # NoForm /\ work[EventAt(x).form] = NoRow
        /\ \A y \in rows \cup left : isolating /\ ~IsForm(EventAt(y))

\* A record counts as tried only if it is in a dead-letter topic or the
\* failure is remembered; the offsets are committed only without failure.
Diverted ==
    /\ \A x \in tried : x \in dlq \/ dlqFailed
    /\ pc = "commit" => tried = poison /\ ~dlqFailed

\* NoGap, kept while a stopped worker still finishes its batch.
NoGapWhileProcessing ==
    pc = "down" \/ (pc = "poll" /\ stop) \/
    \A p \in Partitions : \A o \in 0..(position[p] - 1) :
        <<p, o>> \in Settled \cup batch

\* The conjunction is inductive; it implies the invariants above.
IInv ==
    /\ TypeOK
    /\ OffsetsInLog
    /\ BatchShape
    /\ Accounted
    /\ OpenTransaction
    /\ IsolationShape
    /\ PoisonIsPermanent
    /\ Diverted
    /\ NoGapWhileProcessing
    /\ CommittedIsSettled

-----------------------------------------------------------------------------
(* The invariant behind LastVersionWins                                    *)

\* A row with the time of an event of its key is that event's row.
KeepsVersions(table) ==
    \A m \in Messages :
        m.kind = "event" /\ table[m.id] # NoRow /\ table[m.id].ts = m.ts =>
            table[m.id] = RowOf(m)

\* What LastVersionWins rests on: a key has one version per timestamp, also in
\* the tables the consumer finds.
OneVersionPerTime ==
    /\ \A m, n \in Messages :
          m.kind = "event" /\ n.kind = "event" /\ m.id = n.id /\ m.ts = n.ts =>
              RowOf(m) = RowOf(n)
    /\ \A tables \in InitialTables : KeepsVersions(tables)

\* Whatever is redelivered, rolled back or skipped, a row never mixes versions:
\* the columns and the timestamp the upsert writes are of one event.
RowsAreVersions == KeepsVersions(db) /\ KeepsVersions(work)

-----------------------------------------------------------------------------
(* The worker implements at-least-once delivery                            *)

Promise == INSTANCE AtLeastOnce WITH settled <- Settled

\* Every step of worker, broker, database and faults is a step the abstract
\* specification allows: settled messages stay settled, and offsets are
\* committed only over settled messages.
DeliversAtLeastOnce == Promise!Spec

-----------------------------------------------------------------------------
(* Liveness                                                                *)

\* Once faults have ceased, everything published gets committed, unless it holds
\* a message the driver can never store (docs/architecture.md:84).
EverythingGetsCommitted ==
    <>[](CaughtUp \/ \E p \in Partitions : \E i \in DOMAIN log[p] : log[p][i].kind = "unstorable")
=============================================================================
