---------------------------- MODULE Synchronizer ----------------------------
(***************************************************************************)
(* integration-service: runs of the Synchronizer (integration/sync.py,     *)
(* sync_state.py, producer.py, sources/) between the 1C catalogues, Kafka  *)
(* and the integration database.                                           *)
(*                                                                         *)
(* A run takes the advisory lock, reads the watermarks, fetches and        *)
(* publishes the ownership forms, waits until the consumer has stored the  *)
(* forms the counterparties refer to, publishes the counterparties and     *)
(* advances the watermarks.  Meanwhile users save catalogue objects, other *)
(* runs start, the consumer applies (and applies again) what is published, *)
(* and any step of a run may fail, also with records still on their way to *)
(* the broker.  A catalogue is read page by page, each page at a moment of *)
(* its own.                                                                *)
(*                                                                         *)
(* The consumer is taken as AtLeastOnce promises it, which ConsumerWorker  *)
(* implements.  Timestamps are 1C's, in whole seconds.                     *)
(***************************************************************************)
EXTENDS OneCService, Sequences, FiniteSetsExt

CONSTANTS
    Runs,            \* invocations of the CLI that may be alive together
    NoRun,           \* nobody holds the advisory lock
    InitialSource,   \* contents the catalogues may start with
    InitialDatabase, \* how the databases may start: "fresh" or "synced"
    SaveGap,         \* seconds between two saves of one object, at least
    SaveTime,        \* seconds a save may need from its stamp to its commit
    FetchTime,       \* seconds a fetch may go on after a save of an object
                     \* that it has passed
    MaxClock,        \* bound: the last second
    MaxStarts,       \* bound: runs started
    MaxRedeliveries, \* bound: times the consumer falls back
    MaxLockLosses    \* bound: sessions lost that hold the lock

ASSUME SynchronizerAssumption ==
    /\ NoRun \notin Runs
    /\ InitialSource \subseteq Tables
    /\ \A table \in InitialSource, id \in Ids : table[id] # NoRow =>
           table[id].ts = 1 /\ (id \in FormIds => table[id].form = NoForm)
    /\ MaxClock > 0
    /\ {SaveGap, SaveTime, FetchTime, MaxClock, MaxStarts, MaxRedeliveries, MaxLockLosses}
          \subseteq Nat

VARIABLES
    clock,        \* 1C: the current second
    source,       \* 1C: the committed catalogues
    saving,       \* 1C: objects stamped by ПередЗаписью, not yet committed
    topic,        \* Kafka: the messages of each entity's topic
    applied,      \* consumer: how much of each topic it has applied
    redeliveries, \* consumer: times it fell back so far
    db,           \* PostgreSQL: ownership_forms and counterparties
    watermark,    \* PostgreSQL: sync_state.last_synced_at
    lock,         \* PostgreSQL: whose session holds the advisory lock
    lockLosses,   \* PostgreSQL: such sessions lost so far
    stage,        \* where each run is
    mode,         \* full or incremental
    since,        \* the watermarks it has read
    offset,       \* offset of the page it asks for
    fetched,      \* what it has fetched, as messages
    changed,      \* the counterparties it will publish
    queue,        \* its messages not yet delivered to the broker
    errors,       \* a delivery callback has reported an error
    starts        \* runs started so far

users    == <<clock, source, saving>>
consumer == <<applied, redeliveries, db>>
run      == <<stage, mode, since, offset, fetched, changed, queue, errors>>
locking  == <<lock, lockLosses>>
vars     == <<users, topic, consumer, watermark, locking, run, starts>>

Entities == {"ownership_forms", "counterparties"}
EntityOf(id) == IF id \in FormIds THEN "ownership_forms" ELSE "counterparties"
IdsOf(entity) == {id \in Ids : EntityOf(id) = entity}

Modes == {"full", "incremental"}

Stages == {"idle", "locking", "readForms", "readCounterparties",
           "fetchForms", "publishForms", "flushForms",
           "fetchCounterparties", "compareCounterparties", "barrier",
           "flushCounterparties", "advanceForms", "advanceCounterparties", "unlock"}

TypeOK ==
    /\ clock \in 1..MaxClock
    /\ source \in Tables /\ saving \in Tables /\ db \in Tables
    /\ topic \in [Entities -> Seq(Events)]
    /\ applied \in [Entities -> Nat]
    /\ redeliveries \in 0..MaxRedeliveries
    /\ watermark \in [Entities -> Nat]
    /\ lock \in Runs \cup {NoRun}
    /\ lockLosses \in 0..MaxLockLosses
    /\ stage \in [Runs -> Stages]
    /\ mode \in [Runs -> Modes]
    /\ since \in [Runs -> [Entities -> Nat]]
    /\ offset \in [Runs -> Nat]
    /\ fetched \in [Runs -> [Entities -> SUBSET Events]]
    /\ changed \in [Runs -> SUBSET Events]
    /\ queue \in [Runs -> SUBSET Events]
    /\ errors \in [Runs -> BOOLEAN]
    /\ starts \in 0..MaxStarts

Nothing == [e \in Entities |-> {}]

\* Fresh databases, or what a full run and the consumer make of them.
DatabaseAtStart ==
    \/ /\ "fresh" \in InitialDatabase
       /\ db = [id \in Ids |-> NoRow]
       /\ watermark = [e \in Entities |-> NoTime]
    \/ /\ "synced" \in InitialDatabase
       /\ db = source
       /\ watermark = [e \in Entities |->
              Max({NoTime} \cup {source[id].ts : id \in {i \in IdsOf(e) : source[i] # NoRow}})]

Init ==
    /\ clock = 1
    /\ source \in InitialSource
    /\ saving = [id \in Ids |-> NoRow]
    /\ topic = [e \in Entities |-> <<>>]
    /\ applied = [e \in Entities |-> 0]
    /\ redeliveries = 0
    /\ DatabaseAtStart
    /\ lock = NoRun
    /\ lockLosses = 0
    /\ stage = [r \in Runs |-> "idle"]
    /\ mode = [r \in Runs |-> "full"]
    /\ since = [r \in Runs |-> [e \in Entities |-> NoTime]]
    /\ offset = [r \in Runs |-> 0]
    /\ fetched = [r \in Runs |-> Nothing]
    /\ changed = [r \in Runs |-> {}]
    /\ queue = [r \in Runs |-> {}]
    /\ errors = [r \in Runs |-> FALSE]
    /\ starts = 0

-----------------------------------------------------------------------------
(* 1C                                                                      *)

FetchStage(e) == IF e = "ownership_forms" THEN "fetchForms" ELSE "fetchCounterparties"

\* What the next requests of a run are about.
Wanted(r, e) == Selected(source, IdsOf(e), Since(since[r][e]))

\* The objects that lie on the pages a run has read already, but not as it has
\* read them: they were saved since, and this fetch will not see it.
Passed(r, e) ==
    {id \in Wanted(r, e) :
        /\ stage[r] = FetchStage(e)
        /\ Position(id, Wanted(r, e)) < offset[r]
        /\ EventOf(id, source[id]) \notin fetched[r][e]}

\* Time passes, but a save does not take longer than SaveTime, nor the rest of
\* a fetch longer than FetchTime once it has passed a save.
Tick ==
    /\ clock < MaxClock
    /\ \A id \in Ids : saving[id] # NoRow => clock < saving[id].ts + SaveTime
    /\ \A r \in Runs, e \in Entities : \A id \in Passed(r, e) :
          clock < source[id].ts + FetchTime
    /\ clock' = clock + 1
    /\ UNCHANGED <<source, saving, topic, consumer, watermark, locking, run, starts>>

\* ПередЗаписью stamps an object inside the transaction of its save.  A
\* counterparty may refer to any committed form.
BeginSave(id) ==
    /\ saving[id] = NoRow
    /\ source[id] # NoRow => clock >= source[id].ts + SaveGap
    /\ \E v \in Values,
          f \in IF id \in FormIds THEN {NoForm}
                ELSE {NoForm} \cup {g \in FormIds : source[g] # NoRow} :
        saving' = [saving EXCEPT ![id] = [ts |-> clock, val |-> v, form |-> f]]
    /\ UNCHANGED <<clock, source, topic, consumer, watermark, locking, run, starts>>

CommitSave(id) ==
    /\ saving[id] # NoRow
    /\ source' = [source EXCEPT ![id] = saving[id]]
    /\ saving' = [saving EXCEPT ![id] = NoRow]
    /\ UNCHANGED <<clock, topic, consumer, watermark, locking, run, starts>>

-----------------------------------------------------------------------------
(* The consumer                                                            *)

\* The next message of a topic: the upsert, or the dead-letter topic for a
\* counterparty without its form.
Apply(e) ==
    /\ applied[e] < Len(topic[e])
    /\ LET m == topic[e][applied[e] + 1] IN
       db' = IF ViolatesForeignKey(db, m) THEN db ELSE Upsert(db, m)
    /\ applied' = [applied EXCEPT ![e] = @ + 1]
    /\ UNCHANGED <<users, topic, redeliveries, watermark, locking, run, starts>>

\* Offsets not committed are delivered again.
Redeliver(e) ==
    /\ redeliveries < MaxRedeliveries
    /\ \E o \in 0..(applied[e] - 1) : applied' = [applied EXCEPT ![e] = o]
    /\ redeliveries' = redeliveries + 1
    /\ UNCHANGED <<users, topic, db, watermark, locking, run, starts>>

-----------------------------------------------------------------------------
(* The producer's delivery, in the background of a run and, after a failed *)
(* flush, of the rest of its process                                       *)

\* Two versions of an object, read on two pages, arrive in the order they were
\* read: their key is the same.
Deliver(r) ==
    /\ \E m \in queue[r] :
        /\ \A n \in queue[r] : n.id = m.id => m.ts <= n.ts
        /\ topic' = [topic EXCEPT ![EntityOf(m.id)] = Append(@, m)]
        /\ queue' = [queue EXCEPT ![r] = @ \ {m}]
    /\ UNCHANGED <<users, consumer, watermark, locking, stage, mode, since, offset, fetched,
                   changed, errors, starts>>

\* _on_delivery with an error; for a process that has ended, a record lost.
LoseRecord(r) ==
    /\ \E m \in queue[r] : queue' = [queue EXCEPT ![r] = @ \ {m}]
    /\ errors' = [errors EXCEPT ![r] = stage[r] # "idle"]
    /\ UNCHANGED <<users, topic, consumer, watermark, locking, stage, mode, since, offset, fetched,
                   changed, starts>>

-----------------------------------------------------------------------------
(* A run                                                                   *)

GoTo(r, s) == stage' = [stage EXCEPT ![r] = s]

\* `sync full` or `sync incremental`: a new process asks for the lock.
Start(r, m) ==
    /\ stage[r] = "idle" /\ queue[r] = {}
    /\ starts < MaxStarts
    /\ starts' = starts + 1
    /\ mode' = [mode EXCEPT ![r] = m]
    /\ GoTo(r, "locking")
    /\ UNCHANGED <<users, topic, consumer, watermark, locking, since, offset, fetched, changed, queue,
                   errors>>

\* pg_advisory_lock blocks while another session has the lock.
Lock(r) ==
    /\ stage[r] = "locking"
    /\ lock = NoRun
    /\ lock' = r
    /\ GoTo(r, "readForms")
    /\ UNCHANGED <<users, topic, consumer, watermark, lockLosses, mode, since, offset, fetched,
                   changed, queue, errors, starts>>

\* _since: the watermark of an entity, unless everything is wanted.
ReadWatermark(r, e) ==
    since' = [since EXCEPT ![r][e] = IF mode[r] = "full" THEN NoTime ELSE watermark[e]]

ReadFormsWatermark(r) ==
    /\ stage[r] = "readForms"
    /\ ReadWatermark(r, "ownership_forms")
    /\ GoTo(r, "readCounterparties")
    /\ UNCHANGED <<users, topic, consumer, watermark, locking, mode, offset, fetched, changed,
                   queue, errors, starts>>

ReadCounterpartiesWatermark(r) ==
    /\ stage[r] = "readCounterparties"
    /\ ReadWatermark(r, "counterparties")
    /\ GoTo(r, "fetchForms")
    /\ UNCHANGED <<users, topic, consumer, watermark, locking, mode, offset, fetched, changed,
                   queue, errors, starts>>

\* One page of a catalogue, as it is now.  After a short page the run goes on.
FetchPage(r, e, next) ==
    LET page == Page(Wanted(r, e), offset[r]) IN
    /\ fetched' = [fetched EXCEPT ![r][e] = @ \cup {EventOf(id, source[id]) : id \in page}]
    /\ IF Cardinality(page) < PageSize
       THEN GoTo(r, next) /\ offset' = [offset EXCEPT ![r] = 0]
       ELSE offset' = [offset EXCEPT ![r] = @ + Cardinality(page)] /\ UNCHANGED stage
    /\ UNCHANGED <<users, topic, consumer, watermark, locking, mode, since, changed, queue,
                   errors, starts>>

FetchForms(r) ==
    /\ stage[r] = "fetchForms"
    /\ FetchPage(r, "ownership_forms", "publishForms")

\* _needs_publish: not what is stored already, nor anything older.
NeedsPublish(m) ==
    db[m.id] # NoRow => m.ts >= db[m.id].ts /\ RowOf(m) # db[m.id]

\* _changed_ownership_forms, _changed_counterparties.
Changed(r, messages) ==
    IF mode[r] = "incremental" THEN {m \in messages : NeedsPublish(m)} ELSE messages

PublishForms(r) ==
    /\ stage[r] = "publishForms"
    /\ queue' = [queue EXCEPT ![r] = Changed(r, fetched[r]["ownership_forms"])]
    /\ GoTo(r, "flushForms")
    /\ UNCHANGED <<users, topic, consumer, watermark, locking, mode, since, offset, fetched,
                   changed, errors, starts>>

\* Mutant of Flushed: delivery errors are not counted.
FlushedIgnoringErrors(r) == queue[r] = {}

\* flush returns zero: all delivered, no callback reported an error.
Flushed(r) == queue[r] = {} /\ ~errors[r]

FlushForms(r) ==
    /\ stage[r] = "flushForms"
    /\ Flushed(r)
    /\ GoTo(r, "fetchCounterparties")
    /\ UNCHANGED <<users, topic, consumer, watermark, locking, mode, since, offset, fetched, changed,
                   queue, errors, starts>>

FetchCounterparties(r) ==
    /\ stage[r] = "fetchCounterparties"
    /\ FetchPage(r, "counterparties", "compareCounterparties")

CompareCounterparties(r) ==
    /\ stage[r] = "compareCounterparties"
    /\ changed' = [changed EXCEPT ![r] = Changed(r, fetched[r]["counterparties"])]
    /\ GoTo(r, "barrier")
    /\ UNCHANGED <<users, topic, consumer, watermark, locking, mode, since, offset, fetched, queue,
                   errors, starts>>

\* Mutant of FormsStored: no barrier.
FormsAssumed(messages) == TRUE

\* wait_for_ownership_forms: all required forms are in the database.
FormsStored(messages) ==
    \A m \in messages : m.form # NoForm => db[m.form] # NoRow

PublishCounterparties(r) ==
    /\ stage[r] = "barrier"
    /\ FormsStored(changed[r])
    /\ queue' = [queue EXCEPT ![r] = changed[r]]
    /\ changed' = [changed EXCEPT ![r] = {}]
    /\ GoTo(r, "flushCounterparties")
    /\ UNCHANGED <<users, topic, consumer, watermark, locking, mode, since, offset, fetched, errors,
                   starts>>

FlushCounterparties(r) ==
    /\ stage[r] = "flushCounterparties"
    /\ Flushed(r)
    /\ GoTo(r, "advanceForms")
    /\ UNCHANGED <<users, topic, consumer, watermark, locking, mode, since, offset, fetched, changed,
                   queue, errors, starts>>

\* Mutant of Advanced: to the clock of the service.
AdvancedToClock(r, e) == [watermark EXCEPT ![e] = clock]

\* _advance_state: to the newest timestamp fetched; a full run may move the
\* watermark back.
Advanced(r, e) ==
    IF fetched[r][e] = {} THEN watermark
    ELSE LET newest == Max({m.ts : m \in fetched[r][e]})
         IN  [watermark EXCEPT ![e] =
                 IF mode[r] = "full" THEN newest ELSE Max({@, newest})]

AdvanceForms(r) ==
    /\ stage[r] = "advanceForms"
    /\ watermark' = Advanced(r, "ownership_forms")
    /\ GoTo(r, "advanceCounterparties")
    /\ UNCHANGED <<users, topic, consumer, locking, mode, since, offset, fetched, changed, queue,
                   errors, starts>>

AdvanceCounterparties(r) ==
    /\ stage[r] = "advanceCounterparties"
    /\ watermark' = Advanced(r, "counterparties")
    /\ GoTo(r, "unlock")
    /\ UNCHANGED <<users, topic, consumer, locking, mode, since, offset, fetched, changed, queue,
                   errors, starts>>

\* Mutant of End: the lock outlives the process.
EndStillLocked(r) ==
    /\ stage' = [stage EXCEPT ![r] = "idle"]
    /\ UNCHANGED <<lock, since, offset, mode, fetched, changed, errors>>

\* The process ends, and with its session the lock.
End(r) ==
    /\ stage' = [stage EXCEPT ![r] = "idle"]
    /\ lock' = IF lock = r THEN NoRun ELSE lock
    /\ since' = [since EXCEPT ![r] = [e \in Entities |-> NoTime]]
    /\ offset' = [offset EXCEPT ![r] = 0]
    /\ mode' = [mode EXCEPT ![r] = "full"]
    /\ fetched' = [fetched EXCEPT ![r] = Nothing]
    /\ changed' = [changed EXCEPT ![r] = {}]
    /\ errors' = [errors EXCEPT ![r] = FALSE]

Finish(r) ==
    /\ stage[r] = "unlock"
    /\ End(r)
    /\ UNCHANGED <<users, topic, consumer, watermark, lockLosses, queue, starts>>

\* flush reports errors or gives up on what is still queued: RuntimeError.
FlushFails(r) ==
    /\ stage[r] \in {"flushForms", "flushCounterparties"}
    /\ ~Flushed(r)
    /\ End(r)
    /\ UNCHANGED <<users, topic, consumer, watermark, lockLosses, queue, starts>>

\* TimeoutError: the consumer has not stored a required form in time.
BarrierTimesOut(r) ==
    /\ stage[r] = "barrier"
    /\ ~FormsStored(changed[r])
    /\ End(r)
    /\ UNCHANGED <<users, topic, consumer, watermark, lockLosses, queue, starts>>

\* 1C, Kafka or PostgreSQL fails in any other call, or the process is killed.
Fail(r) ==
    /\ stage[r] # "idle"
    /\ End(r)
    /\ UNCHANGED <<users, topic, consumer, watermark, lockLosses, queue, starts>>

\* PostgreSQL drops the session that holds the lock.  The run, which does not
\* use that session until it unlocks, goes on.
LoseLockSession(r) ==
    /\ lock = r
    /\ lockLosses < MaxLockLosses
    /\ lock' = NoRun
    /\ lockLosses' = lockLosses + 1
    /\ UNCHANGED <<users, topic, consumer, watermark, run, starts>>

-----------------------------------------------------------------------------
\* What a run does on its own until it ends.
Proceed(r) ==
    \/ Lock(r) \/ ReadFormsWatermark(r) \/ ReadCounterpartiesWatermark(r)
    \/ FetchForms(r) \/ PublishForms(r) \/ FlushForms(r)
    \/ FetchCounterparties(r) \/ CompareCounterparties(r)
    \/ PublishCounterparties(r) \/ FlushCounterparties(r)
    \/ AdvanceForms(r) \/ AdvanceCounterparties(r) \/ Finish(r)
    \/ FlushFails(r) \/ BarrierTimesOut(r)

Next ==
    \/ Tick
    \/ \E id \in Ids : BeginSave(id) \/ CommitSave(id)
    \/ \E e \in Entities : Apply(e) \/ Redeliver(e)
    \/ \E r \in Runs :
         \/ \E m \in Modes : Start(r, m)
         \/ Proceed(r) \/ Fail(r)
         \/ Deliver(r) \/ LoseRecord(r) \/ LoseLockSession(r)

Spec == Init /\ [][Next]_vars

\* Timeouts and the scheduler keep a run going; neither users nor consumer
\* nor broker are obliged to anything.
FairSpec == Spec /\ \A r \in Runs : WF_vars(Proceed(r))

\* The consumer works too.
DeliveringSpec == FairSpec /\ \A e \in Entities : WF_vars(Apply(e))

-----------------------------------------------------------------------------
\* The barrier's promise (docs/architecture.md: it guarantees the foreign key
\* across topics): a published counterparty finds its form in the database,
\* so its delivery, first or repeated, never ends in a dead-letter topic.
ReferencesResolve ==
    \A o \in DOMAIN topic["counterparties"] :
        LET m == topic["counterparties"][o]
        IN  m.form # NoForm => db[m.form] # NoRow

\* An object the next incremental run will not fetch is up to date: when the
\* consumer has applied everything published, it is in the database as it is
\* in 1C, whatever runs failed, timed out or delivered late.
WatermarkHidesNothing ==
    (\A e \in Entities : applied[e] = Len(topic[e])) =>
        \A id \in Ids : source[id] # NoRow =>
            \/ id \in Selected(source, IdsOf(EntityOf(id)), Since(watermark[EntityOf(id)]))
            \/ db[id] = source[id]

\* The record is in its topic, or the database has it or something newer.
Published(e, m) == (\E o \in DOMAIN topic[e] : topic[e][o] = m) \/ Reflects(db, m)

\* A run that gets past its last flush has left nothing behind: each record
\* it fetched is in its topic, or the database had it or something newer,
\* also if a record was lost, delivered late or overtaken by another run
\* (flush and its two callers).
SuccessMeansPublished ==
    \A r \in Runs : stage[r] \in {"advanceForms", "advanceCounterparties", "unlock"} =>
        \A e \in Entities : \A m \in fetched[r][e] : Published(e, m)

\* What a successful run has fetched, on any of its pages, is in the database
\* some time later, as it was fetched or newer (the contract between the
\* Synchronizer's result and the consumer).
SuccessReachesDatabase ==
    \A id \in Ids, t \in 1..MaxClock :
        (\E r \in Runs : /\ stage[r] = "unlock"
                        /\ \E m \in fetched[r][EntityOf(id)] : m.id = id /\ m.ts = t)
            ~> (db[id] # NoRow /\ db[id].ts >= t)

\* A run ends, with a result or with an error: it never waits forever for the
\* lock, the broker or the consumer.
EveryRunEnds == \A r \in Runs : stage[r] # "idle" ~> stage[r] = "idle"

-----------------------------------------------------------------------------
(* The invariant behind ReferencesResolve and SuccessMeansPublished        *)

\* 1C stamps with its clock, forms refer to nothing, and no watermark is ahead.
CatalogueIsSound ==
    /\ \A id \in Ids : source[id] # NoRow => source[id].ts \in 1..clock
    /\ \A id \in Ids : saving[id] # NoRow => saving[id].ts \in 1..clock
    /\ \A id \in FormIds : source[id] # NoRow => source[id].form = NoForm
    /\ \A id \in FormIds : saving[id] # NoRow => saving[id].form = NoForm
    /\ \A e \in Entities : watermark[e] <= clock

\* A message in its own catalogue's list or topic.
Sorted(e, m) == m.id \in IdsOf(e) /\ (m.id \in FormIds => m.form = NoForm)

\* The form a message refers to is in the database.
Resolved(m) == m.form # NoForm => db[m.form] # NoRow

TopicsAreSound ==
    \A e \in Entities : \A o \in DOMAIN topic[e] : Sorted(e, topic[e][o]) /\ Resolved(topic[e][o])

\* What a run has read is of its catalogue and not ahead of 1C's clock; what
\* it has queued, in its two flushes only unless it has ended, finds its form.
Reads(r) ==
    /\ \A e \in Entities : since[r][e] <= clock
    /\ \A e \in Entities : \A m \in fetched[r][e] : Sorted(e, m) /\ m.ts <= clock
    /\ changed[r] \subseteq fetched[r]["counterparties"]
    /\ \A m \in queue[r] : Resolved(m) /\ (m.id \in FormIds => m.form = NoForm)
    /\ stage[r] \notin {"idle", "flushForms", "flushCounterparties"} => queue[r] = {}

PastForms == {"fetchCounterparties", "compareCounterparties", "barrier", "flushCounterparties",
              "advanceForms", "advanceCounterparties", "unlock"}
PastCounterparties == {"advanceForms", "advanceCounterparties", "unlock"}

\* What has become of the fetched messages when a run reaches a stage.
Handled(r) ==
    /\ stage[r] = "flushForms" => \A m \in fetched[r]["ownership_forms"] :
           m \in queue[r] \/ errors[r] \/ Published("ownership_forms", m)
    /\ stage[r] \in PastForms => \A m \in fetched[r]["ownership_forms"] :
           Published("ownership_forms", m)
    /\ stage[r] = "barrier" => \A m \in fetched[r]["counterparties"] :
           m \in changed[r] \/ Published("counterparties", m)
    /\ stage[r] = "flushCounterparties" => \A m \in fetched[r]["counterparties"] :
           m \in queue[r] \/ errors[r] \/ Published("counterparties", m)
    /\ stage[r] \in PastCounterparties => \A m \in fetched[r]["counterparties"] :
           Published("counterparties", m)

\* What the consumer has passed is in the database, as it was or newer.
AppliedIsReflected ==
    \A e \in Entities :
        /\ applied[e] <= Len(topic[e])
        /\ \A o \in 1..applied[e] : Reflects(db, topic[e][o])

IInv ==
    /\ TypeOK
    /\ CatalogueIsSound
    /\ TopicsAreSound
    /\ \A r \in Runs : Reads(r) /\ Handled(r)
    /\ AppliedIsReflected

-----------------------------------------------------------------------------
(* The invariant behind WatermarkHidesNothing                              *)

\* The assumptions it rests on: a save commits in the second of its stamp, an
\* object is saved once a second, the session is not east of UTC, and a fetch
\* that has passed a save ends within its second, or reads a single page.
Orderly ==
    /\ SaveTime = 0 /\ SaveGap > 0
    /\ SessionOffset <= 0
    /\ FetchTime = 0 \/ \A e \in Entities : Cardinality(IdsOf(e)) < PageSize

\* A save under way is of this second, and later than what it replaces.
SavesArePrompt ==
    \A id \in Ids : saving[id] # NoRow =>
        /\ saving[id].ts = clock
        /\ source[id] # NoRow => source[id].ts < clock

\* The row was the object once: it is what the object is, or older.
Version(id, row) ==
    /\ source[id] # NoRow
    /\ row.ts <= source[id].ts
    /\ row.ts = source[id].ts => row = source[id]

StoredVersions ==
    /\ \A id \in Ids : db[id] # NoRow => Version(id, db[id])
    /\ \A e \in Entities : \A o \in DOMAIN topic[e] : Version(topic[e][o].id, RowOf(topic[e][o]))

\* Everything older than the moment is published as it is in 1C.
PublishedBefore(e, moment) ==
    \A id \in IdsOf(e) : source[id] # NoRow /\ source[id].ts < moment =>
        Published(e, EventOf(id, source[id]))

\* The object is on a page the run has not read yet.
Ahead(r, e, id) ==
    /\ stage[r] = FetchStage(e)
    /\ id \in Wanted(r, e)
    /\ Position(id, Wanted(r, e)) >= offset[r]

\* Of all that is older than the moment a run has read the last version, or
\* will read it, or need not.
ReadBefore(r, e, moment) ==
    \A id \in IdsOf(e) : source[id] # NoRow /\ source[id].ts < moment =>
        \/ EventOf(id, source[id]) \in fetched[r][e]
        \/ Published(e, EventOf(id, source[id]))
        \/ Ahead(r, e, id)

\* What a run has fetched, although page by page, is the catalogue at one moment,
\* but for saves of the present second.
Snapshot(r) ==
    /\ offset[r] # 0 => FetchTime = 0 /\ \E e \in Entities : stage[r] = FetchStage(e)
    /\ \A m \in queue[r] : Version(m.id, RowOf(m))
    /\ \A e \in Entities :
        /\ PublishedBefore(e, since[r][e])
        /\ \A id \in Passed(r, e) : source[id].ts = clock
        /\ \A m \in fetched[r][e] : Version(m.id, RowOf(m)) /\ ReadBefore(r, e, m.ts)

WInv ==
    /\ Orderly
    /\ SavesArePrompt
    /\ StoredVersions
    /\ \A e \in Entities : PublishedBefore(e, watermark[e])
    /\ \A r \in Runs : Snapshot(r)
=============================================================================
