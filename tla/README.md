# Formal model of the 1C → Kafka → PostgreSQL integration

TLA+ specifications of the two services of this repository and of what they
stand between, TLC configurations that check them on small instances, and TLAPS
proofs of the safety properties of all its components for every instance.

## The system

```
 1C catalogues ──HTTP──▶ integration-service ──▶ Kafka (2 topics) ──▶ consumer-service ──▶ PostgreSQL
 (forms,        pages    Synchronizer, one run   ownership_forms,     Workers of one       ownership_forms,
  counterparties)        per CLI invocation      counterparties,      consumer group       counterparties,
 or a JSON file               ▲                  *.dlq                                     sync_state
                              └───── watermarks, advisory lock, FK barrier, comparison ─────┘
```

### Inventory

| component (source) | state it keeps | operations | what makes it correct | module |
|---|---|---|---|---|
| Consumer worker (`consumer/worker.py`) | fetch position, batch, retry counter, stop event; in Kafka the committed offsets and dead-letter topics | poll a batch, parse, write with retries, isolate event by event, divert poison, commit offsets, rewind, stop, restart | nothing is lost or skipped; only poison is diverted; a healthy system makes progress | `ConsumerWorker` |
| Consumer group (`consumer/worker.py`, the client library) | members, owners of partitions, offsets | join, assign, revoke, evict, commit of a former owner, seek on a lost partition | the group's offsets never pass unsettled messages, whoever commits | `ConsumerGroup` |
| Consumer database (`consumer/db.py`, `migrations/V1__init.sql`) | the tables `ownership_forms` and `counterparties`, an open transaction | upsert guarded by `source_updated_at`, foreign key, commit, rollback, reconnect | a batch is atomic; redelivery never makes a row older | `RowStore`, `ConsumerWorker` |
| Event parsing (`consumer/models.py`) | none | `parse_event` | malformed messages are told apart before the database sees them | `RowStore` (partly) |
| Health (`consumer/health.py`) | readiness flags, heartbeats and counters under a lock | heartbeats, `/livez`, `/readyz`, `/metrics`; the signal handler | ready means that the worker is alive; a stop ends it | `WorkerHealth` |
| Synchronizer (`integration/sync.py`, `sync_state.py`) | stage of a run; in PostgreSQL `sync_state` and the advisory lock | full and incremental runs: lock, read watermarks, fetch, compare, publish, flush, barrier, advance | a watermark never hides an object that is not up to date; a published counterparty finds its form; runs end | `Synchronizer` |
| Event producer (`integration/producer.py`) | librdkafka's queue, count of delivery errors | publish, flush with a timeout, delivery callback | flush reports every record that did not arrive | `Synchronizer` |
| 1C (`1c/src`) | catalogues, `ДатаИзменения` per object | `ПередЗаписью` stamps, HTTP service answers `changed_since` in pages | a page is what is behind its offset now | `OneCService` |
| HTTP source (`sources/onec_http.py`) | offset, pages read, attempts | paged fetch with retries | a fetch misses nothing that was there | `OneCSource` |
| Mock source (`sources/mock.py`) | the state file, its lock, a copy in memory | load, seed, fetch, touch, soft delete, atomic save | changes are serial and found by the next sync | `MockSource` |
| CLI (`integration/__main__.py`) | none | `sync full`, `sync incremental`, demo commands | exit code tells failure | `Synchronizer`, `MockSource` |
| Configuration, logging, compose, scripts | – | – | – | not modelled |

The services never call each other. They meet in Kafka (events keyed by object
id, so one object stays in one partition) and in PostgreSQL: the consumer writes
the two tables, the synchronizer reads them (comparison, foreign key barrier) and
writes `sync_state`.

What is hard here: crashes between two commits of different systems; calls that
report failure after having succeeded (offset commit, database commit,
dead-letter delivery, flush); redelivery in another grouping than before;
partitions that move while their messages are in flight; two topics without a
common order but with a foreign key between them; timestamps of whole seconds
taken inside transactions that commit later; pages of a catalogue that changes
between them; the runs' lock, which belongs to a connection; a signal handler
that takes locks. `PROJECT.json` lists each hazard with its line.

## Modules

| module | models | related to |
|---|---|---|
| `RowStore` | events, rows, the upsert and the foreign key | extended by both services' modules |
| `AtLeastOnce` | what the consumer promises: settled messages stay settled, offsets cover settled messages only | refined by `ConsumerWorker` and `ConsumerGroup`; the consumer of `Synchronizer` |
| `ConsumerWorker` | one worker in detail, its faults and restarts | |
| `ConsumerGroup` | several workers and the group, a worker in less detail | |
| `WorkerHealth` | the threads of a worker, its locks, the signal handler | |
| `OneCService` | one request to 1C: selection, order, page, the conversion of `changed_since` | extended by the next two |
| `OneCSource` | one fetch, page by page, over a changing catalogue and failing requests | |
| `Synchronizer` | concurrent runs, 1C's users, the producer's background delivery, the consumer | composes 1C, the service and the consumer |
| `MockSource` | the processes around the state file | refines `SourceCatalogue` |
| `SourceCatalogue` | a catalogue whose changes are serial and stamped in their order | |
| `MC*` | instances for TLC | |
| `OffsetProofs`, `ConsumerWorkerProofs`, `ConsumerGroupProofs`, `OneCServiceProofs`, `OneCSourceProofs`, `MockSourceProofs`, `SynchronizerProofs`, `WorkerHealthProofs` | theorems | |

### ConsumerWorker

One action per step that another party can observe or interrupt. `pc` says where
the worker is:

| `pc` | code |
|---|---|
| `poll` | `run`'s loop and `_poll_batch` (`Poll`, `PollNothing`, `PollError`, `StopPolling`); `ParseBatch` enters `_process_batch` |
| `attempt`, `write` | `_apply_with_retry` between and inside attempts (`BeginWrite`, `ExecuteRow` per upsert, `CommitWrite`, `TransientError`, `ForeignKeyRetry`, `ForeignKeyGiveUp`, `FatalError`, `GiveUp`) |
| `divert` | the dead-letter loop (`SendToDlq`, `DlqError`, `StopDelivery`, `EndDelivery`) |
| `commit` | `_commit` (`CommitOffsets`, `CommitError`) |
| `down` | the process is gone; `Restart` is the container's restart |

`isolating` and `left` stand for being inside `_apply_individually`, which calls
`_apply_with_retry` with one message and therefore rewinds only that message
(`RewindScope`). `work` is the tables as the open transaction sees them. A
connection lost while nothing is left to execute may have committed
(`AfterLostConnection`). `CommitError` lets the broker store the offsets of any
subset of the partitions. `Signal` sets the stop event between any two steps.

Check, not-null and unique violations are not modelled apart from the foreign
key: the schema has no check, the payload models forbid the nulls, and the only
unique keys are the conflict targets of the upserts. A message the driver can
never store (a NUL character) is the kind `unstorable`.

Abstracted: names and codes are one opaque value; time is left out, so a wait or
a deadline may end at any moment; a late dead-letter delivery is decided when the
send fails. One worker holds all partitions.

### ConsumerGroup

The same worker with its write as one step, because what matters is which
positions are settled (written, or confirmed by the dead-letter topic) when some
worker commits. Messages are `valid` or `poison` (a missing foreign key). `Assign`
and `Revoke` move a partition at any moment, `Evict` removes a worker that is
down or has waited too long: `waited` counts the series of waits of
`_apply_with_retry` since the last poll, `PollBudget` is how many of them fit
into `max.poll.interval.ms`. `Commit` of a member stores its offsets also for
partitions it has lost (`_commit` names the partitions itself) and may therefore
move an offset back; `CommitRejected` is a worker outside the group. `Rewind`
ends the process when a partition of the batch is gone, because `seek` raises.

### WorkerHealth

The main thread is at a stage of `Worker.run` (`pc`), possibly inside a call
(`call`, `at`) of a method of `HealthState` or of `Event.wait`; `handlers` is the
stack of `Worker.stop` calls that Python runs on top of it. Taking and releasing
each of the two non-reentrant locks are steps of their own. The order of the
calls within a round is left open. Heartbeats are ages counted in ticks up to
`MaxAge` (30 s).

### OneCService and OneCSource

`Selected` is the query by `ДатаИзменения`, `Position` the order by `Ссылка`,
`Page` what is behind `offset` up to `limit`; the page sizes of both sides are
clamped as each side does it. `AsUnderstood` is what becomes of the watermark on
its way from PostgreSQL over `isoformat` to `ISOВДату`, which reads the digits
and drops the offset: it is the identity only when the session is in UTC
(`SessionOffset = 0`). Fractions of a second do not occur in 1C's timestamps.

`OneCSource` is one fetch: `Answer` is a page, `RetriableError` a repeated
request, `Raise` the exception that drops what was read. Between any two requests
users `Save` (also new objects, anywhere in the order) and `Remove`.

### Synchronizer

`stage[r]` is the line a run is at; every stage has one action, in the order of
`_run_locked`, and a fetch is as many steps as it has pages (`FetchPage`).
`Changed` is the comparison with the database of an incremental run,
`FormsStored` the barrier, `Flushed` the result of `flush`. `queue[r]` is
librdkafka's queue: `Deliver` and `LoseRecord` work on it in the background and
also after the run has failed, until the identity of the run is used again.
`Fail` ends a run anywhere, so a partial publication is a publication whose rest
is lost. `LoseLockSession` releases the lock behind the run's back. `Apply` is
the consumer, `Redeliver` its falling back to an earlier offset.

`BeginSave` stamps an object, `CommitSave` makes it visible; `SaveGap` is the
least time between two saves of one object and `SaveTime` the longest a save may
take, in whole seconds. `Passed` are the objects on pages a run has read already,
saved since and not seen by it; `FetchTime` is how many seconds a fetch may still
go on once there is one. It is a guard of `Tick`: 1C gives no snapshot over pages
(`docs/limitations.md:45-47`), so how long a fetch may take is an assumption about
the environment, like `SaveTime`, and named as such.

### MockSource

A process (`sync`, `demo touch`, `demo delete`) takes the file lock in the
constructor and again in its operation; inside, `Load`, `Touch` and `Replace` are
steps of their own, and `Die` may come between them: a process killed, or an
exception of the file system, after which the temporary file is unlinked or left
beside. A row is how often it was changed and its stamp. `Publish` stands for a
sync that succeeds, so that the watermark can be related to the file.

## Runs

| run | question | instance | result |
|---|---|---|---|
| `worker` | loss, gaps, diversion, atomicity, age and unity of rows, refinement, inductive invariants; is everything committed once faults cease | 2 partitions, 2 keys, 5 kinds of message (form, counterparty without and with the form, malformed, unstorable), 2 messages per partition, batch of 3, 1 retry, 2 faults; fresh tables and tables with a row without timestamp | holds, 246 thousand states |
| `worker_same_second` | does the last version win within a second | two versions with one timestamp | **violated** |
| `group` | offsets, refinement, inductive invariant; when the waits of a batch fit, is everything settled and, in a calm group, committed | 2 workers, 1 partition of 3 messages, batch of 2, 1 move, 1 fault, 2 series of waits fit into `max.poll.interval.ms` | holds, 307 thousand states |
| `group_evicted` | is everything committed when the retries do not fit | 1 worker, a batch with as much poison as exhausts the interval | **violated** |
| `health` | readiness and state, inductive invariant; locks, stop and probes when no signal meets a lock of the main thread | 1 HTTP thread, 2 signals, 2 calls per round | holds, 131 thousand states |
| `health_signal` | does a signal always end the worker | 1 HTTP thread, 1 signal | **violated** |
| `source_pages` | completeness, order and end of a fetch, inductive invariant | 4 references, page of 2, 1 retry, 1 removal | holds, 74 thousand states |
| `sync_safety` | foreign key, success, inductive invariant | 1 form, 1 counterparty, one page, 2 runs, 1 redelivery, a session west of UTC | holds, 424 thousand states |
| `sync_overlap` | watermark and success, when saved objects are read page by page and runs overlap without a lock | 2 counterparties of the first second, synced before, page of 1, 2 runs, 1 lock loss, saves in two later seconds | holds, 3.5 million states |
| `sync_liveness` | does every run end; does what a run fetched reach the database | 1 form, 1 counterparty, page of 1, 2 runs, 1 redelivery, fresh databases, saves in two seconds | holds, 197 thousand states |
| `sync_slow_save` | watermark, a save across a second | `SaveTime = 1` | **violated** |
| `mock` | serial changes, watermark, inductive invariant; does every process end | 2 processes at a time, 4 calls, 2 rows, 1 fault | holds, 701 thousand states |

Why the bounds are enough to be interesting: a batch of three in two partitions
is the smallest with a form, a dependent counterparty and a bystander; two faults
are needed for the known hard cases (an ambiguous commit, then a crash); one
retry separates "another attempt" from "used up". Two runs and two starts give
every overlap of a failed run's late deliveries with its successor; two
counterparties are needed for one object's watermark to pass another, and a page
of one lets the saves fall between the pages. Saves in two different seconds let
the later one take the watermark past the earlier one: in `sync_overlap` objects
that are stored and below the watermark are saved again in the seconds 2 and 3, so a
save the watermark has passed is outside the next query. What keeps that from hiding
anything is the guard of `Tick`, not the bound on the clock: without it
(`FetchTime = 1`) the run finds the hidden save. In the group three messages and a
batch of two let a former owner commit behind, at and before the new owner. Four
references and a page of two let an object be created before, inside and behind
the page boundary and be read twice. Four calls of the mock are two changes and
two syncs, or a change fewer and a process that dies. Two signals are one handler
on top of another.

Deadlock is checked by the worker's runs. Elsewhere the system may stop: no more
saves, starts, calls or messages within the bounds.

The passing synchronizer runs rest on assumptions about 1C and PostgreSQL, each a
constant; the last column says which instance shows that it is needed (`sync_slow_save.cfg` with `SaveTime = 0` alone holds):

| assumption | constant | without it |
|---|---|---|
| a save commits in the second of its stamp | `SaveTime = 0` | `sync_slow_save` is violated, finding 2; so is `sync_overlap.cfg` with `SaveTime = 1` |
| an object is not saved twice in a second | `SaveGap = 1` | `sync_slow_save.cfg` with `SaveTime = 0`, `SaveGap = 0` and two values is violated, limit 1 below |
| the rest of a fetch is read within the second in which an object it has passed is saved | `FetchTime = 0` | `sync_overlap.cfg` with `FetchTime = 1` is violated, limit 2 |
| the PostgreSQL session is not east of UTC | `SessionOffset <= 0` | `sync_slow_save.cfg` with `SaveTime = 0` and `SessionOffset = 2` is violated, limit 3 |

### Properties

- `CommittedIsSettled`, `NoGap`: nothing before a committed offset, and nothing
  before the fetch position outside the batch, is unsettled; in the group too.
- `OnlyPoisonIsDiverted`, `WritesBeforeDiversion`: what goes to a dead-letter
  topic, and when.
- `AllOrNothing`, `RowsNeverGetOlder`, `RowsAreVersions`, `LastVersionWins`: the
  tables.
- `DeliversAtLeastOnce`: worker and group implement `AtLeastOnce`.
- `EverythingGetsCommitted` of the worker, `EverythingGetsSettled` and
  `CalmGroupCommits` of the group: liveness. The worker's excepts logs with a
  message the driver can never store, which stops its partition by design
  (`docs/architecture.md:84`). The group commits everything when no partition was
  taken from a live worker and the waits of every batch fit into
  `max.poll.interval.ms`. After a move only settling is promised: a former owner's
  commit may move the offset back behind what its successor has committed, and if
  the successor keeps the partition nobody commits again until more messages
  come. Nothing is lost by it; a restart delivers again what is settled.
- `ReadyMeansAlive`, `RunningMeansInLoop`, `NeverWaitsForItself`,
  `CleanStopEndsTheWorker`, `EveryProbeIsAnswered`, `StopEndsTheWorker`: the threads
  of a worker.
- `FetchIsComplete`, `NewestLast`, `EveryFetchEnds`: the paged fetch.
  Creations and saves between pages only move objects back, where they are still
  read; a removal moves them forward, and then a fetch may miss one.
- `ReferencesResolve`, `WatermarkHidesNothing`, `SuccessMeansPublished`,
  `SuccessReachesDatabase`, `EveryRunEnds`: the synchronizer.
- `ChangesAreSerial`, `NothingIsHidden`, `EveryCallEnds`: the mock source.

### Findings

1. Events of one second replace each other (`>=` in the upsert), so redelivering
   the older one undoes the newer (`worker_same_second`). It takes an offset
   commit that is stored but reported as failed, and a crash between the two
   rewritten events. `docs/event-format.md:71-72` promises that repeated delivery
   changes nothing.
2. A save that crosses a second boundary between stamp and commit is missed by
   every later incremental run when another object of that later second was
   fetched in between (`sync_slow_save`); `README.md:194-195` says boundary
   records safely arrive again.
3. A signal that arrives while the main thread is inside a method of
   `HealthState`, or inside `Event.wait`'s own lock, blocks forever in
   `Worker.stop` (`health_signal`): the handler runs on top of the frame that
   holds the lock. The container is then killed after its grace period. `health`
   shows that a signal at any other moment ends the worker.
4. A batch with more foreign key poison than its waits fit into
   `max.poll.interval.ms` is evicted before it commits, and comes again forever
   (`group_evicted`, against `worker.py:9`): about 21 such events of 500 with the
   defaults.

Limits of the incremental synchronisation that the assumptions above exclude:

1. An object changed and changed back within one second is left with the middle
   version: the comparison with the database skips it while that version is still
   on its way (`sync_state.py:134`).
2. With several pages and no slow saves, an object of an early page saved after
   that page was read is passed by the watermark of an object on a later page
   saved in a later second, before that page was read. `docs/limitations.md:45-47`
   names the missing snapshot; the model adds that the loss is permanent for
   incremental runs.
3. With a session east of UTC, `changed_since` is understood as a later moment and
   changes younger than the offset are hidden. The database of `compose.yaml` is
   in UTC, where `AsUnderstood` is the identity.

A full run repairs them and finding 2. Not among them: a run does not notice the loss
of its lock's session until it unlocks, so runs can overlap; `sync_overlap` and
`WatermarkTheorem` show that overlapping runs hide nothing.

## Fairness

`ConsumerWorker!FairSpec`: weak fairness of the worker's own steps (a live process
is scheduled; every wait in the code has a timeout) and of `Restart`
(`restart: unless-stopped` in `compose.yaml`). Faults are bounded and never
obliged to happen; nor are producers.

`ConsumerGroup!FairSpec`: weak fairness of each worker, of `Evict` (the
coordinator's timers) and of assigning a free partition to some member; moves and
faults are bounded.

`WorkerHealth!FairSpec`: threads are scheduled (weak), and a lock that is free
again and again is got in the end (strong, `Enter`, `StopEnters`, `ProbeEnters`);
signals and requests are not obliged to come.

`OneCSource!FairSpec`: the client goes on, because requests time out and waits are
bounded; that requests succeed is not assumed.

`Synchronizer!FairSpec`: weak fairness of each run's steps. Flush (30 s), barrier
(`FK_BARRIER_TIMEOUT`) and HTTP calls time out, PostgreSQL queues waiters for the
lock and gives it up with the session. Neither broker, nor consumer, nor users
are obliged to anything. `DeliveringSpec` adds that the consumer applies what is
in the topics, which `EverythingGetsCommitted` and `EverythingGetsSettled` justify.

`MockSource!FairSpec`: started processes are scheduled, and the operating system
frees the lock of a process that ends.

## Proofs

All theorems hold for every value of the constants under the named assumptions of
the modules (`RowStoreAssumption`, `WorkerAssumption`, `ConsumerGroupAssumption`,
`OneCServiceAssumption`, `OneCSourceAssumption`, `MockSourceAssumption`,
`SynchronizerAssumption`, `WorkerHealthAssumption`), which TLC evaluates in the runs.
Four theorems have a hypothesis of their own, `OneVersionPerTime` or `Orderly`, named
in the theorem; `worker_same_second` and `sync_slow_save` show what happens without
it. Each proof shows an inductive invariant `IInv` that the runs check too,
one lemma per action or group of actions. `IInv` begins with the type
invariant, which only two runs list again.

Every safety property of the passing runs is a theorem.

**ConsumerWorkerProofs.** `Invariance`: `Spec => []IInv`; `TypeCorrect`,
`NothingIsLost` and `NothingIsSkipped` follow from it. `RowsOnlyGetNewer`,
`BatchesAreAtomic`, `OnlyPoisonInDlq`, `DlqAfterDatabase` are the action
properties, each by cases over `Next` under the invariant;
`ImplementsAtLeastOnce` is refinement of `AtLeastOnce` with `settled <- Settled`.
`CommittedIsSettled` is not inductive: that committing a batch is safe depends on
every event of the batch being settled, which depends on where each event is in
the course of retries, isolation and diversion. `IInv` adds exactly that:
`Accounted` (an event of the batch is in the database, poison, or still to be
written), `OpenTransaction` (the transaction only adds), `IsolationShape`
(forms before counterparties), `PoisonIsPermanent` (the form of a poison event is
missing and no form is still to be written), `Diverted` (tried records arrived, or
the failure is remembered), `NoGapWhileProcessing` (the position jumps over
nothing outside the batch, so seeking back the batch's first offsets is enough),
and the shapes of these sets. `OffsetProofs` has the lemmas about the first and
last offset of a batch, which exist by the well-foundedness of the naturals.

`VersionsStayWhole` and `LastVersionTheorem` carry the hypothesis
`OneVersionPerTime`: two events of a key with one timestamp are the same version,
also of rows that are already in the tables. `worker` satisfies it,
`worker_same_second` does not. Under it `RowsAreVersions` is inductive relative to
`IInv` (only the upsert makes rows, and it writes all columns of one event). When
everything is committed, `CommittedIsSettled` puts every event that is not in a
dead-letter topic into the database or under something newer; a row of the same
time is then that event's row.

**ConsumerGroupProofs.** `Invariance`, `NothingIsPassed`
(`CommittedIsSettled`), `ImplementsAtLeastOnce`. What a worker commits does not
depend on who owns the partition, so the invariant is about batches:
`BatchIsDense` (below a message of a batch everything is settled or in the batch),
`FetchIsDense` (the same below the fetch position of an owner) and
`BatchIsTreated` (what is settled at each stage). A batch that is entirely
settled and dense may be committed by anyone, also late and also backwards. A
revocation only removes obligations, an assignment starts from the committed
offset, and a rewind to the first offset of a batch restores `FetchIsDense`.

**OneCSourceProofs.** `Invariance`, `TypeCorrect`, `NothingIsMissed`
(`FetchIsComplete`), `VersionsAreInOrder` (`NewestLast`). The key is that the
position of an object among the selected ones only grows when objects are created
or saved (`PositionGrows`), so what was there at the beginning is read or still
ahead (`AheadOrRead`).

**OneCServiceProofs** has the lemmas about positions and pages that both users of
the service rest on. That a short page is the last one is a counting argument:
positions are pairwise different (`PositionsDiffer`), so fewer than
`PageSize` of them lie in a band of that width only if one of its positions is
free, and then none lies behind (`Band`, `ShortPageIsLast`).

**MockSourceProofs.** `Invariance`, `NothingEscapes` (`NothingIsHidden`),
`Refinement` (`ChangesAreSerial`). The lock excludes (`Exclusion`), so the copy in
memory is the file (`MemoryIsCurrent`), so stamps taken inside the lock come in
the order of the changes, so what changed after a fetch is at least as late as
all that was fetched (`FetchedInOrder`) and the overlap finds it
(`WatermarkIsReached`).

**SynchronizerProofs.** `Invariance`, `TypeCorrect`, `ReferencesResolveTheorem`,
`SuccessIsPublication`: these hold for any runs, also overlapping ones, any pages and
any timing of saves. `IInv` says what has become of the messages of a run at every
stage (`Handled`: in the queue, counted as an error, or `Published`), that whatever
is in a queue or topic finds its form (`Reads`, `TopicsAreSound`), and that what the
consumer has passed is reflected (`AppliedIsReflected`). The argument turns on
`Published` being stable: a record in its topic stays there, and a row only gets
newer (`PublishedStays`). So a step of one run cannot disturb what another run relies
on, and each action leaves only its own run to look at. The barrier's result is
stable for the same reason, rows never disappear; this is why it may be checked once
before the counterparties are published.

`OrderlyInvariance` and `WatermarkTheorem` have the hypothesis `Orderly`: a save
commits in the second of its stamp (`SaveTime = 0`), an object is saved at most once
a second (`SaveGap > 0`), the session is not east of UTC, and a fetch ends within
the second of a save it has passed (`FetchTime = 0`) or reads a single page, however
long it takes. It restates the assumptions of the table above; the constants of
`sync_overlap` satisfy it, and `sync_slow_save` refutes the property without its
first part. `IInv` says nothing of what 1C has and a run has not seen;
`WInv`, which is proved and not checked by a run (`sync_overlap` checks its
consequence), adds that every row, record and queued message is a version of its object and
not newer than it (`StoredVersions`), that all objects older than a message of a run
were fetched with it, published, or lie on a page still to come (`ReadBefore`, in
`Snapshot`), and that what is older than a watermark is published as it is in 1C
(`PublishedBefore`). Between two pages saves may come. They move other objects only
back (`PagesStay`), so what is ahead of the offset stays ahead, and what a fetch has
passed otherwise than it is now was saved in the present second, hence is not older
than anything fetched; when the second ends, the fetch has ended or has passed no
save. Each page either holds an object, or leaves it behind the next offset, or is
short and the last (`PageSplits`). The strict comparison
matters: objects of the watermark's own second may still be saved after the fetch,
and the next run asks for that second again. Runs may overlap and watermarks may move
back: neither is excluded by the hypothesis.

**WorkerHealthProofs.** `Invariance`, `TypeCorrect`, `ReadyIsAlive`,
`RunningInLoop`, `NoWaitingForOneself`. Each lock is held by the thread, or by the
frame of the main thread's stack, that is inside it and by no other
(`LocksAreExclusive`), and while no signal has met a lock of the main thread only the
topmost frame is inside one (`OnlyTopIsInside`). `StopWithdraws` is the order of
`Worker.stop`: `running` is withdrawn before the event is set, so a loop that sees the
event has been told to stop. Readiness rests on `silence <= dbAge`: only the main thread
refreshes the heartbeat, so the heartbeat is never younger than its last sign of life.

**Only model-checked.** All liveness, and with it the use of fairness, which is out
of the prover's reach (`ENABLED`): `EverythingGetsCommitted`,
`EverythingGetsSettled`, `CalmGroupCommits`, `CleanStopEndsTheWorker`,
`EveryProbeIsAnswered`, `EveryFetchEnds`, `EveryRunEnds`, `SuccessReachesDatabase`,
`EveryCallEnds`.

## Not modelled

- Configuration, logging, deployment and scripts: no state that changes; the
  bounds that configuration enforces are assumptions on constants.
- Event parsing beyond "parses or not": which JSON is accepted is data.
- The demo reset of 1C (`POST /seed`), authorisation and the JSON formatting.
- Argument parsing and output of the CLI.
- Two workers' transactions on the same row: PostgreSQL serialises them by row
  locks, and a deadlock it reports is a transient error of `ConsumerWorker`.

## Plan

Done: the consumer (worker, group, threads), 1C's service and the paged fetch,
the synchronizer with paging and delivery, the mock source, and proofs of the safety
properties of all of them. Left, in this order:

1. The synchronizer's consumer as an instance of `AtLeastOnce`, and the lock:
   without losses of its session at most one run is inside.
2. The safety halves of the liveness properties (nothing that is still owed is
   forgotten while a run, a call or a batch is under way).
