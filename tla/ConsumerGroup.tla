---------------------------- MODULE ConsumerGroup ----------------------------
(***************************************************************************)
(* consumer-service: several workers of one consumer group                 *)
(* (consumer/worker.py).  The worker registers no rebalance callbacks: the *)
(* client library gives partitions away and takes them over on its own,    *)
(* also while a batch with their messages is in flight, and drops a worker *)
(* from the group that does not poll for max.poll.interval.ms.             *)
(*                                                                         *)
(* One worker in detail is ConsumerWorker; here a batch is written at      *)
(* once, or one by one when a foreign key is missing in it, and what       *)
(* counts about a message is whether it is settled: written, or confirmed  *)
(* by the dead-letter topic.                                               *)
(***************************************************************************)
EXTENDS Integers, Sequences, FiniteSets, FiniteSetsExt

CONSTANTS
    Workers,      \* processes of the group
    NoWorker,     \* nobody has a partition
    Partitions,   \* partitions of the topics
    MaxLog,       \* bound: messages of a partition
    BatchMax,     \* BATCH_MAX_MESSAGES
    PollBudget,   \* backoff series (MAX_RETRIES waits each) that fit into max.poll.interval.ms
    MaxMoves,     \* bound: partitions taken from a worker that is in the group
    MaxFaults     \* bound: errors and crashes

ASSUME ConsumerGroupAssumption ==
    /\ NoWorker \notin Workers
    /\ {MaxLog, PollBudget, MaxMoves, MaxFaults} \subseteq Nat
    /\ BatchMax \in Nat \ {0}

\* What a message is to the database: it can be written, or its foreign key
\* is missing for good.
Kinds == {"valid", "poison"}

VARIABLES
    log,        \* Kafka: the kinds of the messages of every partition
    committed,  \* Kafka: the group's offsets
    owner,      \* Kafka: which worker has a partition
    member,     \* Kafka: the workers in the group
    settled,    \* PostgreSQL and dead-letter topics: positions done with
    stage,      \* what each worker does
    position,   \* next offset of its fetch, per partition
    batch,      \* positions <<partition, offset>> it has polled
    left,       \* those it has not treated yet
    waited,     \* backoff series since its last poll
    moves,      \* partitions moved so far
    faults      \* errors and crashes so far

group  == <<committed, owner, member, moves>>
local  == <<stage, position, batch, left, waited>>
vars   == <<log, settled, group, local, faults>>

Positions == Partitions \X (0..(MaxLog - 1))
KindOf(x) == log[x[1]][x[2] + 1]
PoisonIn(S) == {x \in S : KindOf(x) = "poison"}
Stages == {"down", "polling", "writing", "isolating", "diverting", "committing"}

TypeOK ==
    /\ log \in [Partitions -> Seq(Kinds)]
    /\ \A p \in Partitions : Len(log[p]) <= MaxLog
    /\ committed \in [Partitions -> Nat]
    /\ owner \in [Partitions -> Workers \cup {NoWorker}]
    /\ member \in SUBSET Workers
    /\ settled \in SUBSET Positions
    /\ stage \in [Workers -> Stages]
    /\ position \in [Workers -> [Partitions -> Nat]]
    /\ batch \in [Workers -> SUBSET Positions]
    /\ left \in [Workers -> SUBSET Positions]
    /\ waited \in [Workers -> Nat]
    /\ moves \in 0..MaxMoves /\ faults \in 0..MaxFaults

Init ==
    /\ log = [p \in Partitions |-> <<>>]
    /\ committed = [p \in Partitions |-> 0]
    /\ owner = [p \in Partitions |-> NoWorker]
    /\ member = {}
    /\ settled = {}
    /\ stage = [w \in Workers |-> "down"]
    /\ position = [w \in Workers |-> [p \in Partitions |-> 0]]
    /\ batch = [w \in Workers |-> {}] /\ left = [w \in Workers |-> {}]
    /\ waited = [w \in Workers |-> 0]
    /\ moves = 0 /\ faults = 0

-----------------------------------------------------------------------------
(* The broker                                                              *)

Produce(p) ==
    /\ Len(log[p]) < MaxLog
    /\ \E k \in Kinds : log' = [log EXCEPT ![p] = Append(@, k)]
    /\ UNCHANGED <<settled, group, local, faults>>

\* A free partition goes to a member, which fetches from the committed offset.
Assign(w, p) ==
    /\ w \in member /\ owner[p] = NoWorker
    /\ owner' = [owner EXCEPT ![p] = w]
    /\ position' = [position EXCEPT ![w][p] = committed[p]]
    /\ UNCHANGED <<log, settled, committed, member, moves, stage, batch, left, waited, faults>>

\* The group rebalances: a partition is taken from a live member, whatever it
\* is doing with its messages.
Revoke(p) ==
    /\ owner[p] # NoWorker /\ moves < MaxMoves
    /\ owner' = [owner EXCEPT ![p] = NoWorker]
    /\ moves' = moves + 1
    /\ UNCHANGED <<log, settled, committed, member, local, faults>>

\* A worker that is gone, or has not polled in time, loses its membership.
Evict(w) ==
    /\ w \in member
    /\ stage[w] = "down" \/ waited[w] > PollBudget
    /\ member' = member \ {w}
    /\ owner' = [p \in Partitions |-> IF owner[p] = w THEN NoWorker ELSE owner[p]]
    /\ UNCHANGED <<log, settled, committed, moves, local, faults>>

-----------------------------------------------------------------------------
(* A worker                                                                *)

GoTo(w, s) == stage' = [stage EXCEPT ![w] = s]
PollsAgain(w) == waited' = [waited EXCEPT ![w] = 0]
Drop(w) == batch' = [batch EXCEPT ![w] = {}] /\ left' = [left EXCEPT ![w] = {}]

\* The process starts and joins, when its former self is out of the group.
Start(w) ==
    /\ stage[w] = "down" /\ w \notin member
    /\ member' = member \cup {w}
    /\ GoTo(w, "polling") /\ PollsAgain(w)
    /\ UNCHANGED <<log, settled, committed, owner, moves, position, batch, left, faults>>

\* poll returns a message of a partition the worker has.
Poll(w, p) ==
    /\ stage[w] = "polling" /\ w \in member
    /\ owner[p] = w /\ position[w][p] < Len(log[p])
    /\ Cardinality(batch[w]) < BatchMax
    /\ batch' = [batch EXCEPT ![w] = @ \cup {<<p, position[w][p]>>}]
    /\ position' = [position EXCEPT ![w][p] = @ + 1]
    /\ UNCHANGED <<log, settled, group, stage, left, waited, faults>>

\* The batch is full, or nothing more has come.
ProcessBatch(w) ==
    /\ stage[w] = "polling" /\ batch[w] # {}
    /\ GoTo(w, "writing")
    /\ UNCHANGED <<log, settled, group, position, batch, left, waited, faults>>

\* The batch is written in one transaction.
Write(w) ==
    /\ stage[w] = "writing" /\ PoisonIn(batch[w]) = {}
    /\ settled' = settled \cup batch[w]
    /\ GoTo(w, "committing")
    /\ UNCHANGED <<log, group, position, batch, left, waited, faults>>

Waits(w) == waited' = [waited EXCEPT ![w] = @ + 1]

\* A foreign key is missing, also after every retry: one by one.
Isolate(w) ==
    /\ stage[w] = "writing" /\ PoisonIn(batch[w]) # {}
    /\ Waits(w)
    /\ left' = [left EXCEPT ![w] = batch[w]]
    /\ GoTo(w, "isolating")
    /\ UNCHANGED <<log, settled, group, position, batch, faults>>

\* The next event alone: written, or another series of retries in vain.
ApplyNext(w) ==
    /\ stage[w] = "isolating"
    /\ \E x \in left[w] :
        /\ left' = [left EXCEPT ![w] = @ \ {x}]
        /\ IF KindOf(x) = "valid" THEN settled' = settled \cup {x} /\ UNCHANGED waited
           ELSE Waits(w) /\ UNCHANGED settled
    /\ UNCHANGED <<log, group, stage, position, batch, faults>>

\* Mutant of Divert: the dead-letter loop is entered with nothing to send.
DivertNothing(w) ==
    /\ stage[w] = "isolating" /\ left[w] = {}
    /\ GoTo(w, "diverting")
    /\ UNCHANGED <<log, settled, group, position, batch, left, waited, faults>>

Divert(w) ==
    /\ stage[w] = "isolating" /\ left[w] = {}
    /\ left' = [left EXCEPT ![w] = PoisonIn(batch[w])]
    /\ GoTo(w, "diverting")
    /\ UNCHANGED <<log, settled, group, position, batch, waited, faults>>

\* A dead-letter record is confirmed.
SendToDlq(w) ==
    /\ stage[w] = "diverting"
    /\ \E x \in left[w] :
        /\ left' = [left EXCEPT ![w] = @ \ {x}]
        /\ settled' = settled \cup {x}
    /\ UNCHANGED <<log, group, stage, position, batch, waited, faults>>

EndDelivery(w) ==
    /\ stage[w] = "diverting" /\ left[w] = {}
    /\ GoTo(w, "committing")
    /\ UNCHANGED <<log, settled, group, position, batch, left, waited, faults>>

OffsetsOf(S, p) == {o \in 0..(MaxLog - 1) : <<p, o>> \in S}

\* The highest offset of each partition of the batch, plus one.
CommittedAfter(w) ==
    [p \in Partitions |->
        IF OffsetsOf(batch[w], p) = {} THEN committed[p] ELSE Max(OffsetsOf(batch[w], p)) + 1]

\* The broker takes offsets from every member, also for partitions that
\* another member has by now.
Commit(w) ==
    /\ stage[w] = "committing" /\ w \in member
    /\ committed' = CommittedAfter(w)
    /\ Drop(w) /\ PollsAgain(w)
    /\ GoTo(w, "polling")
    /\ UNCHANGED <<log, settled, owner, member, moves, position, faults>>

\* Mutant of RewoundTo: seek is forgotten.
NotRewound(w) == position[w]

\* The first offset of each partition of the batch.
RewoundTo(w) ==
    [p \in Partitions |->
        IF OffsetsOf(batch[w], p) = {} THEN position[w][p] ELSE Min(OffsetsOf(batch[w], p))]

\* _rewind: seek raises for a partition the worker has lost, and ends it.  So
\* ends every worker that was evicted, before its poll could report it.
Rewind(w) ==
    /\ Drop(w) /\ PollsAgain(w)
    /\ IF \A x \in batch[w] : owner[x[1]] = w
       THEN GoTo(w, "polling") /\ position' = [position EXCEPT ![w] = RewoundTo(w)]
       ELSE GoTo(w, "down") /\ UNCHANGED position
    /\ UNCHANGED <<log, settled, group>>

\* The broker refuses the offsets of a worker that is no member any more.
CommitRejected(w) ==
    /\ stage[w] = "committing" /\ w \notin member
    /\ Rewind(w)
    /\ UNCHANGED faults

\* A write, a dead-letter record or a commit fails; what was done stays done.
Fails(w) ==
    /\ stage[w] \in {"writing", "isolating", "diverting", "committing"}
    /\ faults < MaxFaults /\ faults' = faults + 1
    /\ Rewind(w)

\* The process is killed, or raises what nothing catches.
Crash(w) ==
    /\ stage[w] # "down"
    /\ faults < MaxFaults /\ faults' = faults + 1
    /\ GoTo(w, "down") /\ Drop(w)
    /\ UNCHANGED <<log, settled, group, position, waited>>

-----------------------------------------------------------------------------
Works(w) ==
    \/ Start(w) \/ (\E p \in Partitions : Poll(w, p)) \/ ProcessBatch(w)
    \/ Write(w) \/ Isolate(w) \/ ApplyNext(w) \/ Divert(w) \/ SendToDlq(w) \/ EndDelivery(w)
    \/ Commit(w) \/ CommitRejected(w)

Next ==
    \/ \E p \in Partitions : Produce(p) \/ Revoke(p)
    \/ \E w \in Workers :
         \/ Evict(w) \/ Works(w) \/ Fails(w) \/ Crash(w)
         \/ \E p \in Partitions : Assign(w, p)

Spec == Init /\ [][Next]_vars

\* Processes are restarted and scheduled, the group evicts and assigns.
FairSpec ==
    /\ Spec
    /\ \A w \in Workers : WF_vars(Works(w)) /\ WF_vars(Evict(w))
    /\ \A p \in Partitions : WF_vars(\E w \in Workers : Assign(w, p))
-----------------------------------------------------------------------------
(* Properties                                                              *)

\* The group never passes a message that is not settled, however partitions
\* move while batches with their messages are in flight.
CommittedIsSettled ==
    \A p \in Partitions : \A o \in 0..(committed[p] - 1) : <<p, o>> \in settled

\* The group is one at-least-once consumer, seen from outside.
Abstract == INSTANCE AtLeastOnce WITH Messages <- Kinds
DeliversAtLeastOnce == Abstract!Spec

Written == {x \in Positions : x[2] < Len(log[x[1]])}

\* The waits of a batch fit into max.poll.interval.ms, whatever is in it: one
\* series for the batch and one for each poison message.
RetriesFit == 1 + Cardinality(PoisonIn(Written)) <= PollBudget

\* Where they fit, every message is settled some time, in spite of partitions
\* that move while their messages are in flight (_rewind, _commit).
EverythingGetsSettled == <>[](Written \subseteq settled \/ ~RetriesFit)

\* And every message is committed some time, as long as no partition is taken
\* from a live worker.
CalmGroupCommits ==
    <>[](moves > 0 \/ ~RetriesFit \/ \A p \in Partitions : committed[p] = Len(log[p]))

\* "Poison ... -> DLQ, the offset moves on" (worker.py:9): every message is
\* committed some time.
EverythingGetsCommitted == <>[](\A p \in Partitions : committed[p] = Len(log[p]))

-----------------------------------------------------------------------------
(* The invariant behind CommittedIsSettled                                 *)

\* A worker that is down has no batch, and who has a partition is a member.
Membership ==
    /\ \A w \in Workers : stage[w] = "down" => batch[w] = {}
    /\ \A p \in Partitions : owner[p] # NoWorker => owner[p] \in member

\* Below a message of a batch everything is settled or in the batch too.
BatchIsDense ==
    \A w \in Workers : \A x \in batch[w] :
        \A o \in 0..(x[2] - 1) : <<x[1], o>> \in settled \cup batch[w]

\* So is everything behind the fetch of a live worker.
FetchIsDense ==
    \A w \in Workers, p \in Partitions :
        stage[w] # "down" /\ owner[p] = w =>
            \A o \in 0..(position[w][p] - 1) : <<p, o>> \in settled \cup batch[w]

\* What a batch has behind it when it reaches a stage.
BatchIsTreated ==
    \A w \in Workers :
        /\ stage[w] = "isolating" =>
               batch[w] \subseteq settled \cup left[w] \cup PoisonIn(batch[w])
        /\ stage[w] = "diverting" => batch[w] \subseteq settled \cup left[w]
        /\ stage[w] = "committing" => batch[w] \subseteq settled

\* Positions in use are positions of the log.
InTheLog ==
    /\ \A x \in settled : x[2] < Len(log[x[1]])
    /\ \A w \in Workers : \A x \in batch[w] \cup left[w] : x[2] < Len(log[x[1]])

IInv ==
    /\ TypeOK
    /\ Membership
    /\ BatchIsDense
    /\ FetchIsDense
    /\ BatchIsTreated
    /\ InTheLog
    /\ CommittedIsSettled
=============================================================================
