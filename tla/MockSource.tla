------------------------------ MODULE MockSource ------------------------------
(***************************************************************************)
(* integration-service: the stand-in for 1C in a JSON file                 *)
(* (integration/sources/mock.py), shared by the processes of the CLI       *)
(* (integration/__main__.py): demo touch and demo delete change a          *)
(* counterparty, a sync fetches what has changed since its watermark.      *)
(* Each process makes a MockSource and calls one operation of it; both     *)
(* take the file lock.  A process may be killed, or fail to write, between *)
(* any two steps.                                                          *)
(*                                                                         *)
(* A row is the number of changes made to it and its updated_at; which     *)
(* fields a change sets makes no difference here.  The ownership forms are *)
(* never changed and left out.  Time passes in units of the stamps.        *)
(***************************************************************************)
EXTENDS Integers, FiniteSets

CONSTANTS
    Processes,  \* invocations of the CLI alive together
    NoProcess,  \* nobody holds the file lock
    Ids,        \* the counterparties of the seed
    UnknownId,  \* an id given to demo touch that is none of them
    Fetch,      \* the task of a sync
    NoFile,     \* the state file does not exist
    Overlap,    \* what a sync goes back behind its watermark (one second)
    MaxClock,   \* bound: the last moment
    MaxCalls,   \* bound: processes started
    MaxFaults   \* bound: processes killed, writes failed

NoTime == -1
Row  == [val : Nat, ts : Nat]
Rows == [Ids -> Row]

ASSUME MockSourceAssumption ==
    /\ NoProcess \notin Processes
    /\ Ids # {}
    /\ UnknownId \notin Ids /\ Fetch \notin Ids \cup {UnknownId}
    /\ NoFile \notin Rows
    /\ Overlap \in Nat \ {0}
    /\ {MaxClock, MaxCalls, MaxFaults} \subseteq Nat

VARIABLES
    clock,      \* the clock of the host
    file,       \* the state file
    lock,       \* who holds the file lock
    stage,      \* where each process is
    task,       \* what it was started for: an id to change, or Fetch
    opened,     \* its MockSource is constructed
    memory,     \* its _state
    watermark,  \* the sync's watermark
    known,      \* what syncs have published
    calls,      \* processes started so far
    faults      \* faults so far

process == <<stage, task, opened, memory>>
syncs   == <<watermark, known>>
vars    == <<clock, file, lock, process, syncs, calls, faults>>

\* _SEED: nothing changed yet, one _BASE_TS.
Seed == [id \in Ids |-> [val |-> 0, ts |-> 0]]

\* Stages in which a process holds the lock.
Inside == {"loading", "seeding", "loaded", "saving", "leaving"}
Stages == {"idle", "waiting", "fetched"} \cup Inside

TypeOK ==
    /\ clock \in 0..MaxClock
    /\ file \in Rows \cup {NoFile}
    /\ lock \in Processes \cup {NoProcess}
    /\ stage \in [Processes -> Stages]
    /\ task \in [Processes -> Ids \cup {UnknownId, Fetch}]
    /\ opened \in [Processes -> BOOLEAN]
    /\ memory \in [Processes -> Rows]
    /\ watermark \in Nat \cup {NoTime}
    /\ known \in Rows
    /\ calls \in 0..MaxCalls /\ faults \in 0..MaxFaults

Init ==
    /\ clock \in 0..MaxClock
    /\ file = NoFile
    /\ lock = NoProcess
    /\ stage = [p \in Processes |-> "idle"]
    /\ task = [p \in Processes |-> Fetch]
    /\ opened = [p \in Processes |-> FALSE]
    /\ memory = [p \in Processes |-> Seed]
    /\ watermark = NoTime /\ known = Seed
    /\ calls = 0 /\ faults = 0

Tick ==
    /\ clock < MaxClock
    /\ clock' = clock + 1
    /\ UNCHANGED <<file, lock, process, syncs, calls, faults>>

-----------------------------------------------------------------------------
GoTo(p, s) == stage' = [stage EXCEPT ![p] = s]

\* A process is started; syncs exclude one another (the advisory lock).
Call(p) ==
    /\ stage[p] = "idle" /\ calls < MaxCalls
    /\ calls' = calls + 1
    /\ \E t \in Ids \cup {UnknownId, Fetch} :
        /\ t = Fetch => \A q \in Processes : stage[q] = "idle" \/ task[q] # Fetch
        /\ task' = [task EXCEPT ![p] = t]
    /\ opened' = [opened EXCEPT ![p] = FALSE]
    /\ GoTo(p, "waiting")
    /\ UNCHANGED <<clock, file, lock, memory, syncs, faults>>

\* Mutant of Lockable: the lock is not looked at.
AlwaysLockable == TRUE

Lockable == lock = NoProcess

\* with self._lock: in the constructor first, then in the operation.
Acquire(p) ==
    /\ stage[p] = "waiting" /\ Lockable
    /\ lock' = p
    /\ GoTo(p, "loading")
    /\ UNCHANGED <<clock, file, task, opened, memory, syncs, calls, faults>>

\* Mutant of Contents: an operation goes by what the constructor has read.
Cached(p) == IF opened[p] THEN memory[p] ELSE IF file = NoFile THEN Seed ELSE file

\* What _load reads, or makes up.
Contents(p) == IF file = NoFile THEN Seed ELSE file

\* _load, also by way of _refresh.
Load(p) ==
    /\ stage[p] = "loading"
    /\ memory' = [memory EXCEPT ![p] = Contents(p)]
    /\ GoTo(p, IF file = NoFile THEN "seeding" ELSE "loaded")
    /\ UNCHANGED <<clock, file, lock, task, opened, syncs, calls, faults>>

\* The temporary file, written and synced, replaces the state file.
Replace(p) ==
    /\ stage[p] \in {"seeding", "saving"}
    /\ file' = memory[p]
    /\ GoTo(p, IF stage[p] = "seeding" THEN "loaded" ELSE "leaving")
    /\ UNCHANGED <<clock, lock, task, opened, memory, syncs, calls, faults>>

\* touch_counterparty changes the row in memory and stamps it, and goes on to
\* write.
Touch(p) ==
    /\ stage[p] = "loaded" /\ opened[p] /\ task[p] \in Ids
    /\ memory' = [memory EXCEPT ![p][task[p]] = [val |-> @.val + 1, ts |-> clock]]
    /\ GoTo(p, "saving")
    /\ UNCHANGED <<clock, file, lock, task, opened, syncs, calls, faults>>

\* No such row: LookupError, nothing is written.
TouchUnknown(p) ==
    /\ stage[p] = "loaded" /\ opened[p] /\ task[p] = UnknownId
    /\ GoTo(p, "leaving")
    /\ UNCHANGED <<clock, file, lock, task, opened, memory, syncs, calls, faults>>

\* Mutant of Released: the lock outlives who held it.
StillLocked(p) == lock

\* By with, or by the operating system when a process ends.
Released(p) == IF lock = p THEN NoProcess ELSE lock

\* The constructor, a change or a fetch is done and leaves the lock.
Leave(p) ==
    /\ \/ stage[p] = "loaded" /\ (~opened[p] \/ task[p] = Fetch)
       \/ stage[p] = "leaving"
    /\ lock' = Released(p)
    /\ opened' = [opened EXCEPT ![p] = TRUE]
    /\ GoTo(p, IF stage[p] = "leaving" THEN "idle" ELSE IF opened[p] THEN "fetched" ELSE "waiting")
    /\ UNCHANGED <<clock, file, task, memory, syncs, calls, faults>>

\* Mutant of Since: to the watermark and not behind it.
SinceWatermark(w) == w

\* The changed_since of a sync; without a watermark it asks for everything.
Since(w) == IF w = NoTime THEN NoTime ELSE w - Overlap

\* _filter_changed: strictly later.
Changed(rows, since) == {id \in Ids : rows[id].ts > since}

\* The sync publishes what it has fetched and moves the watermark on to the
\* newest of it.
Publish(p) ==
    /\ stage[p] = "fetched"
    /\ LET rows == memory[p]
           new  == Changed(rows, Since(watermark))
       IN  /\ known' = [id \in Ids |-> IF id \in new THEN rows[id] ELSE known[id]]
           /\ \/ new = {} /\ UNCHANGED watermark
              \/ \E x \in new :
                   /\ \A y \in new : rows[y].ts <= rows[x].ts
                   /\ watermark' = IF watermark > rows[x].ts THEN watermark ELSE rows[x].ts
    /\ GoTo(p, "idle")
    /\ UNCHANGED <<clock, file, lock, task, opened, memory, calls, faults>>

\* A process is killed, cannot write (and unlinks its temporary file), or
\* cannot publish.
Die(p) ==
    /\ stage[p] # "idle" /\ faults < MaxFaults
    /\ faults' = faults + 1
    /\ lock' = Released(p)
    /\ GoTo(p, "idle")
    /\ UNCHANGED <<clock, file, task, opened, memory, syncs, calls>>

-----------------------------------------------------------------------------
Step(p) ==
    \/ Acquire(p) \/ Load(p) \/ Replace(p) \/ Touch(p) \/ TouchUnknown(p) \/ Leave(p)
    \/ Publish(p)

Next == Tick \/ \E p \in Processes : Call(p) \/ Step(p) \/ Die(p)

Spec == Init /\ [][Next]_vars

\* Processes that have been started are scheduled.
FairSpec == Spec /\ \A p \in Processes : WF_vars(Step(p))

-----------------------------------------------------------------------------
(* Properties                                                              *)

\* The catalogue in the file; the seed until there is one.
Stored == IF file = NoFile THEN Seed ELSE file

\* However processes overlap or die, the file goes through one change after
\* the other: no change undoes another, none is half done, and the stamps
\* come in the order of the changes.
Catalogue == INSTANCE SourceCatalogue WITH rows <- Stored
ChangesAreSerial == Catalogue!Spec

\* Once there is a watermark, a counterparty that the published state does
\* not show as it is will be found by the next incremental sync.
NothingIsHidden ==
    watermark # NoTime =>
        \A id \in Ids : known[id] = Stored[id] \/ id \in Changed(Stored, Since(watermark))

\* Every process ends, also those that wait for one that was killed.
EveryCallEnds == \A p \in Processes : (stage[p] # "idle") ~> (stage[p] = "idle")

-----------------------------------------------------------------------------
(* The invariant behind them                                               *)

\* The holder of the lock is the one process in a locked section.
Exclusion == \A p \in Processes : stage[p] \in Inside <=> lock = p

\* What a process has in memory inside the lock.
MemoryIsCurrent ==
    \A p \in Processes :
        /\ stage[p] = "seeding" => file = NoFile /\ memory[p] = Seed
        /\ stage[p] \in {"loaded", "saving"} => file # NoFile
        /\ stage[p] = "loaded" => memory[p] = file
        /\ stage[p] = "saving" =>
            /\ task[p] \in Ids
            /\ \E now \in 0..clock :
                /\ \A id \in Ids : file[id].ts <= now
                /\ memory[p] = [file EXCEPT ![task[p]] = [val |-> @.val + 1, ts |-> now]]

\* No row is stamped later than now.
StampedInThePast == \A id \in Ids : Stored[id].ts <= clock

\* There is one sync, and a row that has changed since its fetch is as late
\* as anything it has fetched.
FetchedInOrder ==
    /\ \A p, q \in Processes :
          (stage[p] # "idle" /\ stage[q] # "idle" /\ task[p] = Fetch /\ task[q] = Fetch) => p = q
    /\ \A p \in Processes :
          stage[p] = "fetched" =>
            /\ task[p] = Fetch
            /\ \E x \in Ids : memory[p][x].ts >= watermark
            /\ \A id \in Ids :
                 \/ memory[p][id] = Stored[id]
                 \/ \A x \in Ids : memory[p][x].ts <= Stored[id].ts

\* The watermark is the stamp of something stored, or was overtaken.
WatermarkIsReached ==
    watermark # NoTime =>
        /\ \E x \in Ids : Stored[x].ts >= watermark
        /\ \A id \in Ids : known[id] = Stored[id] \/ Stored[id].ts >= watermark

IInv ==
    /\ TypeOK
    /\ Exclusion
    /\ MemoryIsCurrent
    /\ StampedInThePast
    /\ FetchedInOrder
    /\ WatermarkIsReached
=============================================================================
