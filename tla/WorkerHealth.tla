---------------------------- MODULE WorkerHealth ----------------------------
(***************************************************************************)
(* consumer-service: the threads around HealthState (consumer/health.py)   *)
(* and the stop event (consumer/worker.py): the main thread that runs the  *)
(* worker, the HTTP threads that answer probes, and the signal handler     *)
(* Worker.stop, which Python runs inside the main thread, between any two  *)
(* of its steps, also while the main thread holds a lock or waits for one. *)
(*                                                                         *)
(* HealthState._lock and the lock inside threading.Event are not           *)
(* reentrant.  What a round of the worker does with topics and tables is   *)
(* in ConsumerWorker; here a round is the calls it makes on HealthState    *)
(* and its waits on the stop event, in any order.                          *)
(***************************************************************************)
EXTENDS Integers, Sequences

CONSTANTS
    Probes,      \* HTTP threads that answer a probe
    MaxAge,      \* _HEARTBEAT_MAX_AGE_SECONDS, in ticks of the clock
    MaxCalls,    \* bound: calls and waits in a round
    MaxSignals   \* bound: signals received

ASSUME WorkerHealthAssumption ==
    /\ Probes \cap {"main", "nobody"} = {}
    /\ MaxAge \in Nat \ {0}
    /\ MaxCalls \in Nat /\ MaxSignals \in Nat

VARIABLES
    pc,         \* where Worker.run is
    call,       \* the call the main thread is in
    at,         \* how far it is in it
    calls,      \* calls made in this round
    handlers,   \* the calls of Worker.stop on the main thread's stack
    stopped,    \* the flag of the stop event
    lock,       \* who holds HealthState._lock
    eventLock,  \* who holds the lock of the stop event
    running, dbOk, kafkaOk,  \* HealthState
    dbAge, kafkaAge,         \* ticks since _last_db_ok_at, _last_kafka_ok_at
    probe,      \* where each HTTP thread is
    signals,    \* signals received so far
    clean,      \* history: no signal met a lock held by the main thread
    silence     \* history: ticks since the main thread's last step

flags  == <<running, dbOk, kafkaOk, dbAge, kafkaAge>>
locks  == <<lock, eventLock>>
main   == <<pc, call, at, calls>>
sigs   == <<handlers, signals, clean>>
vars   == <<main, sigs, stopped, locks, flags, probe, silence>>

\* The calls of a round: heartbeats, and what only counts or keeps an error.
RoundCalls == {"mark_db_ok", "mark_db_failed", "mark_kafka_ok", "mark_kafka_failed", "record"}
Calls == RoundCalls \cup {"set_running", "set_stopping", "wait"}

TypeOK ==
    /\ pc \in {"subscribe", "head", "round", "finally", "closing", "ended"}
    /\ call \in Calls \cup {"none"}
    /\ at \in {"outside", "enter", "inside", "asleep", "awake", "leave"}
    /\ calls \in 0..MaxCalls
    /\ handlers \in Seq({"stopping", "stoppingInside", "event", "eventInside"})
    /\ stopped \in BOOLEAN
    /\ lock \in Probes \cup {"main", "nobody"}
    /\ eventLock \in {"main", "nobody"}
    /\ running \in BOOLEAN /\ dbOk \in BOOLEAN /\ kafkaOk \in BOOLEAN /\ clean \in BOOLEAN
    /\ dbAge \in 0..MaxAge /\ kafkaAge \in 0..MaxAge /\ silence \in 0..MaxAge
    /\ probe \in [Probes -> {"idle", "enter", "inside"}]
    /\ signals \in 0..MaxSignals

\* The worker has pinged the database; the handlers are installed.
Init ==
    /\ pc = "subscribe" /\ call = "none" /\ at = "outside" /\ calls = 0
    /\ handlers = <<>> /\ stopped = FALSE
    /\ lock = "nobody" /\ eventLock = "nobody"
    /\ running = FALSE /\ kafkaOk = FALSE
    /\ \/ dbOk = TRUE /\ dbAge = 0
       \/ dbOk = FALSE /\ dbAge = MaxAge
    /\ kafkaAge = MaxAge
    /\ probe = [p \in Probes |-> "idle"]
    /\ signals = 0 /\ clean = TRUE /\ silence = 0

-----------------------------------------------------------------------------
(* The main thread, while no handler runs on it                            *)

\* The main thread takes a step of its own.
Steps == handlers = <<>> /\ silence' = 0 /\ UNCHANGED <<sigs, probe>>

Begins(c) == call' = c /\ at' = "enter"

\* Worker.run subscribes and says that it runs.
Subscribe ==
    /\ pc = "subscribe" /\ Steps
    /\ pc' = "head" /\ Begins("set_running")
    /\ UNCHANGED <<calls, stopped, locks, flags>>

\* The loop's condition.
LoopCondition ==
    /\ pc = "head" /\ call = "none" /\ Steps
    /\ pc' = IF stopped THEN "finally" ELSE "round"
    /\ calls' = 0
    /\ UNCHANGED <<call, at, stopped, locks, flags>>

\* A ping, a probe of the broker, a message, a write, a commit or a failure of
\* one of them is told to HealthState; or a backoff begins.
Call ==
    /\ pc = "round" /\ call = "none" /\ Steps
    /\ calls < MaxCalls
    /\ calls' = calls + 1
    /\ \E c \in RoundCalls \cup {"wait"} : Begins(c)
    /\ UNCHANGED <<pc, stopped, locks, flags>>

EndRound ==
    /\ pc = "round" /\ call = "none" /\ Steps
    /\ pc' = "head"
    /\ UNCHANGED <<call, at, calls, stopped, locks, flags>>

\* An exception nothing in the loop catches.
Raise ==
    /\ pc = "round" /\ call = "none" /\ Steps
    /\ pc' = "finally"
    /\ UNCHANGED <<call, at, calls, stopped, locks, flags>>

\* Mutant of Shutdown: the consumer is closed first of all.
ShutdownSilently ==
    /\ pc = "finally" /\ Steps
    /\ pc' = "closing"
    /\ UNCHANGED <<call, at, calls, stopped, locks, flags>>

\* _shutdown says that the worker stops.
Shutdown ==
    /\ pc = "finally" /\ Steps
    /\ pc' = "closing" /\ Begins("set_stopping")
    /\ UNCHANGED <<calls, stopped, locks, flags>>

\* The consumer, the producer, the database and the HTTP server are closed.
Close ==
    /\ pc = "closing" /\ call = "none" /\ Steps
    /\ pc' = "ended"
    /\ UNCHANGED <<call, at, calls, stopped, locks, flags>>

\* with self._lock
Enter ==
    /\ at = "enter" /\ call # "wait" /\ Steps
    /\ lock = "nobody"
    /\ lock' = "main" /\ at' = "inside"
    /\ UNCHANGED <<pc, call, calls, stopped, eventLock, flags>>

\* time.time(), as the age of a heartbeat.
Now == 0

\* What a call does to HealthState.
Effect(c) ==
    /\ running' = CASE c = "set_running" -> TRUE [] c = "set_stopping" -> FALSE [] OTHER -> running
    /\ dbOk' = CASE c = "mark_db_ok" -> TRUE [] c = "mark_db_failed" -> FALSE [] OTHER -> dbOk
    /\ kafkaOk' = CASE c = "mark_kafka_ok" -> TRUE [] c = "mark_kafka_failed" -> FALSE
                    [] OTHER -> kafkaOk
    /\ dbAge' = IF c = "mark_db_ok" THEN Now ELSE dbAge
    /\ kafkaAge' = IF c = "mark_kafka_ok" THEN Now ELSE kafkaAge

Leave ==
    /\ at = "inside" /\ call # "wait" /\ Steps
    /\ Effect(call)
    /\ lock' = "nobody" /\ call' = "none" /\ at' = "outside"
    /\ UNCHANGED <<pc, calls, stopped, eventLock>>

\* Event.wait takes the event's lock, gives it back while it sleeps and takes
\* it again before it returns.
TakeEvent ==
    /\ call = "wait" /\ at \in {"enter", "awake"} /\ Steps
    /\ eventLock = "nobody"
    /\ eventLock' = "main"
    /\ at' = IF at = "enter" THEN "inside" ELSE "leave"
    /\ UNCHANGED <<pc, call, calls, stopped, lock, flags>>

FallAsleep ==
    /\ call = "wait" /\ at = "inside" /\ Steps
    /\ IF stopped THEN at' = "leave" /\ UNCHANGED eventLock
       ELSE at' = "asleep" /\ eventLock' = "nobody"
    /\ UNCHANGED <<pc, call, calls, stopped, lock, flags>>

\* The stop event was set, or the timeout is over.
WakeUp ==
    /\ call = "wait" /\ at = "asleep" /\ Steps
    /\ at' = "awake"
    /\ UNCHANGED <<pc, call, calls, stopped, locks, flags>>

ReturnFromWait ==
    /\ call = "wait" /\ at = "leave" /\ Steps
    /\ eventLock' = "nobody" /\ call' = "none" /\ at' = "outside"
    /\ UNCHANGED <<pc, calls, stopped, lock, flags>>

-----------------------------------------------------------------------------
(* The signal handler                                                      *)

\* SIGTERM or SIGINT: Worker.stop is called on top of whatever the main thread
\* does, another Worker.stop included.
Signal ==
    /\ pc # "ended" /\ signals < MaxSignals
    /\ signals' = signals + 1
    /\ handlers' = <<"stopping">> \o handlers
    /\ clean' = (clean /\ lock # "main" /\ eventLock # "main")
    /\ UNCHANGED <<main, stopped, locks, flags, probe, silence>>

\* The innermost call of Worker.stop goes on.
Handles(from, to) ==
    /\ handlers # <<>> /\ Head(handlers) = from
    /\ handlers' = IF to = "return" THEN Tail(handlers) ELSE <<to>> \o Tail(handlers)
    /\ UNCHANGED <<main, signals, clean, dbOk, kafkaOk, dbAge, kafkaAge, probe, silence>>

StopEnters ==
    /\ Handles("stopping", "stoppingInside")
    /\ lock = "nobody"
    /\ lock' = "main"
    /\ UNCHANGED <<stopped, eventLock, running>>

\* Mutant of StopLeaves: the event is set before the lock is given back, which
\* is then forgotten.
StopLeavesLocked ==
    /\ Handles("stoppingInside", "event")
    /\ running' = FALSE
    /\ UNCHANGED <<lock, stopped, eventLock>>

StopLeaves ==
    /\ Handles("stoppingInside", "event")
    /\ running' = FALSE
    /\ lock' = "nobody"
    /\ UNCHANGED <<stopped, eventLock>>

SetEnters ==
    /\ Handles("event", "eventInside")
    /\ eventLock = "nobody"
    /\ eventLock' = "main"
    /\ UNCHANGED <<stopped, lock, running>>

\* Mutant of SetLeaves: the event is not set.
SetForgotten ==
    /\ Handles("eventInside", "return")
    /\ eventLock' = "nobody"
    /\ UNCHANGED <<stopped, lock, running>>

SetLeaves ==
    /\ Handles("eventInside", "return")
    /\ stopped' = TRUE
    /\ eventLock' = "nobody"
    /\ UNCHANGED <<lock, running>>

-----------------------------------------------------------------------------
(* HTTP threads and the clock                                              *)

\* GET /livez, /readyz or /metrics.
Request(p) ==
    /\ pc # "ended" /\ probe[p] = "idle"
    /\ probe' = [probe EXCEPT ![p] = "enter"]
    /\ UNCHANGED <<main, sigs, stopped, locks, flags, silence>>

ProbeEnters(p) ==
    /\ pc # "ended" /\ probe[p] = "enter" /\ lock = "nobody"
    /\ probe' = [probe EXCEPT ![p] = "inside"]
    /\ lock' = p
    /\ UNCHANGED <<main, sigs, stopped, eventLock, flags, silence>>

\* Mutant of Released: the lock is kept by the thread that answered.
KeptBy(p) == lock

Released(p) == "nobody"

Answer(p) ==
    /\ pc # "ended" /\ probe[p] = "inside"
    /\ probe' = [probe EXCEPT ![p] = "idle"]
    /\ lock' = Released(p)
    /\ UNCHANGED <<main, sigs, stopped, eventLock, flags, silence>>

Older(age) == IF age < MaxAge THEN age + 1 ELSE age

Tick ==
    /\ dbAge' = Older(dbAge) /\ kafkaAge' = Older(kafkaAge) /\ silence' = Older(silence)
    /\ UNCHANGED <<main, sigs, stopped, locks, running, dbOk, kafkaOk, probe>>

-----------------------------------------------------------------------------
Main ==
    \/ Subscribe \/ LoopCondition \/ Call \/ EndRound \/ Raise \/ Shutdown \/ Close
    \/ Leave \/ TakeEvent \/ FallAsleep \/ WakeUp \/ ReturnFromWait

Handler == StopLeaves \/ SetEnters \/ SetLeaves

Next ==
    \/ Main \/ Enter
    \/ Signal \/ StopEnters \/ Handler
    \/ \E p \in Probes : Request(p) \/ ProbeEnters(p) \/ Answer(p)
    \/ Tick

Spec == Init /\ [][Next]_vars

\* Threads go on; a lock that is free again and again is got in the end.
FairSpec ==
    /\ Spec
    /\ WF_vars(Main) /\ SF_vars(Enter)
    /\ WF_vars(Handler) /\ SF_vars(StopEnters)
    /\ \A p \in Probes : WF_vars(Answer(p)) /\ SF_vars(ProbeEnters(p))

-----------------------------------------------------------------------------
(* Properties                                                              *)

\* Mutant of Fresh: heartbeats do not age.
NeverStale(age) == TRUE

Fresh(age) == age < MaxAge

\* What /readyz answers to a thread that gets the lock.
Ready == running /\ dbOk /\ kafkaOk /\ Fresh(dbAge) /\ Fresh(kafkaAge)

\* Whoever is told that the worker is ready can rely on a main thread that has
\* done something lately, not one that hangs in a call or in a lock.
ReadyMeansAlive == Ready => silence < MaxAge

\* The worker is reported as running in its loop only, not while it closes its
\* connections or after it, however it ended; and if a signal comes before it
\* says that it runs, it is wrong about that for less than a round.
RunningMeansInLoop ==
    running => \/ pc \in {"head", "finally"}
               \/ pc = "round" /\ ~stopped
               \/ pc = "closing" /\ call = "set_stopping"

\* As long as no signal has met a lock held by the main thread, neither the
\* worker nor a call of Worker.stop on top of it, nested as they may be, waits
\* for a lock which the main thread itself has further down its stack.
NeverWaitsForItself ==
    clean =>
        /\ lock = "main" =>
              IF handlers = <<>> THEN call = "wait" \/ at # "enter" ELSE Head(handlers) # "stopping"
        /\ eventLock = "main" =>
              IF handlers = <<>> THEN call # "wait" \/ at \notin {"enter", "awake"}
              ELSE Head(handlers) # "event"

\* A signal that meets no lock held by the main thread ends the worker, in a
\* backoff too (test_stop_interrupts_db_retry_backoff).
CleanStopEndsTheWorker == (signals > 0 /\ clean) ~> (pc = "ended" \/ ~clean)

\* A probe is answered, whatever the worker does, as long as it lives.
EveryProbeIsAnswered ==
    \A p \in Probes : (probe[p] # "idle" /\ clean) ~> (probe[p] = "idle" \/ pc = "ended" \/ ~clean)

\* The worker ends after a signal, whenever it comes.
StopEndsTheWorker == signals > 0 ~> pc = "ended"

-----------------------------------------------------------------------------
(* The invariant behind them                                               *)

\* Which calls belong to which part of Worker.run, and how far they can be.
CallsFit ==
    /\ call = "none" <=> at = "outside"
    /\ at \in {"asleep", "awake", "leave"} => call = "wait"
    /\ pc = "head" => call \in {"set_running", "none"}
    /\ pc = "round" => call \in RoundCalls \cup {"wait", "none"}
    /\ pc = "closing" => call \in {"set_stopping", "none"}
    /\ pc \in {"subscribe", "finally", "ended"} => call = "none"

\* Worker.stop withdraws running before it sets the event; nobody says
\* "running" after it but a worker that has not begun a round.
StopWithdraws ==
    /\ pc \in {"subscribe", "ended"} => ~running
    /\ pc = "closing" /\ call = "none" => ~running
    /\ pc = "round" /\ running =>
          /\ ~stopped
          /\ \A i \in DOMAIN handlers : handlers[i] \notin {"event", "eventInside"}

\* Where the main thread has the two locks: in the call it is in, or in one
\* call of Worker.stop.
MainInLock == call # "wait" /\ at = "inside"
MainInEvent == call = "wait" /\ at \in {"inside", "leave"}
In(frame) == {i \in DOMAIN handlers : handlers[i] = frame}

LocksAreExclusive ==
    /\ \A p \in Probes : probe[p] = "inside" <=> lock = p
    /\ lock = "main" <=> MainInLock \/ In("stoppingInside") # {}
    /\ eventLock = "main" <=> MainInEvent \/ In("eventInside") # {}
    /\ MainInLock => In("stoppingInside") = {}
    /\ MainInEvent => In("eventInside") = {}
    /\ \A frame \in {"stoppingInside", "eventInside"} : \A i, j \in In(frame) : i = j

\* While no signal has met a lock of the main thread, nothing below the top of
\* its stack is inside one.
OnlyTopIsInside ==
    clean => /\ \A i \in In("stoppingInside") \cup In("eventInside") : i = 1
             /\ handlers # <<>> => ~MainInLock /\ ~MainInEvent

IInv ==
    /\ TypeOK
    /\ CallsFit
    /\ StopWithdraws
    /\ LocksAreExclusive
    /\ OnlyTopIsInside
    /\ silence <= dbAge
=============================================================================
