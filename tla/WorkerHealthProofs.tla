-------------------------- MODULE WorkerHealthProofs --------------------------
(***************************************************************************)
(* Proofs, for any number of HTTP threads, signals and calls, of the       *)
(* safety properties of WorkerHealth.                                      *)
(*                                                                         *)
(* IInv is inductive as it stands.  The actions fall into groups that      *)
(* disturb different parts of it: the main thread moves only while no      *)
(* handler runs on it, a handler touches the top of the stack and the two  *)
(* locks, and a probe takes HealthState._lock only while nobody has it.    *)
(***************************************************************************)
EXTENDS WorkerHealth, TLAPS

Frames == {"stopping", "stoppingInside", "event", "eventInside"}

\* A frame put on the stack of handlers.
LEMMA Pushed ==
    ASSUME NEW s \in Seq(Frames), NEW x \in Frames, NEW t, t = <<x>> \o s
    PROVE  /\ t \in Seq(Frames) /\ t # <<>> /\ Head(t) = x /\ t[1] = x /\ 1 \in DOMAIN t
           /\ \A i \in DOMAIN s : i + 1 \in DOMAIN t /\ t[i + 1] = s[i]
           /\ \A i \in DOMAIN t : i = 1 \/ (i > 1 /\ i \in Nat /\ i - 1 \in DOMAIN s /\ t[i] = s[i - 1])
OBVIOUS

\* The top frame taken off it.
LEMMA Popped ==
    ASSUME NEW s \in Seq(Frames), s # <<>>
    PROVE  /\ Tail(s) \in Seq(Frames) /\ Head(s) = s[1] /\ 1 \in DOMAIN s
           /\ \A i \in DOMAIN Tail(s) : i + 1 \in DOMAIN s /\ i \in Nat /\ i >= 1 /\ Tail(s)[i] = s[i + 1]
           /\ \A i \in DOMAIN s : i = 1 \/ (i \in Nat /\ i > 1 /\ i - 1 \in DOMAIN Tail(s))
OBVIOUS

\* The top frame replaced by another.
LEMMA Replaced ==
    ASSUME NEW s \in Seq(Frames), s # <<>>, NEW x \in Frames, NEW t, t = <<x>> \o Tail(s)
    PROVE  /\ t \in Seq(Frames) /\ t # <<>> /\ DOMAIN t = DOMAIN s
           /\ 1 \in DOMAIN s /\ Head(s) = s[1] /\ Head(t) = x /\ t[1] = x
           /\ \A i \in DOMAIN s : i # 1 => t[i] = s[i]
OBVIOUS

\* An HTTP thread is none of the names for the main thread and for nobody.
LEMMA ProbeNames == \A p \in Probes : p # "main" /\ p # "nobody"
BY WorkerHealthAssumption

LEMMA Bounds ==
    MaxAge \in Nat /\ MaxAge > 0 /\ 0 \in 0..MaxAge /\ MaxCalls \in Nat /\ MaxSignals \in Nat
<1>1. MaxAge \in Nat /\ MaxAge # 0 /\ MaxCalls \in Nat /\ MaxSignals \in Nat
  BY WorkerHealthAssumption, Zenon
<1> QED
  BY <1>1

-----------------------------------------------------------------------------
LEMMA Initially == Init => IInv
<1> SUFFICES ASSUME Init PROVE IInv
  OBVIOUS
<1>1. TypeOK
  <2>1. /\ running \in BOOLEAN /\ dbOk \in BOOLEAN /\ kafkaOk \in BOOLEAN /\ clean \in BOOLEAN
        /\ stopped \in BOOLEAN
    BY Zenon DEF Init
  <2>2. /\ dbAge \in 0..MaxAge /\ kafkaAge \in 0..MaxAge /\ silence \in 0..MaxAge
        /\ calls \in 0..MaxCalls /\ signals \in 0..MaxSignals
    BY Bounds DEF Init
  <2>3. /\ pc = "subscribe" /\ call \in Calls \cup {"none"} /\ at = "outside"
        /\ lock \in Probes \cup {"main", "nobody"} /\ eventLock \in {"main", "nobody"}
    BY DEF Init
  <2>4. /\ handlers \in Seq({"stopping", "stoppingInside", "event", "eventInside"})
        /\ probe \in [Probes -> {"idle", "enter", "inside"}]
    BY DEF Init
  <2> QED
    BY <2>1, <2>2, <2>3, <2>4, Zenon DEF TypeOK
<1>2. CallsFit /\ StopWithdraws
  BY DEF Init, CallsFit, StopWithdraws
<1>3. LocksAreExclusive /\ OnlyTopIsInside
  <2>1. \A p \in Probes : probe[p] = "idle" /\ lock # p
    BY ProbeNames DEF Init
  <2>2. lock # "main" /\ eventLock # "main" /\ ~MainInLock /\ ~MainInEvent
    BY DEF Init, MainInLock, MainInEvent
  <2>3. \A frame : In(frame) = {}
    BY DEF Init, In
  <2> QED
    BY <2>1, <2>2, <2>3 DEF LocksAreExclusive, OnlyTopIsInside
<1>4. silence <= dbAge
  BY Bounds DEF Init
<1> QED
  BY <1>1, <1>2, <1>3, <1>4 DEF IInv

-----------------------------------------------------------------------------
(* The main thread                                                         *)

\* A step of the main thread that takes or gives back no lock and leaves
\* HealthState and the event alone.
LEMMA MainMoves ==
    ASSUME IInv, Steps, UNCHANGED <<stopped, locks, flags>>, CallsFit',
           pc' \in {"subscribe", "head", "round", "finally", "closing", "ended"},
           call' \in Calls \cup {"none"}, calls' \in 0..MaxCalls,
           at' \in {"outside", "enter", "inside", "asleep", "awake", "leave"},
           at \notin {"inside", "leave"} /\ at' \notin {"inside", "leave"},
           pc' = "round" => pc = "round" \/ ~stopped,
           pc' \in {"subscribe", "ended"} => ~running,
           pc' = "closing" /\ call' = "none" => ~running
    PROVE  IInv'
<1> USE DEF locks, flags, Steps, sigs
<1>1. TypeOK'
  BY Bounds DEF IInv, TypeOK
<1>2. StopWithdraws'
  BY DEF IInv, StopWithdraws
<1>3. LocksAreExclusive' /\ OnlyTopIsInside'
  BY DEF IInv, LocksAreExclusive, OnlyTopIsInside, MainInLock, MainInEvent, In
<1>4. silence' <= dbAge'
  BY DEF IInv, TypeOK
<1> QED
  BY <1>1, <1>2, <1>3, <1>4 DEF IInv

LEMMA OutsideSteps ==
    IInv /\ (Subscribe \/ LoopCondition \/ Call \/ EndRound \/ Raise \/ Shutdown \/ Close) => IInv'
<1> SUFFICES ASSUME IInv,
                    Subscribe \/ LoopCondition \/ Call \/ EndRound \/ Raise \/ Shutdown \/ Close
             PROVE  IInv'
  OBVIOUS
<1>1. TypeOK /\ CallsFit /\ StopWithdraws /\ MaxCalls \in Nat
  BY Bounds DEF IInv
<1>2. CASE Subscribe
  BY <1>1, <1>2, MainMoves DEF Subscribe, Begins, CallsFit, StopWithdraws, TypeOK, Calls
<1>3. CASE LoopCondition
  BY <1>1, <1>3, MainMoves DEF LoopCondition, CallsFit, StopWithdraws, TypeOK, Calls
<1>4. CASE Call
  BY <1>1, <1>4, MainMoves DEF Call, Begins, CallsFit, StopWithdraws, TypeOK, Calls, RoundCalls
<1>5. CASE EndRound \/ Raise
  BY <1>1, <1>5, MainMoves DEF EndRound, Raise, CallsFit, StopWithdraws, TypeOK
<1>6. CASE Shutdown
  BY <1>1, <1>6, MainMoves DEF Shutdown, Begins, CallsFit, StopWithdraws, TypeOK, Calls
<1>7. CASE Close
  BY <1>1, <1>7, MainMoves DEF Close, CallsFit, StopWithdraws, TypeOK
<1> QED
  BY <1>2, <1>3, <1>4, <1>5, <1>6, <1>7

\* A step of the main thread into or out of one of the two locks.
LEMMA LockSteps ==
    IInv /\ (Enter \/ TakeEvent \/ FallAsleep \/ WakeUp \/ ReturnFromWait) => IInv'
<1> SUFFICES ASSUME IInv, Enter \/ TakeEvent \/ FallAsleep \/ WakeUp \/ ReturnFromWait
             PROVE  IInv'
  OBVIOUS
<1> USE DEF locks, flags, Steps, sigs
<1>1. /\ TypeOK /\ CallsFit /\ StopWithdraws /\ LocksAreExclusive /\ OnlyTopIsInside
      /\ handlers = <<>>
  BY DEF IInv, Enter, TakeEvent, FallAsleep, WakeUp, ReturnFromWait
<1>2. \A frame : In(frame) = {} /\ In(frame)' = {}
  BY <1>1 DEF In, Enter, TakeEvent, FallAsleep, WakeUp, ReturnFromWait
<1>3. /\ UNCHANGED <<pc, calls, stopped, flags, sigs, probe>> /\ silence' = 0
  BY DEF Enter, TakeEvent, FallAsleep, WakeUp, ReturnFromWait
<1>4. TypeOK'
  BY <1>1, <1>3, Bounds
     DEF TypeOK, Enter, TakeEvent, FallAsleep, WakeUp, ReturnFromWait
<1>5. CallsFit'
  BY <1>1, <1>3 DEF CallsFit, Enter, TakeEvent, FallAsleep, WakeUp, ReturnFromWait
<1>6. StopWithdraws'
  <2>1. pc = "closing" => call' # "none" \/ call = "none"
    BY <1>1 DEF CallsFit, Enter, TakeEvent, FallAsleep, WakeUp, ReturnFromWait
  <2> QED
    BY <1>1, <1>3, <2>1 DEF StopWithdraws
<1>7. LocksAreExclusive'
  <2>1. \A p \in Probes : probe'[p] = "inside" <=> lock' = p
    BY <1>1, <1>3, ProbeNames DEF LocksAreExclusive, Enter, TakeEvent, FallAsleep, WakeUp, ReturnFromWait
  <2>2. lock' = "main" <=> MainInLock'
    BY <1>1, <1>2, <1>3 DEF LocksAreExclusive, CallsFit, MainInLock,
                            Enter, TakeEvent, FallAsleep, WakeUp, ReturnFromWait
  <2>3. eventLock' = "main" <=> MainInEvent'
    BY <1>1, <1>2, <1>3 DEF LocksAreExclusive, CallsFit, MainInEvent,
                            Enter, TakeEvent, FallAsleep, WakeUp, ReturnFromWait
  <2> QED
    BY <1>2, <2>1, <2>2, <2>3 DEF LocksAreExclusive
<1>8. OnlyTopIsInside'
  BY <1>1, <1>2, <1>3 DEF OnlyTopIsInside
<1>9. silence' <= dbAge'
  BY <1>1, <1>3 DEF TypeOK
<1> QED
  BY <1>4, <1>5, <1>6, <1>7, <1>8, <1>9 DEF IInv

\* The effect of a call on HealthState, on the way out of the lock.
LEMMA LeaveStep == IInv /\ Leave => IInv'
<1> SUFFICES ASSUME IInv, Leave PROVE IInv'
  OBVIOUS
<1> USE DEF locks, flags, Steps, sigs
<1>1. /\ TypeOK /\ CallsFit /\ StopWithdraws /\ LocksAreExclusive /\ OnlyTopIsInside
      /\ handlers = <<>>
  BY DEF IInv, Leave
<1>2. \A frame : In(frame) = {} /\ In(frame)' = {}
  BY <1>1 DEF In, Leave
<1>3. /\ UNCHANGED <<pc, calls, stopped, eventLock, sigs, probe>> /\ silence' = 0
      /\ at = "inside" /\ call # "wait" /\ call # "none"
      /\ lock' = "nobody" /\ call' = "none" /\ at' = "outside"
  BY <1>1 DEF Leave, CallsFit
<1>4. /\ running' \in BOOLEAN /\ dbOk' \in BOOLEAN /\ kafkaOk' \in BOOLEAN
      /\ dbAge' \in 0..MaxAge /\ kafkaAge' \in 0..MaxAge /\ 0 <= dbAge'
  <2>1. running' \in BOOLEAN /\ dbOk' \in BOOLEAN /\ kafkaOk' \in BOOLEAN
    BY <1>1, Zenon DEF Leave, Effect, TypeOK
  <2>2. dbAge' \in 0..MaxAge /\ kafkaAge' \in 0..MaxAge
    BY <1>1, Bounds DEF Leave, Effect, Now, TypeOK
  <2> QED
    BY <2>1, <2>2, Bounds
<1>5. /\ call = "set_stopping" => ~running'
      /\ call \notin {"set_running", "set_stopping"} => running' = running
  BY DEF Leave, Effect
<1>6. TypeOK'
  BY <1>1, <1>3, <1>4, Bounds DEF TypeOK
<1>7. CallsFit'
  BY <1>1, <1>3 DEF CallsFit
<1>8. StopWithdraws'
  BY <1>1, <1>3, <1>5 DEF StopWithdraws, CallsFit, RoundCalls
<1>9. LocksAreExclusive'
  <2>1. lock = "main" /\ eventLock # "main"
    BY <1>1, <1>2, <1>3 DEF LocksAreExclusive, MainInLock, MainInEvent
  <2>2. \A p \in Probes : probe'[p] = "inside" <=> lock' = p
    BY <1>1, <1>3, <2>1, ProbeNames DEF LocksAreExclusive
  <2> QED
    BY <1>2, <1>3, <2>1, <2>2 DEF LocksAreExclusive, MainInLock, MainInEvent
<1>10. OnlyTopIsInside'
  BY <1>1, <1>2, <1>3 DEF OnlyTopIsInside
<1> QED
  BY <1>3, <1>4, <1>6, <1>7, <1>8, <1>9, <1>10 DEF IInv

-----------------------------------------------------------------------------
(* The signal handler                                                      *)

LEMMA SignalStep == IInv /\ Signal => IInv'
<1> SUFFICES ASSUME IInv, Signal PROVE IInv'
  OBVIOUS
<1> USE DEF locks, flags, main
<1>1. /\ TypeOK /\ CallsFit /\ StopWithdraws /\ LocksAreExclusive /\ OnlyTopIsInside
      /\ silence <= dbAge /\ handlers \in Seq(Frames)
  BY DEF IInv, TypeOK, Frames
<1>2. /\ UNCHANGED <<main, stopped, locks, flags, probe, silence>>
      /\ handlers' = <<"stopping">> \o handlers
      /\ clean' => clean /\ lock # "main" /\ eventLock # "main"
      /\ clean' \in BOOLEAN /\ signals' \in 0..MaxSignals
  <2>1. clean' \in BOOLEAN /\ (clean' => clean /\ lock # "main" /\ eventLock # "main")
    BY <1>1, Zenon DEF Signal, TypeOK
  <2>2. signals' \in 0..MaxSignals
    BY <1>1, Bounds DEF Signal, TypeOK
  <2> QED
    BY <2>1, <2>2 DEF Signal
<1>3. /\ handlers' \in Seq(Frames) /\ handlers' # <<>> /\ handlers'[1] = "stopping"
      /\ \A i \in DOMAIN handlers : i + 1 \in DOMAIN handlers' /\ handlers'[i + 1] = handlers[i]
      /\ \A i \in DOMAIN handlers' :
            i = 1 \/ (i > 1 /\ i \in Nat /\ i - 1 \in DOMAIN handlers /\ handlers'[i] = handlers[i - 1])
  BY <1>1, <1>2, Pushed DEF Frames
<1>4. ASSUME NEW frame, frame # "stopping"
      PROVE  /\ \A i \in In(frame)' : i \in Nat /\ i - 1 \in In(frame)
             /\ In(frame) = {} <=> In(frame)' = {}
  BY <1>3, <1>4 DEF In
<1>5. TypeOK'
  BY <1>1, <1>2, <1>3 DEF TypeOK, Frames
<1>6. CallsFit' /\ silence' <= dbAge'
  BY <1>1, <1>2 DEF CallsFit
<1>7. StopWithdraws'
  <2>1. \A i \in DOMAIN handlers' : handlers'[i] \in {"event", "eventInside"} =>
            \E j \in DOMAIN handlers : handlers[j] = handlers'[i]
    BY <1>3
  <2> QED
    BY <1>1, <1>2, <2>1 DEF StopWithdraws
<1>8. LocksAreExclusive'
  <2>1. In("stoppingInside") = {} <=> In("stoppingInside")' = {}
    BY <1>4
  <2>2. In("eventInside") = {} <=> In("eventInside")' = {}
    BY <1>4
  <2>3. ASSUME NEW frame \in {"stoppingInside", "eventInside"}, NEW i \in In(frame)', NEW j \in In(frame)'
        PROVE  i = j
    <3>1. i \in Nat /\ j \in Nat /\ i - 1 \in In(frame) /\ j - 1 \in In(frame)
      BY <1>4, <2>3
    <3> QED
      BY <1>1, <3>1 DEF LocksAreExclusive
  <2> QED
    BY <1>1, <1>2, <2>1, <2>2, <2>3 DEF LocksAreExclusive, MainInLock, MainInEvent
<1>9. OnlyTopIsInside'
  <2> SUFFICES ASSUME clean' PROVE OnlyTopIsInside'
    BY DEF OnlyTopIsInside
  <2>1. In("stoppingInside") = {} /\ In("eventInside") = {} /\ ~MainInLock /\ ~MainInEvent
    BY <1>1, <1>2 DEF LocksAreExclusive
  <2>2. In("stoppingInside")' = {} /\ In("eventInside")' = {}
    BY <1>4, <2>1
  <2> QED
    BY <1>2, <2>1, <2>2 DEF OnlyTopIsInside, MainInLock, MainInEvent
<1> QED
  BY <1>5, <1>6, <1>7, <1>8, <1>9 DEF IInv

\* The topmost call of Worker.stop goes on: one frame in the place of another.
LEMMA FrameReplaced ==
    ASSUME TypeOK, NEW from \in Frames, NEW to \in Frames, from # to, Handles(from, to)
    PROVE  /\ handlers' \in Seq(Frames) /\ handlers # <<>> /\ handlers' # <<>>
           /\ \A f \in Frames : 1 \in In(f) <=> f = from
           /\ \A f \in Frames : 1 \in In(f)' <=> f = to
           /\ \A f \in Frames : \A i : i # 1 => (i \in In(f)' <=> i \in In(f))
           /\ \A f \in Frames \ {from, to} : In(f)' = In(f)
<1>1. /\ handlers \in Seq(Frames) /\ handlers # <<>> /\ Head(handlers) = from
      /\ handlers' = <<to>> \o Tail(handlers)
  BY DEF Handles, TypeOK, Frames
<1>2. /\ handlers' \in Seq(Frames) /\ handlers' # <<>> /\ DOMAIN handlers' = DOMAIN handlers
      /\ 1 \in DOMAIN handlers /\ handlers[1] = from /\ handlers'[1] = to
      /\ \A i \in DOMAIN handlers : i # 1 => handlers'[i] = handlers[i]
  BY <1>1, Replaced
<1> QED
  BY <1>1, <1>2 DEF In

\* The topmost call of Worker.stop returns.
LEMMA FrameReturns ==
    ASSUME TypeOK, NEW from \in Frames, Handles(from, "return")
    PROVE  /\ handlers' \in Seq(Frames) /\ handlers # <<>>
           /\ \A f \in Frames : 1 \in In(f) <=> f = from
           /\ \A f \in Frames : \A i \in In(f)' : i \in Nat /\ i >= 1 /\ i + 1 \in In(f)
           /\ \A f \in Frames : \A i \in In(f) : i = 1 \/ (i \in Nat /\ i > 1 /\ i - 1 \in In(f)')
<1>1. /\ handlers \in Seq(Frames) /\ handlers # <<>> /\ Head(handlers) = from
      /\ handlers' = Tail(handlers)
  BY DEF Handles, TypeOK, Frames
<1>2. /\ handlers' \in Seq(Frames) /\ 1 \in DOMAIN handlers /\ handlers[1] = from
      /\ \A i \in DOMAIN handlers' :
            i + 1 \in DOMAIN handlers /\ i \in Nat /\ i >= 1 /\ handlers'[i] = handlers[i + 1]
      /\ \A i \in DOMAIN handlers : i = 1 \/ (i \in Nat /\ i > 1 /\ i - 1 \in DOMAIN handlers')
  BY <1>1, Popped
<1>3. \A i \in DOMAIN handlers : i > 1 /\ i \in Nat => handlers'[i - 1] = handlers[i]
  BY <1>2
<1> QED
  BY <1>1, <1>2, <1>3 DEF In

\* What a step of Worker.stop leaves to show.
LEMMA HandlerMoves ==
    ASSUME IInv, NEW from, NEW to, Handles(from, to), handlers' \in Seq(Frames),
           stopped' \in BOOLEAN, running' \in BOOLEAN, running' => running,
           lock' \in Probes \cup {"main", "nobody"}, eventLock' \in {"main", "nobody"},
           pc = "round" /\ running' =>
               ~stopped' /\ In("event")' = {} /\ In("eventInside")' = {},
           LocksAreExclusive', OnlyTopIsInside'
    PROVE  IInv'
<1>1. TypeOK /\ CallsFit /\ StopWithdraws /\ silence <= dbAge
  BY DEF IInv
<1>2. UNCHANGED <<main, signals, clean, dbOk, kafkaOk, dbAge, kafkaAge, probe, silence>>
  BY DEF Handles
<1>3. TypeOK'
  BY <1>1, <1>2 DEF TypeOK, main, Frames
<1>4. CallsFit' /\ silence' <= dbAge'
  BY <1>1, <1>2 DEF CallsFit, main
<1>5. StopWithdraws'
  BY <1>1, <1>2 DEF StopWithdraws, main, In
<1> QED
  BY <1>3, <1>4, <1>5 DEF IInv

LEMMA StopEntersStep == IInv /\ StopEnters => IInv'
<1> SUFFICES ASSUME IInv, StopEnters PROVE IInv'
  OBVIOUS
<1> DEFINE from == "stopping"
           to == "stoppingInside"
<1>1. TypeOK /\ StopWithdraws /\ LocksAreExclusive /\ OnlyTopIsInside
  BY DEF IInv
<1>2. /\ Handles(from, to) /\ lock = "nobody" /\ lock' = "main"
      /\ UNCHANGED <<main, clean, probe, stopped, eventLock, running>>
  BY DEF StopEnters, Handles
<1>3. /\ handlers' \in Seq(Frames) /\ handlers # <<>> /\ handlers' # <<>>
      /\ \A f \in Frames : 1 \in In(f) <=> f = from
      /\ \A f \in Frames : 1 \in In(f)' <=> f = to
      /\ \A f \in Frames : \A i : i # 1 => (i \in In(f)' <=> i \in In(f))
      /\ \A f \in Frames \ {from, to} : In(f)' = In(f)
  BY <1>1, <1>2, FrameReplaced DEF Frames
<1>4. /\ In("stoppingInside") = {} /\ In("stoppingInside")' = {1} /\ ~MainInLock
      /\ In("event")' = In("event") /\ In("eventInside")' = In("eventInside")
  <2>1. In("stoppingInside") = {} /\ ~MainInLock
    BY <1>1, <1>2 DEF LocksAreExclusive
  <2>2. In("stoppingInside")' = {1}
    BY <1>3, <2>1 DEF Frames
  <2>3. In("event")' = In("event")
    BY <1>3 DEF Frames
  <2>4. In("eventInside")' = In("eventInside")
    BY <1>3 DEF Frames
  <2> QED
    BY <2>1, <2>2, <2>3, <2>4
<1>5. LocksAreExclusive'
  BY <1>1, <1>2, <1>4, ProbeNames DEF LocksAreExclusive, MainInLock, MainInEvent, main
<1>6. OnlyTopIsInside'
  BY <1>1, <1>2, <1>3, <1>4 DEF OnlyTopIsInside, MainInLock, MainInEvent, main
<1>7. pc = "round" /\ running' => ~stopped' /\ In("event")' = {} /\ In("eventInside")' = {}
  BY <1>1, <1>2, <1>4 DEF StopWithdraws, In
<1> QED
  BY <1>1, <1>2, <1>3, <1>5, <1>6, <1>7, HandlerMoves DEF TypeOK

LEMMA StopLeavesStep == IInv /\ StopLeaves => IInv'
<1> SUFFICES ASSUME IInv, StopLeaves PROVE IInv'
  OBVIOUS
<1> DEFINE from == "stoppingInside"
           to == "event"
<1>1. TypeOK /\ StopWithdraws /\ LocksAreExclusive /\ OnlyTopIsInside
  BY DEF IInv
<1>2. /\ Handles(from, to) /\ lock' = "nobody" /\ ~running' /\ running' \in BOOLEAN
      /\ UNCHANGED <<main, clean, probe, stopped, eventLock>>
  BY DEF StopLeaves, Handles
<1>3. /\ handlers' \in Seq(Frames) /\ handlers # <<>> /\ handlers' # <<>>
      /\ \A f \in Frames : 1 \in In(f) <=> f = from
      /\ \A f \in Frames : 1 \in In(f)' <=> f = to
      /\ \A f \in Frames : \A i : i # 1 => (i \in In(f)' <=> i \in In(f))
      /\ \A f \in Frames \ {from, to} : In(f)' = In(f)
  BY <1>1, <1>2, FrameReplaced DEF Frames
<1>4. /\ 1 \in In("stoppingInside") /\ \A i \in In("stoppingInside") : i = 1
      /\ lock = "main" /\ ~MainInLock
  BY <1>1, <1>3 DEF LocksAreExclusive, Frames
<1>5. In("stoppingInside")' = {} /\ In("eventInside")' = In("eventInside")
  <2>1. In("stoppingInside")' = {}
    BY <1>3, <1>4 DEF Frames
  <2>2. In("eventInside")' = In("eventInside")
    BY <1>3 DEF Frames
  <2> QED
    BY <2>1, <2>2
<1>6. LocksAreExclusive'
  BY <1>1, <1>2, <1>4, <1>5, ProbeNames DEF LocksAreExclusive, MainInLock, MainInEvent, main
<1>7. OnlyTopIsInside'
  BY <1>1, <1>2, <1>3, <1>5 DEF OnlyTopIsInside, MainInLock, MainInEvent, main
<1> QED
  BY <1>1, <1>2, <1>3, <1>6, <1>7, HandlerMoves DEF TypeOK

LEMMA SetEntersStep == IInv /\ SetEnters => IInv'
<1> SUFFICES ASSUME IInv, SetEnters PROVE IInv'
  OBVIOUS
<1> DEFINE from == "event"
           to == "eventInside"
<1>1. TypeOK /\ StopWithdraws /\ LocksAreExclusive /\ OnlyTopIsInside
  BY DEF IInv
<1>2. /\ Handles(from, to) /\ eventLock = "nobody" /\ eventLock' = "main"
      /\ UNCHANGED <<main, clean, probe, stopped, lock, running>>
  BY DEF SetEnters, Handles
<1>3. /\ handlers' \in Seq(Frames) /\ handlers # <<>> /\ handlers' # <<>>
      /\ \A f \in Frames : 1 \in In(f) <=> f = from
      /\ \A f \in Frames : 1 \in In(f)' <=> f = to
      /\ \A f \in Frames : \A i : i # 1 => (i \in In(f)' <=> i \in In(f))
      /\ \A f \in Frames \ {from, to} : In(f)' = In(f)
  BY <1>1, <1>2, FrameReplaced DEF Frames
<1>4. /\ In("eventInside") = {} /\ In("eventInside")' = {1} /\ ~MainInEvent
      /\ In("stoppingInside")' = In("stoppingInside")
  BY <1>1, <1>2, <1>3 DEF LocksAreExclusive, Frames
<1>5. LocksAreExclusive'
  BY <1>1, <1>2, <1>4, ProbeNames DEF LocksAreExclusive, MainInLock, MainInEvent, main
<1>6. OnlyTopIsInside'
  BY <1>1, <1>2, <1>3, <1>4 DEF OnlyTopIsInside, MainInLock, MainInEvent, main
<1>7. pc = "round" => ~running'
  BY <1>1, <1>2, <1>3 DEF StopWithdraws, In, Frames
<1> QED
  BY <1>1, <1>2, <1>3, <1>5, <1>6, <1>7, HandlerMoves DEF TypeOK

LEMMA SetLeavesStep == IInv /\ SetLeaves => IInv'
<1> SUFFICES ASSUME IInv, SetLeaves PROVE IInv'
  OBVIOUS
<1>1. TypeOK /\ StopWithdraws /\ LocksAreExclusive /\ OnlyTopIsInside
  BY DEF IInv
<1>2. /\ Handles("eventInside", "return") /\ eventLock' = "nobody" /\ stopped'
      /\ stopped' \in BOOLEAN
      /\ UNCHANGED <<main, clean, probe, lock, running>>
  BY DEF SetLeaves, Handles
<1>3. /\ handlers' \in Seq(Frames) /\ handlers # <<>>
      /\ \A f \in Frames : 1 \in In(f) <=> f = "eventInside"
      /\ \A f \in Frames : \A i \in In(f)' : i \in Nat /\ i >= 1 /\ i + 1 \in In(f)
      /\ \A f \in Frames : \A i \in In(f) : i = 1 \/ (i \in Nat /\ i > 1 /\ i - 1 \in In(f)')
  BY <1>1, <1>2, FrameReturns DEF Frames
<1>4. /\ 1 \in In("eventInside") /\ \A i \in In("eventInside") : i = 1
      /\ eventLock = "main" /\ ~MainInEvent
  BY <1>1, <1>3 DEF LocksAreExclusive, Frames
<1>5. In("eventInside")' = {}
  BY <1>3, <1>4 DEF Frames
<1>6. In("stoppingInside")' = {} <=> In("stoppingInside") = {}
  BY <1>3 DEF Frames
<1>7. ASSUME NEW i \in In("stoppingInside")', NEW j \in In("stoppingInside")' PROVE i = j
  <2>1. /\ i \in Nat /\ j \in Nat
        /\ i + 1 \in In("stoppingInside") /\ j + 1 \in In("stoppingInside")
    BY <1>3 DEF Frames
  <2>2. i + 1 = j + 1
    BY <1>1, <2>1 DEF LocksAreExclusive
  <2> QED
    BY <2>1, <2>2
<1>8. LocksAreExclusive'
  BY <1>1, <1>2, <1>4, <1>5, <1>6, <1>7, ProbeNames
     DEF LocksAreExclusive, MainInLock, MainInEvent, main
<1>9. OnlyTopIsInside'
  <2> SUFFICES ASSUME clean PROVE In("stoppingInside")' = {} /\ ~MainInLock /\ ~MainInEvent
    BY <1>2, <1>5 DEF OnlyTopIsInside, MainInLock, MainInEvent, main
  <2>1. In("stoppingInside") = {}
    BY <1>1, <1>3 DEF OnlyTopIsInside, Frames
  <2> QED
    BY <1>1, <1>3, <1>6, <2>1 DEF OnlyTopIsInside
<1>10. pc = "round" => ~running'
  BY <1>1, <1>2, <1>3 DEF StopWithdraws, In, Frames
<1> QED
  BY <1>1, <1>2, <1>3, <1>8, <1>9, <1>10, HandlerMoves DEF TypeOK

-----------------------------------------------------------------------------
(* HTTP threads and the clock                                              *)

LEMMA ProbeSteps ==
    ASSUME NEW p \in Probes PROVE IInv /\ (Request(p) \/ ProbeEnters(p) \/ Answer(p)) => IInv'
<1> SUFFICES ASSUME IInv, Request(p) \/ ProbeEnters(p) \/ Answer(p) PROVE IInv'
  OBVIOUS
<1> USE DEF main, sigs, flags, locks
<1>1. /\ TypeOK /\ CallsFit /\ StopWithdraws /\ LocksAreExclusive /\ OnlyTopIsInside
      /\ silence <= dbAge
  BY DEF IInv
<1>2. UNCHANGED <<main, sigs, stopped, eventLock, flags, silence>>
  BY DEF Request, ProbeEnters, Answer
<1>3. /\ probe' \in [Probes -> {"idle", "enter", "inside"}]
      /\ lock' \in Probes \cup {"main", "nobody"}
      /\ lock' = "main" <=> lock = "main"
      /\ \A q \in Probes : probe'[q] = "inside" <=> lock' = q
  <2>1. CASE Request(p)
    BY <1>1, <2>1 DEF Request, TypeOK, LocksAreExclusive
  <2>2. CASE ProbeEnters(p)
    BY <1>1, <2>2, ProbeNames DEF ProbeEnters, TypeOK, LocksAreExclusive
  <2>3. CASE Answer(p)
    BY <1>1, <2>3, ProbeNames DEF Answer, Released, TypeOK, LocksAreExclusive
  <2> QED
    BY <2>1, <2>2, <2>3
<1>4. TypeOK'
  BY <1>1, <1>2, <1>3 DEF TypeOK
<1>5. CallsFit' /\ StopWithdraws' /\ silence' <= dbAge'
  BY <1>1, <1>2 DEF CallsFit, StopWithdraws
<1>6. LocksAreExclusive' /\ OnlyTopIsInside'
  BY <1>1, <1>2, <1>3 DEF LocksAreExclusive, OnlyTopIsInside, MainInLock, MainInEvent, In
<1> QED
  BY <1>4, <1>5, <1>6 DEF IInv

LEMMA TickStep == IInv /\ (Tick \/ UNCHANGED vars) => IInv'
<1> SUFFICES ASSUME IInv, Tick \/ UNCHANGED vars PROVE IInv'
  OBVIOUS
<1> USE DEF main, sigs, locks, vars, flags
<1>1. /\ TypeOK /\ CallsFit /\ StopWithdraws /\ LocksAreExclusive /\ OnlyTopIsInside
      /\ silence <= dbAge
  BY DEF IInv
<1>2. UNCHANGED <<main, sigs, stopped, locks, running, dbOk, kafkaOk, probe>>
  BY DEF Tick
<1>3. /\ dbAge' \in 0..MaxAge /\ kafkaAge' \in 0..MaxAge /\ silence' \in 0..MaxAge
      /\ silence' <= dbAge'
  BY <1>1, Bounds DEF Tick, Older, TypeOK
<1>4. TypeOK'
  BY <1>1, <1>2, <1>3 DEF TypeOK
<1>5. CallsFit' /\ StopWithdraws'
  BY <1>1, <1>2 DEF CallsFit, StopWithdraws
<1>6. LocksAreExclusive' /\ OnlyTopIsInside'
  BY <1>1, <1>2 DEF LocksAreExclusive, OnlyTopIsInside, MainInLock, MainInEvent, In
<1> QED
  BY <1>3, <1>4, <1>5, <1>6 DEF IInv

-----------------------------------------------------------------------------
(* The theorems                                                            *)

LEMMA Inductive == IInv /\ [Next]_vars => IInv'
<1> SUFFICES ASSUME IInv, [Next]_vars PROVE IInv'
  OBVIOUS
<1>1. CASE Main \/ Enter
  BY <1>1, OutsideSteps, LockSteps, LeaveStep DEF Main
<1>2. CASE Signal \/ StopEnters \/ Handler
  BY <1>2, SignalStep, StopEntersStep, StopLeavesStep, SetEntersStep, SetLeavesStep DEF Handler
<1>3. ASSUME NEW p \in Probes, Request(p) \/ ProbeEnters(p) \/ Answer(p) PROVE IInv'
  BY <1>3, ProbeSteps
<1>4. CASE Tick \/ UNCHANGED vars
  BY <1>4, TickStep
<1> QED
  BY <1>1, <1>2, <1>3, <1>4 DEF Next

\* At most one frame of the main thread, or one HTTP thread, is inside a lock,
\* and "running" is withdrawn before the stop event is set, in every
\* interleaving of worker, signals, probes and clock.
THEOREM Invariance == Spec => []IInv
BY Initially, Inductive, PTL DEF Spec

\* Every variable keeps its type.
THEOREM TypeCorrect == Spec => []TypeOK
<1>1. IInv => TypeOK
  BY DEF IInv
<1> QED
  BY <1>1, Invariance, PTL

\* /readyz never answers "ready" for a main thread that has been silent for
\* _HEARTBEAT_MAX_AGE_SECONDS (HealthState.status).
THEOREM ReadyIsAlive == Spec => []ReadyMeansAlive
<1>1. IInv => ReadyMeansAlive
  BY Bounds DEF IInv, TypeOK, ReadyMeansAlive, Ready, Fresh
<1> QED
  BY <1>1, Invariance, PTL

\* The worker is reported as running in its loop only (set_running,
\* set_stopping, Worker.stop and _shutdown).
THEOREM RunningInLoop == Spec => []RunningMeansInLoop
<1>1. IInv => RunningMeansInLoop
  BY DEF IInv, TypeOK, CallsFit, StopWithdraws, RunningMeansInLoop
<1> QED
  BY <1>1, Invariance, PTL

\* The main thread blocks on itself only after a signal that met one of its
\* locks held (Worker.stop in a handler, with locks that are not reentrant).
THEOREM NoWaitingForOneself == Spec => []NeverWaitsForItself
<1>1. ASSUME IInv PROVE NeverWaitsForItself
  <2>1. TypeOK /\ LocksAreExclusive /\ OnlyTopIsInside /\ handlers \in Seq(Frames)
    BY <1>1 DEF IInv, TypeOK, Frames
  <2>2. CASE handlers = <<>>
    <3>1. \A frame : In(frame) = {}
      BY <2>2 DEF In
    <3> QED
      BY <2>1, <2>2, <3>1 DEF LocksAreExclusive, MainInLock, MainInEvent, NeverWaitsForItself
  <2>3. CASE handlers # <<>>
    <3>1. 1 \in DOMAIN handlers /\ Head(handlers) = handlers[1]
      BY <2>1, <2>3, Popped
    <3>2. clean /\ lock = "main" => 1 \in In("stoppingInside")
      BY <2>1, <2>3 DEF LocksAreExclusive, OnlyTopIsInside
    <3>3. clean /\ eventLock = "main" => 1 \in In("eventInside")
      BY <2>1, <2>3 DEF LocksAreExclusive, OnlyTopIsInside
    <3> QED
      BY <2>3, <3>1, <3>2, <3>3 DEF NeverWaitsForItself, In
  <2> QED
    BY <2>2, <2>3
<1> QED
  BY <1>1, Invariance, PTL
=============================================================================
