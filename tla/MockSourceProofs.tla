-------------------------- MODULE MockSourceProofs --------------------------
(***************************************************************************)
(* The shared state file is a serial catalogue, and no sync overlooks a    *)
(* change, for any number of processes and counterparties.                 *)
(*                                                                         *)
(* The argument: the lock makes the one process inside it the owner of the *)
(* file (Exclusion), because each section reads the file anew its memory   *)
(* is the file or the file with one change (MemoryIsCurrent), and because  *)
(* the stamp is taken inside the lock stamps come in the order of the      *)
(* changes (StampedInThePast); so what changes after a fetch is stamped no *)
(* earlier than what was fetched (FetchedInOrder), which is where the      *)
(* watermark goes (WatermarkIsReached).                                    *)
(***************************************************************************)
EXTENDS MockSource, TLAPS

USE DEF process, syncs

\* The catalogue is one of rows, whether there is a file or not.
LEMMA StoredType ==
    ASSUME TypeOK
    PROVE  Stored \in Rows /\ Seed \in Rows
BY DEF TypeOK, Stored, Seed, Rows, Row

\* Inside the lock there is nobody else.
LEMMA Alone ==
    ASSUME IInv, NEW p \in Processes, stage[p] \in Inside, NEW q \in Processes, q # p
    PROVE  stage[q] \notin Inside
BY DEF IInv, Exclusion

LEMMA Initially == Init => IInv
<1> SUFFICES ASSUME Init
             PROVE  IInv
  OBVIOUS
<1> USE MockSourceAssumption DEF Init
<1>1. TypeOK
  BY DEF TypeOK, Seed, Rows, Row, Stages, Inside
<1>2. Stored = Seed
  BY DEF Stored
<1> QED
  BY <1>1, <1>2
     DEF IInv, Exclusion, MemoryIsCurrent, StampedInThePast, FetchedInOrder, WatermarkIsReached,
         Inside, Seed, NoTime

LEMMA TickStep == IInv /\ Tick => IInv'
<1> SUFFICES ASSUME IInv, Tick
             PROVE  IInv'
  OBVIOUS
<1>1. /\ clock \in Nat /\ clock' = clock + 1 /\ clock' <= MaxClock
      /\ UNCHANGED <<file, lock, stage, task, opened, memory, watermark, known, calls, faults>>
  BY MockSourceAssumption DEF Tick, IInv, TypeOK
<1>2. TypeOK'
  BY <1>1, MockSourceAssumption DEF IInv, TypeOK
<1>3. Stored' = Stored
  BY <1>1 DEF Stored
<1>4. StampedInThePast'
  <2> SUFFICES ASSUME NEW id \in Ids
               PROVE  Stored[id].ts <= clock + 1
    BY <1>1, <1>3 DEF StampedInThePast
  <2> QED
    BY <1>1, StoredType DEF IInv, StampedInThePast, Rows, Row
<1>5. MemoryIsCurrent'
  <2>1. 0..clock \subseteq 0..clock'
    BY <1>1
  <2> QED
    BY <1>1, <2>1 DEF IInv, MemoryIsCurrent
<1> QED
  BY <1>1, <1>2, <1>3, <1>4, <1>5 DEF IInv, Exclusion, FetchedInOrder, WatermarkIsReached

LEMMA CallStep == ASSUME NEW p \in Processes PROVE IInv /\ Call(p) => IInv'
<1> SUFFICES ASSUME IInv, Call(p)
             PROVE  IInv'
  OBVIOUS
<1>1. PICK t \in Ids \cup {UnknownId, Fetch} :
        /\ t = Fetch => \A q \in Processes : stage[q] = "idle" \/ task[q] # Fetch
        /\ task' = [task EXCEPT ![p] = t]
  BY DEF Call
<1>2. /\ stage[p] = "idle" /\ stage' = [stage EXCEPT ![p] = "waiting"]
      /\ calls' = calls + 1 /\ calls < MaxCalls
      /\ opened' = [opened EXCEPT ![p] = FALSE]
      /\ UNCHANGED <<clock, file, lock, memory, watermark, known, faults>>
  BY DEF Call, GoTo
<1>3. TypeOK'
  BY <1>1, <1>2, MockSourceAssumption DEF IInv, TypeOK, Stages
<1>4. Stored' = Stored
  BY <1>2 DEF Stored
<1>5. \A q \in Processes \ {p} : stage'[q] = stage[q] /\ task'[q] = task[q]
  BY <1>1, <1>2 DEF IInv, TypeOK
<1>6. stage'[p] = "waiting" /\ task'[p] = t
  BY <1>1, <1>2 DEF IInv, TypeOK
<1>7. Exclusion'
  BY <1>2, <1>5, <1>6 DEF IInv, Exclusion, Inside
<1>8. MemoryIsCurrent'
  BY <1>2, <1>5, <1>6 DEF IInv, MemoryIsCurrent
<1>9. FetchedInOrder'
  BY <1>1, <1>2, <1>4, <1>5, <1>6 DEF IInv, FetchedInOrder
<1> QED
  BY <1>2, <1>3, <1>4, <1>7, <1>8, <1>9 DEF IInv, StampedInThePast, WatermarkIsReached

LEMMA AcquireStep == ASSUME NEW p \in Processes PROVE IInv /\ Acquire(p) => IInv'
<1> SUFFICES ASSUME IInv, Acquire(p)
             PROVE  IInv'
  OBVIOUS
<1>1. /\ stage[p] = "waiting" /\ lock = NoProcess /\ lock' = p
      /\ stage' = [stage EXCEPT ![p] = "loading"]
      /\ UNCHANGED <<clock, file, task, opened, memory, watermark, known, calls, faults>>
  BY DEF Acquire, Lockable, GoTo
<1>2. TypeOK'
  BY <1>1 DEF IInv, TypeOK, Stages, Inside
<1>3. Stored' = Stored
  BY <1>1 DEF Stored
<1>4. stage'[p] = "loading" /\ \A q \in Processes \ {p} : stage'[q] = stage[q]
  BY <1>1 DEF IInv, TypeOK
<1>5. Exclusion'
  BY <1>1, <1>4, MockSourceAssumption DEF IInv, Exclusion, Inside
<1>6. MemoryIsCurrent'
  BY <1>1, <1>4 DEF IInv, MemoryIsCurrent
<1>7. FetchedInOrder'
  BY <1>1, <1>3, <1>4 DEF IInv, FetchedInOrder
<1> QED
  BY <1>1, <1>2, <1>3, <1>5, <1>6, <1>7 DEF IInv, StampedInThePast, WatermarkIsReached

LEMMA LoadStep == ASSUME NEW p \in Processes PROVE IInv /\ Load(p) => IInv'
<1> SUFFICES ASSUME IInv, Load(p)
             PROVE  IInv'
  OBVIOUS
<1>1. /\ stage[p] = "loading" /\ memory' = [memory EXCEPT ![p] = Stored]
      /\ stage' = [stage EXCEPT ![p] = IF file = NoFile THEN "seeding" ELSE "loaded"]
      /\ UNCHANGED <<clock, file, lock, task, opened, watermark, known, calls, faults>>
  BY DEF Load, Contents, Stored, GoTo
<1>2. TypeOK'
  BY <1>1, StoredType DEF IInv, TypeOK, Stages, Inside
<1>3. Stored' = Stored
  BY <1>1 DEF Stored
<1>4. /\ stage'[p] \in {"seeding", "loaded"}
      /\ stage'[p] = "seeding" <=> file = NoFile
      /\ memory'[p] = Stored
      /\ \A q \in Processes \ {p} : stage'[q] = stage[q] /\ memory'[q] = memory[q]
  BY <1>1 DEF IInv, TypeOK
<1>5. Exclusion'
  BY <1>1, <1>4 DEF IInv, Exclusion, Inside
<1>6. MemoryIsCurrent'
  BY <1>1, <1>4 DEF IInv, MemoryIsCurrent, Stored
<1>7. FetchedInOrder'
  BY <1>1, <1>3, <1>4 DEF IInv, FetchedInOrder
<1> QED
  BY <1>1, <1>2, <1>3, <1>5, <1>6, <1>7 DEF IInv, StampedInThePast, WatermarkIsReached

LEMMA SeedStep ==
    ASSUME NEW p \in Processes
    PROVE  IInv /\ Replace(p) /\ stage[p] = "seeding" => IInv' /\ Stored' = Stored
<1> SUFFICES ASSUME IInv, Replace(p), stage[p] = "seeding"
             PROVE  IInv' /\ Stored' = Stored
  OBVIOUS
<1>1. /\ file = NoFile /\ memory[p] = Seed /\ file' = Seed
      /\ stage' = [stage EXCEPT ![p] = "loaded"]
      /\ UNCHANGED <<clock, lock, task, opened, memory, watermark, known, calls, faults>>
  BY DEF Replace, GoTo, IInv, MemoryIsCurrent
<1>2. TypeOK' /\ file' # NoFile
  BY <1>1, StoredType, MockSourceAssumption DEF IInv, TypeOK, Stages, Inside
<1>3. Stored' = Stored
  BY <1>1, <1>2 DEF Stored
<1>4. stage'[p] = "loaded" /\ \A q \in Processes \ {p} : stage'[q] = stage[q]
  BY <1>1 DEF IInv, TypeOK
<1>5. Exclusion'
  BY <1>1, <1>4 DEF IInv, Exclusion, Inside
<1>6. MemoryIsCurrent'
  <2>1. \A q \in Processes \ {p} : stage'[q] \notin Inside
    BY <1>4, Alone DEF Inside
  <2> QED
    BY <1>1, <1>2, <1>4, <2>1 DEF MemoryIsCurrent, Inside
<1>7. FetchedInOrder'
  BY <1>1, <1>3, <1>4 DEF IInv, FetchedInOrder
<1> QED
  BY <1>1, <1>2, <1>3, <1>5, <1>6, <1>7 DEF IInv, StampedInThePast, WatermarkIsReached

\* What a change writes: one row more recent than all.
LEMMA ChangeWritten ==
    ASSUME IInv, NEW p \in Processes, Replace(p), stage[p] = "saving"
    PROVE  /\ file # NoFile /\ file' \in Rows /\ file' # NoFile
           /\ task[p] \in Ids
           /\ \E now \in 0..clock :
                /\ \A id \in Ids : file[id].ts <= now
                /\ file' = [file EXCEPT ![task[p]] = [val |-> @.val + 1, ts |-> now]]
BY MockSourceAssumption DEF Replace, IInv, TypeOK, MemoryIsCurrent

LEMMA SaveStep ==
    ASSUME NEW p \in Processes
    PROVE  IInv /\ Replace(p) /\ stage[p] = "saving" => IInv'
<1> SUFFICES ASSUME IInv, Replace(p), stage[p] = "saving"
             PROVE  IInv'
  OBVIOUS
<1> DEFINE changed == task[p]
<1>1. PICK now \in 0..clock :
        /\ \A id \in Ids : file[id].ts <= now
        /\ file' = [file EXCEPT ![changed] = [val |-> @.val + 1, ts |-> now]]
  BY ChangeWritten
<1>2. /\ changed \in Ids /\ file \in Rows /\ file' \in Rows
      /\ Stored = file /\ Stored' = file'
  BY ChangeWritten DEF IInv, TypeOK, Stored
<1>3. /\ stage' = [stage EXCEPT ![p] = "leaving"]
      /\ UNCHANGED <<clock, lock, task, opened, memory, watermark, known, calls, faults>>
  BY DEF Replace, GoTo
<1>4. TypeOK'
  BY <1>2, <1>3 DEF IInv, TypeOK, Stages, Inside
<1>5. /\ clock \in Nat /\ now \in Nat /\ now <= clock /\ watermark \in Nat \cup {NoTime}
      /\ \A id \in Ids : file[id].ts \in Nat /\ file'[id].ts \in Nat
      /\ \A q \in Processes, id \in Ids : memory[q][id].ts \in Nat
  BY <1>2 DEF IInv, TypeOK, Rows, Row
<1>6. /\ file'[changed].ts = now
      /\ \A id \in Ids \ {changed} : file'[id] = file[id]
  BY <1>1, <1>2 DEF Rows
<1>7. \A id \in Ids : file[id].ts <= file'[id].ts
  BY <1>1, <1>5, <1>6
<1>8. stage'[p] = "leaving" /\ \A q \in Processes \ {p} : stage'[q] = stage[q]
  BY <1>3 DEF IInv, TypeOK
<1>9. Exclusion'
  BY <1>3, <1>8 DEF IInv, Exclusion, Inside
<1>10. MemoryIsCurrent'
  <2>1. \A q \in Processes \ {p} : stage'[q] \notin Inside
    BY <1>8, Alone DEF Inside
  <2> QED
    BY <1>8, <2>1 DEF MemoryIsCurrent, Inside
<1>11. StampedInThePast'
  <2> SUFFICES ASSUME NEW id \in Ids
               PROVE  file'[id].ts <= clock
    BY <1>2, <1>3 DEF StampedInThePast
  <2>1. file[id].ts <= clock
    BY <1>2 DEF IInv, StampedInThePast
  <2> QED
    BY <1>5, <1>6, <2>1
<1>12. FetchedInOrder'
  <2>1. ASSUME NEW q \in Processes, stage[q] = "fetched", NEW id \in Ids
        PROVE  memory[q][id] = file'[id] \/ \A x \in Ids : memory[q][x].ts <= file'[id].ts
    <3>1. \A y \in Ids : memory[q][y] = file[y] \/ \A x \in Ids : memory[q][x].ts <= file[y].ts
      BY <1>2, <2>1 DEF IInv, FetchedInOrder
    <3>2. CASE id = changed
      BY <1>1, <1>5, <1>6, <3>1, <3>2
    <3>3. CASE id # changed
      BY <1>6, <2>1, <3>1, <3>3
    <3> QED
      BY <3>2, <3>3
  <2> QED
    BY <1>2, <1>3, <1>8, <2>1 DEF IInv, FetchedInOrder
<1>13. WatermarkIsReached'
  <2> SUFFICES ASSUME watermark # NoTime
               PROVE  /\ \E x \in Ids : file'[x].ts >= watermark
                      /\ \A id \in Ids : known[id] = file'[id] \/ file'[id].ts >= watermark
    BY <1>2, <1>3 DEF WatermarkIsReached
  <2>1. PICK x \in Ids : file[x].ts >= watermark
    BY <1>2 DEF IInv, WatermarkIsReached
  <2>2. now >= watermark /\ file'[x].ts >= watermark
    BY <1>1, <1>5, <1>7, <2>1
  <2>3. \A id \in Ids : known[id] = file[id] \/ file[id].ts >= watermark
    BY <1>2 DEF IInv, WatermarkIsReached
  <2> QED
    BY <1>6, <2>2, <2>3
<1> QED
  BY <1>4, <1>9, <1>10, <1>11, <1>12, <1>13 DEF IInv

LEMMA TouchStep == ASSUME NEW p \in Processes PROVE IInv /\ Touch(p) => IInv'
<1> SUFFICES ASSUME IInv, Touch(p)
             PROVE  IInv'
  OBVIOUS
<1> DEFINE changed == [file EXCEPT ![task[p]] = [val |-> @.val + 1, ts |-> clock]]
<1>1. /\ stage[p] = "loaded" /\ task[p] \in Ids
      /\ stage' = [stage EXCEPT ![p] = "saving"]
      /\ UNCHANGED <<clock, file, lock, task, opened, watermark, known, calls, faults>>
  BY DEF Touch, GoTo
<1>2. file # NoFile /\ memory[p] = file /\ file \in Rows /\ Stored = file
  BY <1>1 DEF IInv, MemoryIsCurrent, TypeOK, Stored
<1>3. memory' = [memory EXCEPT ![p] = changed]
  BY <1>2 DEF Touch, IInv, TypeOK
<1>4. changed \in Rows
  BY <1>1, <1>2 DEF IInv, TypeOK, Rows, Row
<1>5. TypeOK'
  BY <1>1, <1>3, <1>4 DEF IInv, TypeOK, Stages, Inside
<1>6. Stored' = Stored
  BY <1>1 DEF Stored
<1>7. /\ stage'[p] = "saving" /\ memory'[p] = changed
      /\ \A q \in Processes \ {p} : stage'[q] = stage[q] /\ memory'[q] = memory[q]
  BY <1>1, <1>3 DEF IInv, TypeOK
<1>8. Exclusion'
  BY <1>1, <1>7 DEF IInv, Exclusion, Inside
<1>9. MemoryIsCurrent'
  <2>1. clock \in 0..clock /\ \A id \in Ids : file[id].ts <= clock
    BY <1>2 DEF IInv, TypeOK, StampedInThePast
  <2>2. \A q \in Processes \ {p} : stage'[q] \notin Inside
    BY <1>1, <1>7, Alone DEF Inside
  <2> QED
    BY <1>1, <1>2, <1>7, <2>1, <2>2 DEF MemoryIsCurrent, Inside
<1>10. FetchedInOrder'
  BY <1>1, <1>6, <1>7 DEF IInv, FetchedInOrder
<1> QED
  BY <1>1, <1>5, <1>6, <1>8, <1>9, <1>10 DEF IInv, StampedInThePast, WatermarkIsReached

LEMMA TouchUnknownStep == ASSUME NEW p \in Processes PROVE IInv /\ TouchUnknown(p) => IInv'
<1> SUFFICES ASSUME IInv, TouchUnknown(p)
             PROVE  IInv'
  OBVIOUS
<1>1. /\ stage[p] = "loaded" /\ stage' = [stage EXCEPT ![p] = "leaving"]
      /\ UNCHANGED <<clock, file, lock, task, opened, memory, watermark, known, calls, faults>>
  BY DEF TouchUnknown, GoTo
<1>2. TypeOK' /\ Stored' = Stored
  BY <1>1 DEF IInv, TypeOK, Stages, Inside, Stored
<1>3. stage'[p] = "leaving" /\ \A q \in Processes \ {p} : stage'[q] = stage[q]
  BY <1>1 DEF IInv, TypeOK
<1>4. Exclusion' /\ MemoryIsCurrent'
  BY <1>1, <1>3 DEF IInv, Exclusion, MemoryIsCurrent, Inside
<1>5. FetchedInOrder'
  BY <1>1, <1>2, <1>3 DEF IInv, FetchedInOrder
<1> QED
  BY <1>1, <1>2, <1>4, <1>5 DEF IInv, StampedInThePast, WatermarkIsReached

LEMMA LeaveStep == ASSUME NEW p \in Processes PROVE IInv /\ Leave(p) => IInv'
<1> SUFFICES ASSUME IInv, Leave(p)
             PROVE  IInv'
  OBVIOUS
<1>1. /\ stage[p] \in {"loaded", "leaving"}
      /\ stage[p] = "loaded" => ~opened[p] \/ task[p] = Fetch
      /\ stage' = [stage EXCEPT ![p] = IF stage[p] = "leaving" THEN "idle"
                                       ELSE IF opened[p] THEN "fetched" ELSE "waiting"]
      /\ opened' = [opened EXCEPT ![p] = TRUE]
      /\ UNCHANGED <<clock, file, task, memory, watermark, known, calls, faults>>
  BY DEF Leave, GoTo
<1>2. lock = p /\ lock' = NoProcess
  BY <1>1 DEF Leave, Released, IInv, Exclusion, Inside
<1>3. TypeOK' /\ Stored' = Stored
  BY <1>1, <1>2 DEF IInv, TypeOK, Stages, Stored
<1>4. /\ stage'[p] \in {"idle", "waiting", "fetched"}
      /\ stage'[p] = "fetched" => stage[p] = "loaded" /\ task[p] = Fetch
      /\ \A q \in Processes \ {p} : stage'[q] = stage[q]
  BY <1>1 DEF IInv, TypeOK
<1>5. \A q \in Processes \ {p} : stage[q] \notin Inside
  BY <1>1, Alone DEF Inside
<1>6. Exclusion' /\ MemoryIsCurrent'
  BY <1>2, <1>4, <1>5, MockSourceAssumption DEF Exclusion, MemoryIsCurrent, Inside
<1>7. stage'[p] = "fetched" => memory[p] = Stored
  BY <1>4 DEF IInv, MemoryIsCurrent, Stored
<1>8. \E x \in Ids : Stored[x].ts >= watermark
  <2>1. CASE watermark = NoTime
    <3>1. PICK x \in Ids : TRUE
      BY MockSourceAssumption
    <3>2. Stored[x].ts \in Nat
      BY StoredType DEF IInv, Rows, Row
    <3> QED
      BY <2>1, <3>2 DEF NoTime
  <2>2. CASE watermark # NoTime
    BY <2>2 DEF IInv, WatermarkIsReached
  <2> QED
    BY <2>1, <2>2
<1>9. FetchedInOrder'
  <2>1. \A q, r \in Processes :
          (stage'[q] # "idle" /\ stage'[r] # "idle" /\ task[q] = Fetch /\ task[r] = Fetch) => q = r
    BY <1>1, <1>4 DEF IInv, FetchedInOrder
  <2> QED
    BY <1>1, <1>3, <1>4, <1>7, <1>8, <2>1 DEF IInv, FetchedInOrder
<1> QED
  BY <1>1, <1>3, <1>6, <1>9 DEF IInv, StampedInThePast, WatermarkIsReached

LEMMA PublishStep == ASSUME NEW p \in Processes PROVE IInv /\ Publish(p) => IInv'
<1> SUFFICES ASSUME IInv, Publish(p)
             PROVE  IInv'
  OBVIOUS
<1> DEFINE rows == memory[p]
           since == Since(watermark)
           new == Changed(rows, since)
<1>1. /\ stage[p] = "fetched" /\ stage' = [stage EXCEPT ![p] = "idle"]
      /\ known' = [id \in Ids |-> IF id \in new THEN rows[id] ELSE known[id]]
      /\ \/ new = {} /\ watermark' = watermark
         \/ \E x \in new :
              /\ \A y \in new : rows[y].ts <= rows[x].ts
              /\ watermark' = IF watermark > rows[x].ts THEN watermark ELSE rows[x].ts
      /\ UNCHANGED <<clock, file, lock, task, opened, memory, calls, faults>>
  BY DEF Publish, GoTo
<1>2. /\ rows \in Rows /\ \A id \in Ids : rows[id] \in Row /\ rows[id].ts \in Nat
      /\ watermark \in Int /\ watermark >= NoTime /\ Stored \in Rows
      /\ \A id \in Ids : Stored[id].ts \in Nat
  BY StoredType DEF IInv, TypeOK, Rows, Row, NoTime
<1>3. /\ \E x \in Ids : rows[x].ts >= watermark
      /\ \A id \in Ids : rows[id] = Stored[id] \/ \A x \in Ids : rows[x].ts <= Stored[id].ts
  BY <1>1 DEF IInv, FetchedInOrder
<1>4. Stored' = Stored
  BY <1>1 DEF Stored
<1>5. new \subseteq Ids /\ \A id \in Ids : rows[id].ts >= watermark => id \in new
  BY <1>2, MockSourceAssumption DEF Changed, Since, NoTime
<1>6. PICK x \in new :
        /\ \A y \in new : rows[y].ts <= rows[x].ts
        /\ watermark' = rows[x].ts /\ watermark <= watermark'
  <2>1. PICK z \in new : rows[z].ts >= watermark
    BY <1>3, <1>5
  <2>2. PICK x \in new :
          /\ \A y \in new : rows[y].ts <= rows[x].ts
          /\ watermark' = IF watermark > rows[x].ts THEN watermark ELSE rows[x].ts
    BY <1>1, <2>1
  <2> QED
    BY <1>2, <1>5, <2>1, <2>2
<1>7. known' \in Rows /\ watermark' \in Nat /\ watermark' # NoTime
  BY <1>1, <1>2, <1>5, <1>6 DEF IInv, TypeOK, Rows, NoTime
<1>8. TypeOK'
  BY <1>1, <1>7 DEF IInv, TypeOK, Stages
<1>9. stage'[p] = "idle" /\ \A q \in Processes \ {p} : stage'[q] = stage[q]
  BY <1>1 DEF IInv, TypeOK
<1>10. Exclusion' /\ MemoryIsCurrent'
  BY <1>1, <1>9 DEF IInv, Exclusion, MemoryIsCurrent, Inside
<1>11. FetchedInOrder'
  <2>1. \A q \in Processes \ {p} : stage[q] # "fetched"
    BY <1>1 DEF IInv, FetchedInOrder
  <2> QED
    BY <1>1, <1>9, <2>1 DEF IInv, FetchedInOrder
<1>12. ASSUME NEW id \in Ids
       PROVE  known'[id] = Stored[id] \/ Stored[id].ts >= watermark'
  <2>1. CASE rows[id] = Stored[id] /\ id \in new
    BY <1>1, <2>1
  <2>2. CASE rows[id] = Stored[id] /\ id \notin new
    <3>1. Stored[id].ts < watermark /\ watermark # NoTime
      BY <1>2, <1>5, <2>2 DEF NoTime
    <3>2. known[id] = Stored[id]
      BY <1>2, <3>1 DEF IInv, WatermarkIsReached
    <3> QED
      BY <1>1, <2>2, <3>2
  <2>3. CASE \A y \in Ids : rows[y].ts <= Stored[id].ts
    BY <1>2, <1>5, <1>6, <2>3
  <2> QED
    BY <1>3, <2>1, <2>2, <2>3
<1>13. WatermarkIsReached'
  <2>1. Stored[x].ts >= watermark'
    BY <1>2, <1>3, <1>5, <1>6
  <2> QED
    BY <1>4, <1>5, <1>12, <2>1 DEF WatermarkIsReached
<1> QED
  BY <1>1, <1>4, <1>8, <1>10, <1>11, <1>13 DEF IInv, StampedInThePast

LEMMA DieStep == ASSUME NEW p \in Processes PROVE IInv /\ Die(p) => IInv'
<1> SUFFICES ASSUME IInv, Die(p)
             PROVE  IInv'
  OBVIOUS
<1>1. /\ stage' = [stage EXCEPT ![p] = "idle"] /\ lock' = Released(p)
      /\ faults' = faults + 1 /\ faults < MaxFaults
      /\ UNCHANGED <<clock, file, task, opened, memory, watermark, known, calls>>
  BY DEF Die, GoTo
<1>2. TypeOK' /\ Stored' = Stored
  BY <1>1, MockSourceAssumption DEF IInv, TypeOK, Stages, Stored, Released
<1>3. stage'[p] = "idle" /\ \A q \in Processes \ {p} : stage'[q] = stage[q]
  BY <1>1 DEF IInv, TypeOK
<1>4. Exclusion'
  BY <1>1, <1>3, MockSourceAssumption DEF IInv, Exclusion, Inside, Released
<1>5. MemoryIsCurrent'
  BY <1>1, <1>3 DEF IInv, MemoryIsCurrent
<1>6. FetchedInOrder'
  BY <1>1, <1>2, <1>3 DEF IInv, FetchedInOrder
<1> QED
  BY <1>1, <1>2, <1>4, <1>5, <1>6 DEF IInv, StampedInThePast, WatermarkIsReached

LEMMA StutterStep == IInv /\ UNCHANGED vars => IInv'
<1> SUFFICES ASSUME IInv, UNCHANGED vars
             PROVE  IInv'
  OBVIOUS
<1>1. /\ UNCHANGED <<clock, file, lock, stage, task, opened, memory, watermark, known, calls, faults>>
      /\ Stored' = Stored
  BY DEF vars, Stored
<1> QED
  BY <1>1 DEF IInv, TypeOK, Exclusion, MemoryIsCurrent, StampedInThePast, FetchedInOrder,
              WatermarkIsReached

LEMMA ReplaceStep == ASSUME NEW p \in Processes PROVE IInv /\ Replace(p) => IInv'
BY SeedStep, SaveStep DEF Replace

\* IInv is an invariant of every instance of MockSource.
THEOREM Invariance == Spec => []IInv
<1>1. IInv /\ [Next]_vars => IInv'
  BY TickStep, CallStep, AcquireStep, LoadStep, ReplaceStep, TouchStep, TouchUnknownStep, LeaveStep,
     PublishStep, DieStep, StutterStep DEF Next, Step
<1> QED
  BY <1>1, Initially, PTL DEF Spec

\* No sync overlooks a change: what the published state does not show lies
\* behind the watermark less the overlap (_filter_changed).
THEOREM NothingEscapes == Spec => []NothingIsHidden
<1>1. IInv => NothingIsHidden
  <2> SUFFICES ASSUME IInv, watermark # NoTime, NEW id \in Ids, known[id] # Stored[id]
               PROVE  id \in Changed(Stored, Since(watermark))
    BY DEF NothingIsHidden
  <2>1. Stored[id].ts >= watermark
    BY DEF IInv, WatermarkIsReached
  <2>2. Stored[id].ts \in Nat /\ watermark \in Nat
    BY StoredType DEF IInv, TypeOK, Rows, Row
  <2> QED
    BY <2>1, <2>2, MockSourceAssumption DEF Changed, Since
<1> QED
  BY <1>1, Invariance, PTL

-----------------------------------------------------------------------------
(* Refinement                                                              *)

LEMMA StoredChanges == IInv /\ Next => [Catalogue!Next]_Stored
<1> SUFFICES ASSUME IInv, Next, Stored' # Stored
             PROVE  Catalogue!Next
  OBVIOUS
<1>1. PICK p \in Processes : Replace(p)
  BY DEF Next, Step, Tick, Call, Acquire, Load, Touch, TouchUnknown, Leave, Publish, Die, Stored
<1>2. stage[p] = "saving"
  BY <1>1, SeedStep DEF Replace
<1>3. PICK now \in 0..clock :
        /\ \A id \in Ids : file[id].ts <= now
        /\ file' = [file EXCEPT ![task[p]] = [val |-> @.val + 1, ts |-> now]]
  BY <1>1, <1>2, ChangeWritten
<1>4. /\ task[p] \in Ids /\ Stored = file /\ Stored' = file' /\ file \in Rows
  BY <1>1, <1>2, ChangeWritten DEF Stored, IInv, TypeOK
<1>5. file'[task[p]] = [val |-> file[task[p]].val + 1, ts |-> now]
  BY <1>3, <1>4 DEF Rows
<1>6. file' = [file EXCEPT ![task[p]] = file'[task[p]]]
  BY <1>3, <1>4, <1>5 DEF Rows
<1>7. Catalogue!Change(task[p])
  BY <1>3, <1>4, <1>5, <1>6 DEF Catalogue!Change
<1> QED
  BY <1>4, <1>7 DEF Catalogue!Next

\* The state file under its lock is a catalogue changed one step at a time.
THEOREM Refinement == Spec => ChangesAreSerial
<1>1. Init => Catalogue!Init
  BY DEF Init, Catalogue!Init, Stored
<1>2. IInv /\ [Next]_vars => [Catalogue!Next]_Stored
  BY StoredChanges DEF vars, Stored
<1> QED
  BY <1>1, <1>2, Invariance, PTL DEF Spec, ChangesAreSerial, Catalogue!Spec
=============================================================================
