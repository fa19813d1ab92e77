------------------------- MODULE SynchronizerProofs -------------------------
(***************************************************************************)
(* Proofs, for all values of the constants, of the safety properties of    *)
(* Synchronizer.                                                           *)
(*                                                                         *)
(* IInv is inductive as it stands and gives type correctness,              *)
(* ReferencesResolve and SuccessMeansPublished, whatever users, broker and *)
(* consumer do.  WInv is inductive relative to IInv under the assumptions  *)
(* of Orderly and gives WatermarkHidesNothing, for catalogues of any       *)
(* number of pages: what a fetch has passed and not read as it is now was  *)
(* saved in the present second (PagesStay), so it is not older than any    *)
(* message the watermark is taken from.                                    *)
(*                                                                         *)
(* What is published stays published (PublishedStays), so a run other than *)
(* the one that moves keeps its part of the invariant (ReadsStay,          *)
(* HandledStays, SnapshotStays); each action is left with its own run.     *)
(***************************************************************************)
EXTENDS Synchronizer, OffsetProofs, OneCServiceProofs

-----------------------------------------------------------------------------
(* Rows, events and tables                                                 *)

\* The event of a stored object, and back.
LEMMA EventOfRow ==
    ASSUME NEW id \in Ids, NEW row \in Row, row.ts # NoTime
    PROVE  /\ EventOf(id, row) \in Events
           /\ EventOf(id, row).id = id /\ EventOf(id, row).ts = row.ts
           /\ EventOf(id, row).form = row.form /\ EventOf(id, row).kind = "event"
           /\ RowOf(EventOf(id, row)) = row
BY DEF EventOf, Events, Message, Kinds, Row, RowOf

\* The fields of an event.
LEMMA EventType ==
    ASSUME NEW m \in Events
    PROVE  /\ m \in Message /\ m.kind = "event"
           /\ m.id \in Ids /\ m.ts \in Nat \ {NoTime} /\ m.ts \in Nat /\ m.ts > 0
           /\ RowOf(m) \in Row /\ RowOf(m) # NoRow /\ RowOf(m).ts = m.ts
           /\ RowOf(m).form = m.form
           /\ EventOf(m.id, RowOf(m)) = m
<1>1. m \in Message /\ m.kind = "event"
  BY DEF Events
<1>2. RowOf(m) \in Row
  BY <1>1 DEF Message, RowOf, Row
<1>3. EventOf(m.id, RowOf(m)) = m
  BY <1>1 DEF Message, RowOf, EventOf
<1> QED
  BY <1>1, <1>2, <1>3, RowStoreAssumption DEF Message, RowOf, NoTime

LEMMA EntityType ==
    ASSUME NEW id \in Ids
    PROVE  /\ EntityOf(id) \in Entities
           /\ id \in IdsOf(EntityOf(id))
           /\ \A e \in Entities : id \in IdsOf(e) => e = EntityOf(id)
           /\ (id \in FormIds) <=> (id \in IdsOf("ownership_forms"))
           /\ (id \notin FormIds) <=> (id \in IdsOf("counterparties"))
BY DEF EntityOf, Entities, IdsOf

\* No row of a is lost or older in b.
KeepsUp(a, b) == \A id \in Ids : a[id] # NoRow => b[id] # NoRow /\ b[id].ts >= a[id].ts

\* What an upsert does to a table.
LEMMA UpsertKeepsUp ==
    ASSUME NEW table \in Tables, NEW m \in Events
    PROVE  /\ Upsert(table, m) \in Tables
           /\ KeepsUp(table, Upsert(table, m))
           /\ Reflects(Upsert(table, m), m)
           /\ \A id \in Ids : \/ Upsert(table, m)[id] = table[id]
                              \/ id = m.id /\ Upsert(table, m)[id] = RowOf(m)
<1>1. /\ m.kind = "event" /\ m.id \in Ids /\ m.ts \in Nat \ {NoTime}
      /\ RowOf(m) \in Row /\ RowOf(m) # NoRow /\ RowOf(m).ts = m.ts
  BY EventType
<1>2. \A id \in Ids : table[id] # NoRow => table[id] \in Row /\ table[id].ts \in Nat
  BY DEF Tables, Row
<1>3. CASE TakesEffect(table, m)
  <2>1. Upsert(table, m) = [table EXCEPT ![m.id] = RowOf(m)]
    BY <1>3 DEF Upsert
  <2>2. table[m.id] # NoRow => m.ts >= table[m.id].ts
    BY <1>1, <1>2, <1>3 DEF TakesEffect, NoTime
  <2>3. /\ Upsert(table, m) \in Tables /\ Upsert(table, m)[m.id] = RowOf(m)
        /\ \A id \in Ids \ {m.id} : Upsert(table, m)[id] = table[id]
    BY <1>1, <2>1 DEF Tables
  <2> QED
    BY <1>1, <1>2, <2>2, <2>3 DEF KeepsUp, Reflects
<1>4. CASE ~TakesEffect(table, m)
  <2>1. Upsert(table, m) = table
    BY <1>4 DEF Upsert
  <2>2. table[m.id] # NoRow /\ table[m.id].ts >= m.ts
    BY <1>1, <1>2, <1>4 DEF TakesEffect, NoTime
  <2> QED
    BY <1>1, <1>2, <2>1, <2>2 DEF KeepsUp, Reflects
<1> QED
  BY <1>3, <1>4

\* A table that keeps up reflects what it reflected.
LEMMA ReflectsStays ==
    ASSUME NEW a \in Tables, NEW b \in Tables, KeepsUp(a, b), NEW m \in Events, Reflects(a, m)
    PROVE  Reflects(b, m)
<1>1. a[m.id] \in Row /\ b[m.id] \in Row /\ b[m.id] # NoRow /\ b[m.id].ts >= a[m.id].ts
  BY EventType DEF KeepsUp, Reflects, Tables
<1> QED
  BY <1>1, EventType DEF Reflects, Row

LEMMA KeepsUpWithItself == ASSUME NEW a \in Tables PROVE KeepsUp(a, a)
BY DEF KeepsUp, Tables, Row

-----------------------------------------------------------------------------
(* What stays as it is when others move                                    *)

\* Time passes, topics grow, the database keeps up.
Onward ==
    /\ clock' >= clock
    /\ db' \in Tables /\ KeepsUp(db, db')
    /\ \A e \in Entities : \A o \in DOMAIN topic[e] :
           o \in DOMAIN topic'[e] /\ topic'[e][o] = topic[e][o]

SameRun(r) ==
    /\ stage'[r] = stage[r] /\ since'[r] = since[r] /\ offset'[r] = offset[r]
    /\ fetched'[r] = fetched[r] /\ changed'[r] = changed[r]
    /\ queue'[r] = queue[r] /\ errors'[r] = errors[r]

\* The bounds are numbers, and so is the clock.
LEMMA BoundTypes ==
    /\ SaveGap \in Nat /\ SaveTime \in Nat /\ MaxClock \in Nat /\ MaxStarts \in Nat
    /\ MaxRedeliveries \in Nat /\ MaxLockLosses \in Nat /\ MaxClock > 0
    /\ TypeOK => clock \in Nat
<1>1. /\ SaveGap \in Nat /\ SaveTime \in Nat /\ MaxClock \in Nat /\ MaxStarts \in Nat
      /\ MaxRedeliveries \in Nat /\ MaxLockLosses \in Nat /\ MaxClock > 0
  BY SynchronizerAssumption, Zenon
<1> QED
  BY <1>1 DEF TypeOK

LEMMA OnwardWithoutEffect == TypeOK /\ UNCHANGED <<clock, topic, db>> => Onward
BY KeepsUpWithItself DEF TypeOK, Onward

LEMMA PublishedStays ==
    ASSUME TypeOK, Onward
    PROVE  \A e \in Entities, m \in Events : Published(e, m) => Published(e, m)'
<1> SUFFICES ASSUME NEW e \in Entities, NEW m \in Events, Published(e, m)
             PROVE  Published(e, m)'
  OBVIOUS
<1>1. CASE \E o \in DOMAIN topic[e] : topic[e][o] = m
  BY <1>1 DEF Published, Onward
<1>2. CASE Reflects(db, m)
  <2>1. Reflects(db', m)
    BY <1>2, ReflectsStays DEF TypeOK, Onward
  <2> QED
    BY <2>1 DEF Published, Reflects
<1> QED
  BY <1>1, <1>2 DEF Published

LEMMA ResolvedStays ==
    ASSUME TypeOK, Onward
    PROVE  \A m \in Events : Resolved(m) => Resolved(m)'
<1>1. \A m \in Events : m.form # NoForm => m.form \in Ids
  BY DEF Events, Message, Ids
<1> QED
  BY <1>1 DEF Resolved, Onward, KeepsUp

LEMMA ReadsStay ==
    ASSUME TypeOK, TypeOK', Onward, NEW r \in Runs, Reads(r), SameRun(r)
    PROVE  Reads(r)'
<1>1. \A e \in Entities : since[r][e] \in Nat /\ fetched[r][e] \subseteq Events
  BY DEF TypeOK
<1>2. \A e \in Entities : \A m \in fetched[r][e] : m.ts \in Nat
  BY <1>1, EventType
<1>3. clock \in Nat /\ clock' \in Nat /\ clock <= clock'
  BY BoundTypes DEF TypeOK, Onward
<1>4. \A e \in Entities : since'[r][e] <= clock'
  BY <1>1, <1>3 DEF Reads, SameRun
<1>5. \A e \in Entities : \A m \in fetched'[r][e] : Sorted(e, m) /\ m.ts <= clock'
  <2> SUFFICES ASSUME NEW e \in Entities, NEW m \in fetched[r][e]
               PROVE  Sorted(e, m) /\ m.ts <= clock'
    BY DEF SameRun
  <2>1. Sorted(e, m) /\ m.ts <= clock
    BY DEF Reads
  <2>2. m.ts \in Nat
    BY <1>2
  <2> QED
    BY <1>3, <2>1, <2>2
<1>6. \A m \in queue'[r] : Resolved(m)' /\ (m.id \in FormIds => m.form = NoForm)
  BY ResolvedStays DEF Reads, SameRun, TypeOK
<1> QED
  BY <1>4, <1>5, <1>6 DEF Reads, SameRun, Sorted

LEMMA HandledStays ==
    ASSUME TypeOK, Onward, NEW r \in Runs, Handled(r), SameRun(r)
    PROVE  Handled(r)'
<1>1. \A e \in Entities : fetched[r][e] \subseteq Events
  BY DEF TypeOK
<1>2. \A e \in Entities : \A m \in fetched'[r][e] : Published(e, m) => Published(e, m)'
  BY <1>1, PublishedStays DEF SameRun
<1>3. \A m \in fetched'[r]["ownership_forms"] :
          Published("ownership_forms", m) => Published("ownership_forms", m)'
  BY <1>2 DEF Entities
<1>4. \A m \in fetched'[r]["counterparties"] :
          Published("counterparties", m) => Published("counterparties", m)'
  BY <1>2 DEF Entities
<1> QED
  BY <1>3, <1>4 DEF Handled, SameRun

\* A step that leaves every run but one alone.
LEMMA OthersStay ==
    ASSUME IInv, TypeOK', Onward, NEW r, \A q \in Runs \ {r} : SameRun(q)
    PROVE  \A q \in Runs \ {r} : Reads(q)' /\ Handled(q)'
BY ReadsStay, HandledStays DEF IInv

-----------------------------------------------------------------------------
(* The initial states                                                      *)

LEMMA MaxUpTo ==
    ASSUME NEW b \in Nat, NEW S \in SUBSET (0..b), S # {}
    PROVE  Max(S) \in S /\ \A n \in S : n <= Max(S)
BY MaxOfOffsets, b + 1 \in Nat, 0..((b + 1) - 1) = 0..b

LEMMA InitialRows ==
    ASSUME Init, NEW id \in Ids, source[id] # NoRow
    PROVE  source[id] \in Row /\ source[id].ts = 1 /\ (id \in FormIds => source[id].form = NoForm)
BY SynchronizerAssumption DEF Init, Tables

LEMMA InitialWatermark ==
    ASSUME Init
    PROVE  /\ watermark \in [Entities -> Nat]
           /\ \A e \in Entities : watermark[e] <= 1
           /\ db \in Tables
<1>1. CASE /\ db = [id \in Ids |-> NoRow]
           /\ watermark = [e \in Entities |-> NoTime]
  BY <1>1 DEF NoTime, Tables
<1>2. CASE /\ db = source
           /\ watermark = [e \in Entities |->
                Max({NoTime} \cup {source[id].ts : id \in {i \in IdsOf(e) : source[i] # NoRow}})]
  <2> DEFINE Seen(e) ==
        {NoTime} \cup {source[id].ts : id \in {i \in IdsOf(e) : source[i] # NoRow}}
  <2>1. ASSUME NEW e \in Entities
        PROVE  Max(Seen(e)) \in 0..1
    <3>1. Seen(e) \in SUBSET (0..1)
      BY InitialRows DEF IdsOf, NoTime
    <3>2. Seen(e) # {}
      OBVIOUS
    <3> HIDE DEF Seen
    <3> QED
      BY <3>1, <3>2, MaxUpTo
  <2>2. db \in Tables
    BY <1>2, SynchronizerAssumption DEF Init
  <2> HIDE DEF Seen
  <2>3. watermark = [e \in Entities |-> Max(Seen(e))]
    BY <1>2 DEF Seen
  <2> QED
    BY <2>1, <2>2, <2>3
<1> QED
  BY <1>1, <1>2 DEF Init, DatabaseAtStart

LEMMA Initially == Init => IInv
<1> SUFFICES ASSUME Init PROVE IInv
  OBVIOUS
<1>1. TypeOK
  <2>1. source \in Tables /\ saving \in Tables
    BY SynchronizerAssumption DEF Init, Tables
  <2>2. clock \in 1..MaxClock /\ redeliveries \in 0..MaxRedeliveries
        /\ lockLosses \in 0..MaxLockLosses /\ starts \in 0..MaxStarts
    BY BoundTypes DEF Init
  <2>3. topic \in [Entities -> Seq(Events)] /\ applied \in [Entities -> Nat]
    BY DEF Init
  <2>4. /\ stage \in [Runs -> Stages] /\ mode \in [Runs -> Modes]
        /\ since \in [Runs -> [Entities -> Nat]] /\ offset \in [Runs -> Nat]
        /\ errors \in [Runs -> BOOLEAN] /\ lock \in Runs \cup {NoRun}
    BY DEF Init, Stages, Modes, NoTime
  <2>5. /\ fetched \in [Runs -> [Entities -> SUBSET Events]]
        /\ changed \in [Runs -> SUBSET Events] /\ queue \in [Runs -> SUBSET Events]
    BY DEF Init, Nothing
  <2> QED
    BY <2>1, <2>2, <2>3, <2>4, <2>5, InitialWatermark DEF TypeOK
<1>2. CatalogueIsSound
  BY InitialRows, InitialWatermark DEF CatalogueIsSound, Init, Ids
<1>3. TopicsAreSound /\ AppliedIsReflected
  BY DEF TopicsAreSound, AppliedIsReflected, Init
<1>4. ASSUME NEW r \in Runs
      PROVE  Reads(r) /\ Handled(r)
  BY DEF Init, Reads, Handled, PastForms, PastCounterparties, Nothing, NoTime, Entities
<1> QED
  BY <1>1, <1>2, <1>3, <1>4 DEF IInv

-----------------------------------------------------------------------------
(* 1C                                                                      *)

LEMMA TickStep == IInv /\ Tick => IInv'
<1> SUFFICES ASSUME IInv, Tick PROVE IInv'
  OBVIOUS
<1> USE DEF users, consumer, locking, run
<1>1. TypeOK /\ TypeOK'
  BY BoundTypes DEF IInv, TypeOK, Tick
<1>2. clock \in Nat /\ clock' = clock + 1
  BY BoundTypes DEF IInv, Tick
<1>3. Onward
  BY <1>1, <1>2, KeepsUpWithItself DEF Onward, Tick, TypeOK
<1>4. CatalogueIsSound'
  <2>1. CatalogueIsSound /\ \A e \in Entities : watermark[e] \in Nat
    BY <1>1 DEF IInv, TypeOK
  <2> QED
    BY <1>2, <2>1 DEF CatalogueIsSound, Tick
<1>5. TopicsAreSound' /\ AppliedIsReflected'
  BY DEF IInv, TopicsAreSound, AppliedIsReflected, Tick, Resolved, Sorted
<1>6. ASSUME NEW r \in Runs PROVE Reads(r)' /\ Handled(r)'
  <2>1. SameRun(r)
    BY DEF SameRun, Tick
  <2> QED
    BY <1>1, <1>3, <2>1, ReadsStay, HandledStays DEF IInv
<1> QED
  BY <1>1, <1>4, <1>5, <1>6 DEF IInv

\* A step of the users or of the lock's session, seen from the runs.
LEMMA RunsUndisturbed ==
    ASSUME IInv, TypeOK', CatalogueIsSound', UNCHANGED <<clock, topic, consumer, run>>
    PROVE  IInv'
<1> USE DEF consumer, run
<1>1. TypeOK /\ Onward
  BY OnwardWithoutEffect DEF IInv
<1>2. TopicsAreSound' /\ AppliedIsReflected'
  BY DEF IInv, TopicsAreSound, AppliedIsReflected, Resolved, Sorted
<1>3. ASSUME NEW r \in Runs PROVE Reads(r)' /\ Handled(r)'
  <2>1. SameRun(r)
    BY DEF SameRun
  <2> QED
    BY <1>1, <2>1, ReadsStay, HandledStays DEF IInv
<1> QED
  BY <1>2, <1>3 DEF IInv

LEMMA BeginSaveStep == ASSUME NEW id \in Ids PROVE IInv /\ BeginSave(id) => IInv'
<1> SUFFICES ASSUME IInv, BeginSave(id) PROVE IInv'
  OBVIOUS
<1> USE DEF users, consumer, locking, run
<1>1. PICK v \in Values, f \in IF id \in FormIds THEN {NoForm}
                              ELSE {NoForm} \cup {g \in FormIds : source[g] # NoRow} :
         saving' = [saving EXCEPT ![id] = [ts |-> clock, val |-> v, form |-> f]]
  BY DEF BeginSave
<1> DEFINE row == [ts |-> clock, val |-> v, form |-> f]
<1>2. TypeOK /\ clock \in Nat /\ clock >= 1
  BY BoundTypes DEF IInv, TypeOK
<1>3. row \in Row /\ row.ts = clock /\ (id \in FormIds => row.form = NoForm)
  BY <1>2 DEF Row
<1>4. saving' \in Tables /\ saving'[id] = row /\ \A i \in Ids \ {id} : saving'[i] = saving[i]
  BY <1>1, <1>2, <1>3 DEF TypeOK, Tables
<1>5. UNCHANGED <<clock, source, topic, consumer, watermark, locking, run, starts>>
  BY DEF BeginSave
<1>6. TypeOK'
  BY <1>2, <1>4, <1>5 DEF TypeOK
<1>7. CatalogueIsSound'
  <2>1. CatalogueIsSound
    BY DEF IInv
  <2> QED
    BY <1>2, <1>3, <1>4, <1>5, <2>1 DEF CatalogueIsSound, Ids
<1> QED
  BY <1>5, <1>6, <1>7, RunsUndisturbed

LEMMA CommitSaveStep == ASSUME NEW id \in Ids PROVE IInv /\ CommitSave(id) => IInv'
<1> SUFFICES ASSUME IInv, CommitSave(id) PROVE IInv'
  OBVIOUS
<1> USE DEF users, consumer, locking, run
<1>1. TypeOK /\ CatalogueIsSound
  BY DEF IInv
<1>2. /\ source' \in Tables /\ source'[id] = saving[id]
      /\ saving' \in Tables /\ saving'[id] = NoRow
      /\ \A i \in Ids \ {id} : source'[i] = source[i] /\ saving'[i] = saving[i]
  BY <1>1 DEF CommitSave, TypeOK, Tables
<1>3. UNCHANGED <<clock, topic, consumer, watermark, locking, run, starts>>
  BY DEF CommitSave
<1>4. TypeOK'
  BY <1>1, <1>2, <1>3 DEF TypeOK
<1>5. CatalogueIsSound'
  BY <1>1, <1>2, <1>3 DEF CatalogueIsSound, Ids
<1> QED
  BY <1>3, <1>4, <1>5, RunsUndisturbed

LEMMA LoseLockSessionStep == ASSUME NEW r \in Runs PROVE IInv /\ LoseLockSession(r) => IInv'
<1> SUFFICES ASSUME IInv, LoseLockSession(r) PROVE IInv'
  OBVIOUS
<1>1. TypeOK'
  BY BoundTypes DEF IInv, TypeOK, LoseLockSession, users, consumer, run
<1>2. CatalogueIsSound'
  BY DEF IInv, CatalogueIsSound, LoseLockSession, users
<1> QED
  BY <1>1, <1>2, RunsUndisturbed DEF LoseLockSession, users, consumer, run

LEMMA StutterStep == IInv /\ UNCHANGED vars => IInv'
<1> SUFFICES ASSUME IInv, UNCHANGED vars PROVE IInv'
  OBVIOUS
<1>1. TypeOK' /\ CatalogueIsSound'
  BY DEF IInv, TypeOK, CatalogueIsSound, vars, users, consumer, locking, run
<1> QED
  BY <1>1, RunsUndisturbed DEF vars, users, consumer, run

-----------------------------------------------------------------------------
(* The consumer                                                            *)

\* What a message of a topic is.
LEMMA TopicMessage ==
    ASSUME IInv, NEW e \in Entities, NEW o \in DOMAIN topic[e]
    PROVE  /\ topic[e] \in Seq(Events) /\ Len(topic[e]) \in Nat /\ DOMAIN topic[e] = 1..Len(topic[e])
           /\ topic[e][o] \in Events
           /\ Sorted(e, topic[e][o]) /\ Resolved(topic[e][o])
BY DEF IInv, TypeOK, TopicsAreSound

LEMMA ApplyStep == ASSUME NEW e \in Entities PROVE IInv /\ Apply(e) => IInv'
<1> SUFFICES ASSUME IInv, Apply(e) PROVE IInv'
  OBVIOUS
<1> USE DEF users, consumer, locking, run
<1> DEFINE m == topic[e][applied[e] + 1]
<1>1. TypeOK /\ applied[e] \in Nat /\ topic[e] \in Seq(Events) /\ db \in Tables
  BY DEF IInv, TypeOK
<1>2. applied[e] + 1 \in DOMAIN topic[e]
  BY <1>1 DEF Apply
<1>3. m \in Events /\ Sorted(e, m) /\ Resolved(m)
  BY <1>2, TopicMessage
<1>4. ~ViolatesForeignKey(db, m)
  BY <1>3 DEF ViolatesForeignKey, Resolved
<1>5. db' = Upsert(db, m)
  BY <1>4 DEF Apply
<1> HIDE DEF m
<1>6. db' \in Tables /\ KeepsUp(db, db') /\ Reflects(db', m)
  BY <1>1, <1>3, <1>5, UpsertKeepsUp
<1>7. applied' = [applied EXCEPT ![e] = @ + 1] /\ applied' \in [Entities -> Nat]
  BY <1>1 DEF Apply, TypeOK
<1>8. UNCHANGED <<users, topic, redeliveries, watermark, locking, run, starts>>
  BY DEF Apply
<1>9. TypeOK' /\ clock \in Nat
  BY <1>1, <1>6, <1>7, <1>8, BoundTypes DEF TypeOK
<1>10. Onward
  BY <1>6, <1>8, <1>9 DEF Onward
<1>11. CatalogueIsSound'
  BY <1>8 DEF IInv, CatalogueIsSound
<1>12. TopicsAreSound'
  <2> SUFFICES ASSUME NEW d \in Entities, NEW o \in DOMAIN topic[d]
               PROVE  Sorted(d, topic[d][o]) /\ Resolved(topic[d][o])'
    BY <1>8 DEF TopicsAreSound, Sorted
  <2> QED
    BY <1>1, <1>8, <1>10, TopicMessage, ResolvedStays DEF Resolved
<1>13. AppliedIsReflected'
  <2> SUFFICES ASSUME NEW d \in Entities
               PROVE  /\ applied'[d] <= Len(topic[d])
                      /\ \A o \in 1..applied'[d] : Reflects(db', topic[d][o])
    BY <1>8 DEF AppliedIsReflected
  <2>1. /\ applied[d] \in Nat /\ Len(topic[d]) \in Nat /\ applied[d] <= Len(topic[d])
        /\ topic[d] \in Seq(Events)
        /\ \A o \in 1..applied[d] : Reflects(db, topic[d][o])
    BY <1>1 DEF IInv, AppliedIsReflected, TypeOK
  <2>2. \A o \in 1..applied[d] : Reflects(db', topic[d][o])
    <3>1. \A o \in 1..applied[d] : topic[d][o] \in Events
      BY <2>1
    <3> QED
      BY <1>1, <1>6, <2>1, <3>1, ReflectsStays
  <2>3. CASE d = e
    BY <1>1, <1>6, <1>7, <2>1, <2>2, <2>3 DEF Apply, m
  <2>4. CASE d # e
    BY <1>1, <1>7, <2>1, <2>2, <2>4 DEF TypeOK
  <2> QED
    BY <2>3, <2>4
<1>14. ASSUME NEW r \in Runs PROVE Reads(r)' /\ Handled(r)'
  <2>1. SameRun(r)
    BY <1>8 DEF SameRun
  <2> QED
    BY <1>1, <1>9, <1>10, <2>1, ReadsStay, HandledStays DEF IInv
<1> QED
  BY <1>9, <1>11, <1>12, <1>13, <1>14 DEF IInv

LEMMA RedeliverStep == ASSUME NEW e \in Entities PROVE IInv /\ Redeliver(e) => IInv'
<1> SUFFICES ASSUME IInv, Redeliver(e) PROVE IInv'
  OBVIOUS
<1> USE DEF users, consumer, locking, run
<1>1. PICK n \in 0..(applied[e] - 1) : applied' = [applied EXCEPT ![e] = n]
  BY DEF Redeliver
<1>2. TypeOK /\ applied \in [Entities -> Nat]
  BY DEF IInv, TypeOK
<1>3. n \in Nat /\ n < applied[e] /\ applied'[e] = n
      /\ \A d \in Entities \ {e} : applied'[d] = applied[d]
  BY <1>1, <1>2
<1>4. UNCHANGED <<users, topic, db, watermark, locking, run, starts>>
  BY DEF Redeliver
<1>5. TypeOK'
  <2>1. redeliveries' \in 0..MaxRedeliveries
    BY <1>2, BoundTypes DEF TypeOK, Redeliver
  <2>2. applied' \in [Entities -> Nat]
    BY <1>1, <1>2, <1>3
  <2> QED
    BY <1>2, <1>4, <2>1, <2>2 DEF TypeOK
<1>6. CatalogueIsSound' /\ TopicsAreSound'
  BY <1>4 DEF IInv, CatalogueIsSound, TopicsAreSound, Sorted, Resolved
<1>7. AppliedIsReflected'
  <2>1. \A d \in Entities : applied'[d] \in Nat /\ applied[d] \in Nat /\ applied'[d] <= applied[d]
    <3>1. \A d \in Entities : applied[d] \in Nat
      BY <1>2
    <3> QED
      BY <1>3, <3>1
  <2>2. topic \in [Entities -> Seq(Events)]
    BY <1>2 DEF TypeOK
  <2>3. \A d \in Entities : Len(topic[d]) \in Nat
    BY <2>2
  <2> QED
    BY <1>4, <2>1, <2>3 DEF IInv, AppliedIsReflected
<1>8. Onward
  BY <1>2, <1>4, OnwardWithoutEffect
<1>9. ASSUME NEW r \in Runs PROVE Reads(r)' /\ Handled(r)'
  <2>1. SameRun(r)
    BY <1>4 DEF SameRun
  <2> QED
    BY <1>2, <1>5, <1>8, <2>1, ReadsStay, HandledStays DEF IInv
<1> QED
  BY <1>5, <1>6, <1>7, <1>9 DEF IInv

-----------------------------------------------------------------------------
(* The producer's delivery                                                 *)

LEMMA DeliverStep == ASSUME NEW r \in Runs PROVE IInv /\ Deliver(r) => IInv'
<1> SUFFICES ASSUME IInv, Deliver(r) PROVE IInv'
  OBVIOUS
<1> USE DEF users, consumer, locking, run
<1>1. PICK m \in queue[r] :
         /\ topic' = [topic EXCEPT ![EntityOf(m.id)] = Append(@, m)]
         /\ queue' = [queue EXCEPT ![r] = @ \ {m}]
  BY DEF Deliver
<1> DEFINE d == EntityOf(m.id)
<1>2. TypeOK /\ Reads(r) /\ Handled(r)
  BY DEF IInv
<1>3. m \in Events /\ d \in Entities /\ topic[d] \in Seq(Events) /\ Resolved(m) /\ Sorted(d, m)
  <2>1. m \in Events
    BY <1>2 DEF TypeOK
  <2> QED
    BY <1>2, <2>1, EventType, EntityType DEF Reads, Sorted, TypeOK
<1> HIDE DEF d
<1>4. UNCHANGED <<users, consumer, watermark, locking, stage, mode, since, offset, fetched, changed,
                  errors, starts>>
  BY DEF Deliver
<1>5. /\ topic' \in [Entities -> Seq(Events)] /\ topic'[d] = Append(topic[d], m)
      /\ \A e \in Entities \ {d} : topic'[e] = topic[e]
  BY <1>1, <1>2, <1>3 DEF TypeOK, d
<1>6. /\ queue' \in [Runs -> SUBSET Events] /\ queue'[r] = queue[r] \ {m}
      /\ \A q \in Runs \ {r} : queue'[q] = queue[q]
  BY <1>1, <1>2 DEF TypeOK
<1>7. TypeOK'
  BY <1>2, <1>4, <1>5, <1>6 DEF TypeOK
<1>8. /\ Len(topic'[d]) = Len(topic[d]) + 1 /\ Len(topic[d]) \in Nat
      /\ \A o \in DOMAIN topic[d] : o \in DOMAIN topic'[d] /\ topic'[d][o] = topic[d][o]
      /\ \A o \in DOMAIN topic'[d] : topic'[d][o] = m \/ (o \in DOMAIN topic[d] /\ topic'[d][o] = topic[d][o])
      /\ \E o \in DOMAIN topic'[d] : topic'[d][o] = m
  <2>1. topic'[d][Len(topic[d]) + 1] = m /\ Len(topic[d]) + 1 \in DOMAIN topic'[d]
    BY <1>3, <1>5
  <2>2. \A o \in DOMAIN topic[d] : o \in DOMAIN topic'[d] /\ topic'[d][o] = topic[d][o]
    BY <1>3, <1>5
  <2>3. \A o \in DOMAIN topic'[d] : o = Len(topic[d]) + 1 \/ o \in DOMAIN topic[d]
    BY <1>3, <1>5
  <2> QED
    BY <1>3, <1>5, <2>1, <2>2, <2>3
<1>9. Onward
  <2>1. clock \in Nat /\ clock' = clock
    BY <1>2, <1>4, BoundTypes
  <2>2. db' \in Tables /\ KeepsUp(db, db')
    BY <1>2, <1>4, KeepsUpWithItself DEF TypeOK
  <2> QED
    BY <1>5, <1>8, <2>1, <2>2 DEF Onward
<1>10. CatalogueIsSound'
  BY <1>4 DEF IInv, CatalogueIsSound
<1>11. TopicsAreSound'
  <2> SUFFICES ASSUME NEW e \in Entities, NEW o \in DOMAIN topic'[e]
               PROVE  Sorted(e, topic'[e][o]) /\ Resolved(topic'[e][o])
    BY <1>4 DEF TopicsAreSound, Sorted, Resolved
  <2>1. CASE e = d
    BY <1>3, <1>8, <2>1 DEF IInv, TopicsAreSound
  <2>2. CASE e # d
    BY <1>5, <2>2 DEF IInv, TopicsAreSound
  <2> QED
    BY <2>1, <2>2
<1>12. AppliedIsReflected'
  <2> SUFFICES ASSUME NEW e \in Entities
               PROVE  /\ applied[e] <= Len(topic'[e])
                      /\ \A o \in 1..applied[e] : Reflects(db, topic'[e][o])
    BY <1>4 DEF AppliedIsReflected, Reflects
  <2>1. /\ applied[e] \in Nat /\ Len(topic[e]) \in Nat /\ applied[e] <= Len(topic[e])
        /\ topic[e] \in Seq(Events)
        /\ \A o \in 1..applied[e] : Reflects(db, topic[e][o])
    BY <1>2 DEF IInv, AppliedIsReflected, TypeOK
  <2>2. CASE e = d
    <3>1. \A o \in 1..applied[e] : o \in DOMAIN topic[e]
      BY <2>1
    <3> QED
      BY <1>8, <2>1, <2>2, <3>1
  <2>3. CASE e # d
    BY <1>5, <2>1, <2>3
  <2> QED
    BY <2>2, <2>3
<1>13. \A q \in Runs \ {r} : Reads(q)' /\ Handled(q)'
  <2>1. \A q \in Runs \ {r} : SameRun(q)
    BY <1>4, <1>6 DEF SameRun
  <2> QED
    BY <1>7, <1>9, <2>1, OthersStay
<1>14. Reads(r)'
  <2>1. \A n \in queue'[r] : Resolved(n)' /\ (n.id \in FormIds => n.form = NoForm)
    BY <1>2, <1>4, <1>6 DEF Reads, Resolved
  <2> QED
    BY <1>2, <1>4, <1>6, <2>1 DEF Reads, Sorted
<1>15. Handled(r)'
  <2>1. \A e \in Entities : fetched[r][e] \subseteq Events /\ \A n \in fetched[r][e] : Sorted(e, n)
    BY <1>2 DEF TypeOK, Reads
  <2>2. \A e \in Entities : \A n \in fetched[r][e] : Published(e, n) => Published(e, n)'
    BY <1>2, <1>9, <2>1, PublishedStays
  <2>3. \A e \in Entities : m \in fetched[r][e] => Published(e, m)'
    <3>1. Published(d, m)'
      BY <1>8 DEF Published
    <3>2. \A e \in Entities : m \in fetched[r][e] => e = d
      BY <1>3, <2>1, EntityType, EventType DEF Sorted, d
    <3> QED
      BY <3>1, <3>2
  <2>4. \A e \in Entities : \A n \in fetched[r][e] :
            n \in queue[r] => n \in queue'[r] \/ Published(e, n)'
    BY <1>6, <2>3
  <2> HIDE DEF Published
  <2>5. "ownership_forms" \in Entities /\ "counterparties" \in Entities
    BY DEF Entities
  <2> QED
    BY <1>2, <1>4, <2>2, <2>4, <2>5 DEF Handled
<1> QED
  BY <1>7, <1>10, <1>11, <1>12, <1>13, <1>14, <1>15 DEF IInv

-----------------------------------------------------------------------------
(* A run                                                                   *)

\* A step of one run that leaves 1C, Kafka and the consumer alone.
LEMMA RunMoves ==
    ASSUME IInv, TypeOK', UNCHANGED <<users, topic, consumer>>,
           \A e \in Entities : watermark'[e] <= clock,
           NEW r \in Runs, \A q \in Runs \ {r} : SameRun(q), Reads(r)', Handled(r)'
    PROVE  IInv'
<1>1. TypeOK /\ Onward
  BY OnwardWithoutEffect DEF IInv, users, consumer
<1>2. CatalogueIsSound' /\ TopicsAreSound' /\ AppliedIsReflected'
  BY DEF IInv, CatalogueIsSound, TopicsAreSound, AppliedIsReflected, Resolved, Sorted, users, consumer
<1>3. \A q \in Runs \ {r} : Reads(q)' /\ Handled(q)'
  BY <1>1, OthersStay
<1> QED
  BY <1>2, <1>3 DEF IInv

LEMMA LoseRecordStep == ASSUME NEW r \in Runs PROVE IInv /\ LoseRecord(r) => IInv'
<1> SUFFICES ASSUME IInv, LoseRecord(r) PROVE IInv'
  OBVIOUS
<1> USE DEF users, consumer, locking, run
<1>1. PICK m \in queue[r] : queue' = [queue EXCEPT ![r] = @ \ {m}]
  BY DEF LoseRecord
<1>2. TypeOK /\ Reads(r) /\ Handled(r) /\ CatalogueIsSound
  BY DEF IInv
<1>3. UNCHANGED <<users, topic, consumer, watermark, locking, stage, mode, since, offset, fetched,
                  changed, starts>>
  BY DEF LoseRecord
<1>4. /\ queue' \in [Runs -> SUBSET Events] /\ queue'[r] = queue[r] \ {m}
      /\ \A q \in Runs \ {r} : queue'[q] = queue[q]
  BY <1>1, <1>2 DEF TypeOK
<1>5. /\ errors' \in [Runs -> BOOLEAN] /\ errors'[r] = (stage[r] # "idle")
      /\ \A q \in Runs \ {r} : errors'[q] = errors[q]
  BY <1>2 DEF TypeOK, LoseRecord
<1>6. TypeOK'
  BY <1>2, <1>3, <1>4, <1>5 DEF TypeOK
<1>7. \A q \in Runs \ {r} : SameRun(q)
  BY <1>3, <1>4, <1>5 DEF SameRun
<1>8. Reads(r)'
  BY <1>2, <1>3, <1>4 DEF Reads, Sorted, Resolved
<1>9. Handled(r)'
  BY <1>2, <1>3, <1>5 DEF Handled, Published, Reflects
<1>10. \A e \in Entities : watermark'[e] <= clock
  BY <1>2, <1>3 DEF CatalogueIsSound
<1> QED
  BY <1>3, <1>6, <1>7, <1>8, <1>9, <1>10, RunMoves

\* Nothing a run does by itself changes what is published.
LEMMA SamePublished ==
    ASSUME UNCHANGED <<topic, consumer>>, NEW e, NEW m
    PROVE  (Published(e, m) <=> Published(e, m)') /\ (Resolved(m) <=> Resolved(m)')
BY DEF Published, Reflects, Resolved, consumer

LEMMA StartStep == ASSUME NEW r \in Runs, NEW m \in Modes PROVE IInv /\ Start(r, m) => IInv'
<1> SUFFICES ASSUME IInv, Start(r, m) PROVE IInv'
  OBVIOUS
<1>1. TypeOK /\ Reads(r) /\ Handled(r) /\ CatalogueIsSound
  BY DEF IInv
<1>2. /\ UNCHANGED <<users, topic, consumer, watermark, locking, since, offset, fetched, changed,
                     queue, errors>>
      /\ queue[r] = {}
  BY DEF Start
<1>3. /\ stage' \in [Runs -> Stages] /\ stage'[r] = "locking"
      /\ \A q \in Runs \ {r} : stage'[q] = stage[q]
      /\ mode' \in [Runs -> Modes]
  BY <1>1 DEF Start, GoTo, TypeOK, Stages
<1>4. TypeOK'
  BY <1>1, <1>2, <1>3, BoundTypes DEF TypeOK, users, consumer, locking, Start
<1>5. \A q \in Runs \ {r} : SameRun(q)
  BY <1>2, <1>3 DEF SameRun
<1>6. Reads(r)'
  BY <1>1, <1>2, <1>3 DEF Reads, Sorted, users
<1>7. Handled(r)'
  BY <1>3 DEF Handled, PastForms, PastCounterparties
<1>8. \A e \in Entities : watermark'[e] <= clock
  BY <1>1, <1>2 DEF CatalogueIsSound
<1> QED
  BY <1>2, <1>4, <1>5, <1>6, <1>7, <1>8, RunMoves

LEMMA LockStep == ASSUME NEW r \in Runs PROVE IInv /\ Lock(r) => IInv'
<1> SUFFICES ASSUME IInv, Lock(r) PROVE IInv'
  OBVIOUS
<1>1. TypeOK /\ Reads(r) /\ Handled(r) /\ CatalogueIsSound
  BY DEF IInv
<1>2. /\ UNCHANGED <<users, topic, consumer, watermark, lockLosses, mode, since, offset, fetched,
                     changed, queue, errors, starts>>
      /\ stage[r] = "locking"
  BY DEF Lock
<1>3. /\ stage' \in [Runs -> Stages] /\ stage'[r] = "readForms"
      /\ \A q \in Runs \ {r} : stage'[q] = stage[q]
  BY <1>1 DEF Lock, GoTo, TypeOK, Stages
<1>4. TypeOK'
  BY <1>1, <1>2, <1>3 DEF TypeOK, users, consumer, Lock
<1>5. \A q \in Runs \ {r} : SameRun(q)
  BY <1>2, <1>3 DEF SameRun
<1>6. Reads(r)'
  BY <1>1, <1>2, <1>3, SamePublished DEF Reads, Sorted, users
<1>7. Handled(r)'
  BY <1>3 DEF Handled, PastForms, PastCounterparties
<1>8. \A e \in Entities : watermark'[e] <= clock
  BY <1>1, <1>2 DEF CatalogueIsSound
<1> QED
  BY <1>2, <1>4, <1>5, <1>6, <1>7, <1>8, RunMoves

\* Reading a watermark, and on to a stage in which nothing is promised yet.
LEMMA ReadWatermarkStep ==
    ASSUME IInv, NEW r \in Runs, NEW e \in Entities, NEW s \in {"readCounterparties", "fetchForms"},
           ReadWatermark(r, e), GoTo(r, s), stage[r] \in {"readForms", "readCounterparties"},
           UNCHANGED <<users, topic, consumer, watermark, locking, mode, offset, fetched, changed,
                       queue, errors, starts>>
    PROVE  IInv'
<1>1. TypeOK /\ Reads(r) /\ Handled(r) /\ CatalogueIsSound /\ clock \in Nat
  BY BoundTypes DEF IInv
<1>2. /\ stage' \in [Runs -> Stages] /\ stage'[r] = s
      /\ \A q \in Runs \ {r} : stage'[q] = stage[q]
  BY <1>1 DEF GoTo, TypeOK, Stages
<1>3. /\ since' \in [Runs -> [Entities -> Nat]]
      /\ \A d \in Entities : since'[r][d] <= clock
      /\ \A q \in Runs \ {r} : since'[q] = since[q]
  <2> DEFINE t == IF mode[r] = "full" THEN NoTime ELSE watermark[e]
  <2>1. t \in Nat /\ t <= clock
    BY <1>1 DEF TypeOK, CatalogueIsSound, NoTime
  <2> HIDE DEF t
  <2>2. since' = [since EXCEPT ![r] = [since[r] EXCEPT ![e] = t]]
    BY DEF ReadWatermark, t
  <2>3. since[r] \in [Entities -> Nat] /\ \A d \in Entities : since[r][d] <= clock
    BY <1>1 DEF TypeOK, Reads
  <2> QED
    BY <1>1, <2>1, <2>2, <2>3 DEF TypeOK
<1>4. TypeOK'
  BY <1>1, <1>2, <1>3 DEF TypeOK, users, consumer, locking
<1>5. \A q \in Runs \ {r} : SameRun(q)
  BY <1>2, <1>3 DEF SameRun
<1>6. Reads(r)'
  BY <1>1, <1>2, <1>3, SamePublished DEF Reads, Sorted, users
<1>7. Handled(r)'
  BY <1>2 DEF Handled, PastForms, PastCounterparties
<1>8. \A d \in Entities : watermark'[d] <= clock
  BY <1>1 DEF CatalogueIsSound
<1> QED
  BY <1>4, <1>5, <1>6, <1>7, <1>8, RunMoves

LEMMA ReadWatermarksSteps ==
    ASSUME NEW r \in Runs
    PROVE  IInv /\ (ReadFormsWatermark(r) \/ ReadCounterpartiesWatermark(r)) => IInv'
BY ReadWatermarkStep DEF ReadFormsWatermark, ReadCounterpartiesWatermark, Entities

\* A run that ends, however it does, leaves its queue behind.
LEMMA EndStep ==
    ASSUME IInv, NEW r \in Runs, End(r),
           UNCHANGED <<users, topic, consumer, watermark, lockLosses, queue, starts>>
    PROVE  IInv'
<1>1. TypeOK /\ Reads(r) /\ Handled(r) /\ CatalogueIsSound /\ clock \in Nat /\ clock >= 1
  BY BoundTypes DEF IInv, TypeOK
<1>2. /\ stage' \in [Runs -> Stages] /\ stage'[r] = "idle"
      /\ since' \in [Runs -> [Entities -> Nat]] /\ since'[r] = [e \in Entities |-> NoTime]
      /\ offset' \in [Runs -> Nat] /\ mode' \in [Runs -> Modes]
      /\ fetched' \in [Runs -> [Entities -> SUBSET Events]] /\ fetched'[r] = Nothing
      /\ changed' \in [Runs -> SUBSET Events] /\ changed'[r] = {}
      /\ errors' \in [Runs -> BOOLEAN]
      /\ lock' \in Runs \cup {NoRun}
  <2>1. [e \in Entities |-> NoTime] \in [Entities -> Nat]
        /\ Nothing \in [Entities -> SUBSET Events] /\ "idle" \in Stages /\ "full" \in Modes
    BY DEF NoTime, Nothing, Stages, Modes
  <2> QED
    BY <1>1, <2>1 DEF End, TypeOK
<1>3. \A q \in Runs \ {r} : SameRun(q)
  BY <1>1 DEF SameRun, End, TypeOK
<1>4. TypeOK'
  BY <1>1, <1>2 DEF TypeOK, users, consumer
<1>5. Reads(r)'
  <2>1. \A e \in Entities : since'[r][e] <= clock' /\ fetched'[r][e] = {}
    BY <1>1, <1>2 DEF users, Nothing, NoTime
  <2> QED
    BY <1>1, <1>2, <2>1, SamePublished DEF Reads
<1>6. Handled(r)'
  BY <1>2 DEF Handled, PastForms, PastCounterparties
<1>7. \A e \in Entities : watermark'[e] <= clock
  BY <1>1 DEF CatalogueIsSound
<1> QED
  BY <1>3, <1>4, <1>5, <1>6, <1>7, RunMoves

LEMMA EndSteps ==
    ASSUME NEW r \in Runs
    PROVE  IInv /\ (Finish(r) \/ FlushFails(r) \/ BarrierTimesOut(r) \/ Fail(r)) => IInv'
BY EndStep DEF Finish, FlushFails, BarrierTimesOut, Fail

\* A flush that succeeds has delivered all the run had queued.
LEMMA FlushSteps ==
    ASSUME NEW r \in Runs
    PROVE  IInv /\ (FlushForms(r) \/ FlushCounterparties(r)) => IInv'
<1> SUFFICES ASSUME IInv, FlushForms(r) \/ FlushCounterparties(r) PROVE IInv'
  OBVIOUS
<1>1. TypeOK /\ Reads(r) /\ Handled(r) /\ CatalogueIsSound
  BY DEF IInv
<1>2. /\ UNCHANGED <<users, topic, consumer, watermark, locking, mode, since, offset, fetched,
                     changed, queue, errors, starts>>
      /\ queue[r] = {} /\ ~errors[r]
      /\ \/ stage[r] = "flushForms" /\ GoTo(r, "fetchCounterparties")
         \/ stage[r] = "flushCounterparties" /\ GoTo(r, "advanceForms")
  BY DEF FlushForms, FlushCounterparties, Flushed
<1>3. /\ stage' \in [Runs -> Stages]
      /\ \/ stage[r] = "flushForms" /\ stage'[r] = "fetchCounterparties"
         \/ stage[r] = "flushCounterparties" /\ stage'[r] = "advanceForms"
      /\ \A q \in Runs \ {r} : stage'[q] = stage[q]
  BY <1>1, <1>2 DEF GoTo, TypeOK, Stages
<1>4. TypeOK'
  BY <1>1, <1>2, <1>3 DEF TypeOK, users, consumer, locking
<1>5. \A q \in Runs \ {r} : SameRun(q)
  BY <1>2, <1>3 DEF SameRun
<1>6. Reads(r)'
  BY <1>1, <1>2, <1>3, SamePublished DEF Reads, Sorted, users
<1>7. Handled(r)'
  <2>1. /\ "ownership_forms" \in Entities /\ "counterparties" \in Entities
        /\ \A e \in Entities, m \in Events : Published(e, m) <=> Published(e, m)'
    BY <1>2, SamePublished DEF Entities
  <2>2. fetched[r]["ownership_forms"] \subseteq Events /\ fetched[r]["counterparties"] \subseteq Events
    BY <1>1, <2>1 DEF TypeOK
  <2> HIDE DEF Published
  <2> QED
    BY <1>1, <1>2, <1>3, <2>1, <2>2 DEF Handled, PastForms, PastCounterparties
<1>8. \A e \in Entities : watermark'[e] <= clock
  BY <1>1, <1>2 DEF CatalogueIsSound
<1> QED
  BY <1>2, <1>4, <1>5, <1>6, <1>7, <1>8, RunMoves

\* What a page holds are objects of the catalogue, and their number is one.
LEMMA PageOfCatalogue ==
    ASSUME TypeOK, NEW r \in Runs, NEW e \in Entities, NEW page,
           page = Page(Wanted(r, e), offset[r])
    PROVE  /\ \A id \in page : id \in IdsOf(e) /\ id \in Ids /\ source[id] # NoRow /\ source[id] \in Row
           /\ IsFiniteSet(page) /\ Cardinality(page) \in Nat
<1>1. \A id \in page : id \in IdsOf(e) /\ source[id] # NoRow
  BY DEF Page, Wanted, Selected
<1>2. \A id \in page : id \in Ids /\ source[id] \in Row
  BY <1>1 DEF IdsOf, TypeOK, Tables
<1>3. page \subseteq Ids /\ IsFiniteSet(Ids)
  BY <1>2, OneCServiceAssumption
<1> QED
  BY <1>1, <1>2, <1>3, FS_Subset, FS_CardinalityType

LEMMA FetchStep ==
    ASSUME IInv, NEW r \in Runs, NEW e \in Entities, NEW next, FetchPage(r, e, next),
           \/ stage[r] = "fetchForms" /\ e = "ownership_forms" /\ next = "publishForms"
           \/ /\ stage[r] = "fetchCounterparties" /\ e = "counterparties"
              /\ next = "compareCounterparties"
    PROVE  IInv'
<1>1. TypeOK /\ Reads(r) /\ Handled(r) /\ CatalogueIsSound /\ clock \in Nat
  BY BoundTypes DEF IInv
<1> DEFINE page == Page(Wanted(r, e), offset[r])
           new == {EventOf(id, source[id]) : id \in page}
<1>2. /\ UNCHANGED <<users, topic, consumer, watermark, locking, mode, since, changed, queue,
                     errors, starts>>
      /\ fetched' = [fetched EXCEPT ![r][e] = @ \cup new]
      /\ \/ GoTo(r, next) /\ offset' = [offset EXCEPT ![r] = 0]
         \/ offset' = [offset EXCEPT ![r] = @ + Cardinality(page)] /\ UNCHANGED stage
  BY DEF FetchPage
<1>3. Cardinality(page) \in Nat
  BY <1>1, PageOfCatalogue
<1>4. \A m \in new : m \in Events /\ Sorted(e, m) /\ m.ts <= clock
  <2> SUFFICES ASSUME NEW id \in page
               PROVE  LET m == EventOf(id, source[id])
                      IN  m \in Events /\ Sorted(e, m) /\ m.ts <= clock
    OBVIOUS
  <2>1. id \in IdsOf(e) /\ id \in Ids /\ source[id] # NoRow /\ source[id] \in Row
    BY <1>1, PageOfCatalogue
  <2>2. source[id].ts \in 1..clock /\ (id \in FormIds => source[id].form = NoForm)
    BY <1>1, <2>1 DEF CatalogueIsSound
  <2>3. source[id].ts # NoTime /\ source[id].ts <= clock
    BY <1>1, <2>2 DEF NoTime
  <2> QED
    BY <2>1, <2>2, <2>3, EventOfRow DEF Sorted
<1> HIDE DEF page, new
<1>5. /\ stage' \in [Runs -> Stages] /\ (stage'[r] = stage[r] \/ stage'[r] = next)
      /\ offset' \in [Runs -> Nat]
      /\ \A q \in Runs \ {r} : stage'[q] = stage[q] /\ offset'[q] = offset[q]
  <2>1. next \in Stages
    BY DEF Stages
  <2>2. offset[r] \in Nat /\ offset[r] + Cardinality(page) \in Nat
    BY <1>1, <1>3 DEF TypeOK
  <2>3. CASE GoTo(r, next) /\ offset' = [offset EXCEPT ![r] = 0]
    BY <1>1, <2>1, <2>3 DEF GoTo, TypeOK
  <2>4. CASE offset' = [offset EXCEPT ![r] = @ + Cardinality(page)] /\ UNCHANGED stage
    BY <1>1, <2>2, <2>4 DEF TypeOK
  <2> QED
    BY <1>2, <2>3, <2>4
<1>6. /\ fetched' \in [Runs -> [Entities -> SUBSET Events]]
      /\ fetched'[r][e] = fetched[r][e] \cup new
      /\ \A d \in Entities \ {e} : fetched'[r][d] = fetched[r][d]
      /\ \A q \in Runs \ {r} : fetched'[q] = fetched[q]
  <2>1. new \subseteq Events
    BY <1>4
  <2>2. fetched' = [fetched EXCEPT ![r] = [fetched[r] EXCEPT ![e] = fetched[r][e] \cup new]]
    BY <1>2
  <2>3. fetched[r] \in [Entities -> SUBSET Events]
    BY <1>1 DEF TypeOK
  <2>4. [fetched[r] EXCEPT ![e] = fetched[r][e] \cup new] \in [Entities -> SUBSET Events]
    BY <2>1, <2>3
  <2> QED
    BY <1>1, <2>2, <2>3, <2>4 DEF TypeOK
<1>7. TypeOK'
  BY <1>1, <1>2, <1>5, <1>6 DEF TypeOK, users, consumer, locking
<1>8. \A q \in Runs \ {r} : SameRun(q)
  BY <1>2, <1>5, <1>6 DEF SameRun
<1>9. Reads(r)'
  <2>1. \A d \in Entities : \A m \in fetched'[r][d] : Sorted(d, m) /\ m.ts <= clock
    BY <1>1, <1>4, <1>6 DEF Reads
  <2>2. changed'[r] \subseteq fetched'[r]["counterparties"]
    BY <1>1, <1>2, <1>6 DEF Reads, Entities
  <2>3. \A m \in queue'[r] : Resolved(m)' /\ (m.id \in FormIds => m.form = NoForm)
    BY <1>1, <1>2, SamePublished DEF Reads
  <2> QED
    BY <1>1, <1>2, <2>1, <2>2, <2>3 DEF Reads, Sorted, users
<1>10. Handled(r)'
  <2>1. CASE e = "ownership_forms"
    BY <1>5, <2>1 DEF Handled, PastForms, PastCounterparties
  <2>2. CASE e = "counterparties"
    <3>1. fetched'[r]["ownership_forms"] = fetched[r]["ownership_forms"]
      BY <1>6, <2>2 DEF Entities
    <3>2. \A m \in fetched'[r]["ownership_forms"] : Published("ownership_forms", m)'
      BY <1>1, <1>2, <2>2, <3>1, SamePublished DEF Handled, PastForms
    <3> QED
      BY <1>5, <2>2, <3>2 DEF Handled, PastForms, PastCounterparties
  <2> QED
    BY <2>1, <2>2 DEF Entities
<1>11. \A d \in Entities : watermark'[d] <= clock
  BY <1>1, <1>2 DEF CatalogueIsSound
<1> QED
  BY <1>2, <1>7, <1>8, <1>9, <1>10, <1>11, RunMoves

LEMMA FetchSteps ==
    ASSUME NEW r \in Runs
    PROVE  IInv /\ (FetchForms(r) \/ FetchCounterparties(r)) => IInv'
BY FetchStep DEF FetchForms, FetchCounterparties, Entities

\* What need not be published is in the database, as it is or newer.
LEMMA ChangedOrReflected ==
    ASSUME TypeOK, NEW r \in Runs, NEW S \in SUBSET Events
    PROVE  /\ Changed(r, S) \subseteq S
           /\ \A m \in S : m \in Changed(r, S) \/ Reflects(db, m)
<1> SUFFICES ASSUME NEW m \in S, ~NeedsPublish(m)
             PROVE  Reflects(db, m)
  BY DEF Changed
<1>1. m.kind = "event" /\ m.id \in Ids /\ m.ts \in Nat /\ RowOf(m).ts = m.ts
  BY EventType
<1>2. db[m.id] # NoRow /\ (m.ts < db[m.id].ts \/ RowOf(m) = db[m.id])
  <2>1. db[m.id] # NoRow => db[m.id].ts \in Nat
    BY <1>1 DEF TypeOK, Tables, Row
  <2> QED
    BY <1>1, <2>1 DEF NeedsPublish
<1>3. db[m.id].ts \in Nat
  BY <1>1, <1>2 DEF TypeOK, Tables, Row
<1> QED
  BY <1>1, <1>2, <1>3 DEF Reflects

LEMMA PublishFormsStep == ASSUME NEW r \in Runs PROVE IInv /\ PublishForms(r) => IInv'
<1> SUFFICES ASSUME IInv, PublishForms(r) PROVE IInv'
  OBVIOUS
<1>1. TypeOK /\ Reads(r) /\ Handled(r) /\ CatalogueIsSound
  BY DEF IInv
<1> DEFINE S == fetched[r]["ownership_forms"]
<1>2. S \in SUBSET Events
  BY <1>1 DEF TypeOK, Entities
<1>3. /\ UNCHANGED <<users, topic, consumer, watermark, locking, mode, since, offset, fetched,
                     changed, errors, starts>>
      /\ stage[r] = "publishForms"
  BY DEF PublishForms
<1>4. /\ stage' \in [Runs -> Stages] /\ stage'[r] = "flushForms"
      /\ queue' \in [Runs -> SUBSET Events] /\ queue'[r] = Changed(r, S)
      /\ Changed(r, S) \subseteq S
      /\ \A q \in Runs \ {r} : stage'[q] = stage[q] /\ queue'[q] = queue[q]
  <2>1. Changed(r, S) \in SUBSET Events /\ Changed(r, S) \subseteq S
    BY <1>1, <1>2, ChangedOrReflected
  <2> QED
    BY <1>1, <2>1 DEF PublishForms, GoTo, TypeOK, Stages
<1>5. TypeOK'
  BY <1>1, <1>3, <1>4 DEF TypeOK, users, consumer, locking
<1>6. \A q \in Runs \ {r} : SameRun(q)
  BY <1>3, <1>4 DEF SameRun
<1>7. Reads(r)'
  <2>1. \A m \in S : m.form = NoForm
    <3>1. \A m \in S : m.id \in IdsOf("ownership_forms") /\ m.id \in Ids
                      /\ (m.id \in FormIds => m.form = NoForm)
      BY <1>1, <1>2, EventType DEF Reads, Sorted, Entities
    <3> QED
      BY <3>1, EntityType
  <2>2. queue'[r] \subseteq S
    BY <1>4
  <2>3. \A m \in queue'[r] : Resolved(m)' /\ (m.id \in FormIds => m.form = NoForm)
    BY <2>1, <2>2 DEF Resolved
  <2> QED
    BY <1>1, <1>3, <1>4, <2>3 DEF Reads, Sorted, users
<1>8. Handled(r)'
  <2>1. \A m \in S : m \in queue'[r] \/ Published("ownership_forms", m)
    BY <1>1, <1>2, <1>4, ChangedOrReflected DEF Published
  <2> QED
    BY <1>3, <1>4, <2>1, SamePublished DEF Handled, PastForms, PastCounterparties
<1>9. \A e \in Entities : watermark'[e] <= clock
  BY <1>1, <1>3 DEF CatalogueIsSound
<1> QED
  BY <1>3, <1>5, <1>6, <1>7, <1>8, <1>9, RunMoves

LEMMA CompareCounterpartiesStep ==
    ASSUME NEW r \in Runs PROVE IInv /\ CompareCounterparties(r) => IInv'
<1> SUFFICES ASSUME IInv, CompareCounterparties(r) PROVE IInv'
  OBVIOUS
<1>1. TypeOK /\ Reads(r) /\ Handled(r) /\ CatalogueIsSound
  BY DEF IInv
<1> DEFINE S == fetched[r]["counterparties"]
<1>2. S \in SUBSET Events
  BY <1>1 DEF TypeOK, Entities
<1>3. /\ UNCHANGED <<users, topic, consumer, watermark, locking, mode, since, offset, fetched,
                     queue, errors, starts>>
      /\ stage[r] = "compareCounterparties"
  BY DEF CompareCounterparties
<1>4. /\ stage' \in [Runs -> Stages] /\ stage'[r] = "barrier"
      /\ changed' \in [Runs -> SUBSET Events] /\ changed'[r] = Changed(r, S)
      /\ Changed(r, S) \subseteq S
      /\ \A q \in Runs \ {r} : stage'[q] = stage[q] /\ changed'[q] = changed[q]
  <2>1. Changed(r, S) \in SUBSET Events /\ Changed(r, S) \subseteq S
    BY <1>1, <1>2, ChangedOrReflected
  <2> QED
    BY <1>1, <2>1 DEF CompareCounterparties, GoTo, TypeOK, Stages
<1>5. TypeOK'
  BY <1>1, <1>3, <1>4 DEF TypeOK, users, consumer, locking
<1>6. \A q \in Runs \ {r} : SameRun(q)
  BY <1>3, <1>4 DEF SameRun
<1>7. Reads(r)'
  BY <1>1, <1>3, <1>4 DEF Reads, Sorted, users
<1>8. Handled(r)'
  <2>1. \A m \in S : m \in changed'[r] \/ Published("counterparties", m)
    BY <1>1, <1>2, <1>4, ChangedOrReflected DEF Published
  <2>2. \A m \in fetched'[r]["ownership_forms"] : Published("ownership_forms", m)'
    BY <1>1, <1>3, SamePublished DEF Handled, PastForms
  <2> QED
    BY <1>3, <1>4, <2>1, <2>2, SamePublished DEF Handled, PastForms, PastCounterparties
<1>9. \A e \in Entities : watermark'[e] <= clock
  BY <1>1, <1>3 DEF CatalogueIsSound
<1> QED
  BY <1>3, <1>5, <1>6, <1>7, <1>8, <1>9, RunMoves

\* Past the barrier everything queued finds its form.
LEMMA PublishCounterpartiesStep ==
    ASSUME NEW r \in Runs PROVE IInv /\ PublishCounterparties(r) => IInv'
<1> SUFFICES ASSUME IInv, PublishCounterparties(r) PROVE IInv'
  OBVIOUS
<1>1. TypeOK /\ Reads(r) /\ Handled(r) /\ CatalogueIsSound
  BY DEF IInv
<1>2. /\ UNCHANGED <<users, topic, consumer, watermark, locking, mode, since, offset, fetched,
                     errors, starts>>
      /\ stage[r] = "barrier" /\ FormsStored(changed[r])
  BY DEF PublishCounterparties
<1>3. /\ stage' \in [Runs -> Stages] /\ stage'[r] = "flushCounterparties"
      /\ changed' \in [Runs -> SUBSET Events] /\ changed'[r] = {}
      /\ queue' \in [Runs -> SUBSET Events] /\ queue'[r] = changed[r]
      /\ \A q \in Runs \ {r} : /\ stage'[q] = stage[q] /\ changed'[q] = changed[q]
                              /\ queue'[q] = queue[q]
  BY <1>1 DEF PublishCounterparties, GoTo, TypeOK, Stages
<1>4. TypeOK'
  BY <1>1, <1>2, <1>3 DEF TypeOK, users, consumer, locking
<1>5. \A q \in Runs \ {r} : SameRun(q)
  BY <1>2, <1>3 DEF SameRun
<1>6. Reads(r)'
  <2>1. \A m \in queue'[r] : Resolved(m)'
    BY <1>2, <1>3 DEF FormsStored, Resolved, consumer
  <2>2. \A m \in queue'[r] : m.id \in FormIds => m.form = NoForm
    BY <1>1, <1>3 DEF Reads, Sorted, Entities
  <2> QED
    BY <1>1, <1>2, <1>3, <2>1, <2>2 DEF Reads, Sorted, users
<1>7. Handled(r)'
  <2>1. \A m \in fetched'[r]["counterparties"] :
            m \in queue'[r] \/ Published("counterparties", m)'
    BY <1>1, <1>2, <1>3, SamePublished DEF Handled
  <2>2. \A m \in fetched'[r]["ownership_forms"] : Published("ownership_forms", m)'
    BY <1>1, <1>2, SamePublished DEF Handled, PastForms
  <2> QED
    BY <1>3, <2>1, <2>2 DEF Handled, PastForms, PastCounterparties
<1>8. \A e \in Entities : watermark'[e] <= clock
  BY <1>1, <1>2 DEF CatalogueIsSound
<1> QED
  BY <1>2, <1>4, <1>5, <1>6, <1>7, <1>8, RunMoves

\* The newest timestamp fetched is one of those fetched.
LEMMA NewestFetched ==
    ASSUME TypeOK, NEW r \in Runs, Reads(r), NEW e \in Entities, fetched[r][e] # {}
    PROVE  LET newest == Max({m.ts : m \in fetched[r][e]})
           IN  /\ newest \in Nat /\ newest <= clock
               /\ \E m \in fetched[r][e] : m.ts = newest
               /\ \A m \in fetched[r][e] : m.ts <= newest
<1> DEFINE S == {m.ts : m \in fetched[r][e]}
<1>1. fetched[r][e] \subseteq Events /\ clock \in Nat
  BY BoundTypes DEF TypeOK
<1>2. S \in SUBSET (0..clock)
  BY <1>1, EventType DEF Reads
<1>3. S # {}
  OBVIOUS
<1>4. Max(S) \in S /\ \A n \in S : n <= Max(S)
  <2> HIDE DEF S
  <2> QED
    BY <1>1, <1>2, <1>3, MaxUpTo
<1>5. Max(S) \in Nat /\ Max(S) <= clock
  <2>1. Max(S) \in 0..clock
    BY <1>2, <1>4
  <2> HIDE DEF S
  <2> QED
    BY <1>1, <2>1
<1> QED
  BY <1>4, <1>5

\* A watermark that advances stays within the clock, and is what it was or
\* the newest timestamp fetched.
LEMMA AdvancedWatermark ==
    ASSUME TypeOK, CatalogueIsSound, NEW r \in Runs, Reads(r), NEW e \in Entities
    PROVE  /\ Advanced(r, e) \in [Entities -> Nat]
           /\ \A d \in Entities : Advanced(r, e)[d] <= clock
           /\ \A d \in Entities : \/ Advanced(r, e)[d] = watermark[d]
                                  \/ d = e /\ \E m \in fetched[r][e] : m.ts = Advanced(r, e)[d]
<1>1. watermark \in [Entities -> Nat] /\ clock \in Nat /\ \A d \in Entities : watermark[d] <= clock
  BY BoundTypes DEF TypeOK, CatalogueIsSound
<1>2. CASE fetched[r][e] = {}
  BY <1>1, <1>2 DEF Advanced
<1>3. CASE fetched[r][e] # {}
  <2> DEFINE newest == Max({m.ts : m \in fetched[r][e]})
             to == IF mode[r] = "full" THEN newest ELSE Max({watermark[e], newest})
  <2>1. newest \in Nat /\ newest <= clock /\ \E m \in fetched[r][e] : m.ts = newest
    BY <1>3, NewestFetched
  <2>2. Advanced(r, e) = [watermark EXCEPT ![e] = to]
    BY <1>3 DEF Advanced
  <2> HIDE DEF newest
  <2>3. to \in {watermark[e], newest}
    <3>1. {watermark[e], newest} \in SUBSET (0..clock)
      BY <1>1, <2>1
    <3>2. Max({watermark[e], newest}) \in {watermark[e], newest}
      BY <1>1, <3>1, MaxUpTo
    <3> QED
      BY <3>2
  <2> HIDE DEF to
  <2> QED
    BY <1>1, <2>1, <2>2, <2>3
<1> QED
  BY <1>2, <1>3

LEMMA AdvanceStep ==
    ASSUME IInv, NEW r \in Runs, NEW e \in Entities, NEW s, watermark' = Advanced(r, e), GoTo(r, s),
           \/ stage[r] = "advanceForms" /\ s = "advanceCounterparties"
           \/ stage[r] = "advanceCounterparties" /\ s = "unlock",
           UNCHANGED <<users, topic, consumer, locking, mode, since, offset, fetched, changed,
                       queue, errors, starts>>
    PROVE  IInv'
<1>1. TypeOK /\ Reads(r) /\ Handled(r) /\ CatalogueIsSound
  BY DEF IInv
<1>2. watermark' \in [Entities -> Nat] /\ \A d \in Entities : watermark'[d] <= clock
  BY <1>1, AdvancedWatermark
<1>3. /\ stage' \in [Runs -> Stages] /\ stage'[r] = s
      /\ \A q \in Runs \ {r} : stage'[q] = stage[q]
  BY <1>1 DEF GoTo, TypeOK, Stages
<1>4. TypeOK'
  BY <1>1, <1>2, <1>3 DEF TypeOK, users, consumer, locking
<1>5. \A q \in Runs \ {r} : SameRun(q)
  BY <1>3 DEF SameRun
<1>6. Reads(r)'
  BY <1>1, <1>3, SamePublished DEF Reads, Sorted, users
<1>7. Handled(r)'
  <2>1. /\ \A m \in fetched'[r]["ownership_forms"] : Published("ownership_forms", m)'
        /\ \A m \in fetched'[r]["counterparties"] : Published("counterparties", m)'
    BY <1>1, SamePublished DEF Handled, PastForms, PastCounterparties
  <2> QED
    BY <1>3, <2>1 DEF Handled, PastForms, PastCounterparties
<1> QED
  BY <1>2, <1>4, <1>5, <1>6, <1>7, RunMoves

LEMMA AdvanceSteps ==
    ASSUME NEW r \in Runs
    PROVE  IInv /\ (AdvanceForms(r) \/ AdvanceCounterparties(r)) => IInv'
BY AdvanceStep DEF AdvanceForms, AdvanceCounterparties, Entities

-----------------------------------------------------------------------------
(* The theorems that hold whatever happens                                 *)

LEMMA Inductive == IInv /\ [Next]_vars => IInv'
<1> SUFFICES ASSUME IInv, [Next]_vars PROVE IInv'
  OBVIOUS
<1>1. CASE Tick
  BY <1>1, TickStep
<1>2. ASSUME NEW id \in Ids, BeginSave(id) \/ CommitSave(id) PROVE IInv'
  BY <1>2, BeginSaveStep, CommitSaveStep
<1>3. ASSUME NEW e \in Entities, Apply(e) \/ Redeliver(e) PROVE IInv'
  BY <1>3, ApplyStep, RedeliverStep
<1>4. ASSUME NEW r \in Runs, NEW m \in Modes, Start(r, m) PROVE IInv'
  BY <1>4, StartStep
<1>5. ASSUME NEW r \in Runs, Proceed(r) PROVE IInv'
  BY <1>5, LockStep, ReadWatermarksSteps, FetchSteps, PublishFormsStep, FlushSteps,
     CompareCounterpartiesStep, PublishCounterpartiesStep, AdvanceSteps, EndSteps DEF Proceed
<1>6. ASSUME NEW r \in Runs, Fail(r) \/ Deliver(r) \/ LoseRecord(r) \/ LoseLockSession(r)
      PROVE  IInv'
  BY <1>6, EndSteps, DeliverStep, LoseRecordStep, LoseLockSessionStep
<1>7. CASE UNCHANGED vars
  BY <1>7, StutterStep
<1> QED
  BY <1>1, <1>2, <1>3, <1>4, <1>5, <1>6, <1>7 DEF Next

\* In every behaviour of 1C, runs, broker and consumer the messages queued
\* and published find their form, and what a run fetched is queued, published
\* or known to be lost.
THEOREM Invariance == Spec => []IInv
BY Initially, Inductive, PTL DEF Spec

\* Every variable keeps its type.
THEOREM TypeCorrect == Spec => []TypeOK
<1>1. IInv => TypeOK
  BY DEF IInv
<1> QED
  BY <1>1, Invariance, PTL

\* The barrier's promise: a published counterparty finds its form, however
\* runs overlap, fail or deliver late (wait_for_ownership_forms).
THEOREM ReferencesResolveTheorem == Spec => []ReferencesResolve
<1>1. IInv => ReferencesResolve
  BY DEF IInv, TopicsAreSound, Resolved, ReferencesResolve, Entities
<1> QED
  BY <1>1, Invariance, PTL

\* A run past its last flush has left no record behind (flush and its two
\* callers).
THEOREM SuccessIsPublication == Spec => []SuccessMeansPublished
<1>1. ASSUME IInv PROVE SuccessMeansPublished
  <2> SUFFICES ASSUME NEW r \in Runs, stage[r] \in PastCounterparties, NEW e \in Entities,
                      NEW m \in fetched[r][e]
               PROVE  Published(e, m)
    BY DEF SuccessMeansPublished, PastCounterparties
  <2>1. stage[r] \in PastForms /\ Handled(r)
    BY <1>1 DEF IInv, PastForms, PastCounterparties
  <2> QED
    BY <2>1 DEF Handled, Entities
<1> QED
  BY <1>1, Invariance, PTL

-----------------------------------------------------------------------------
(* Under Orderly: what stays as it is                                      *)

\* Objects are saved with the present second, and later than before.
SavesNow ==
    \A id \in Ids :
        \/ source'[id] = source[id]
        \/ /\ source'[id] # NoRow /\ source'[id].ts = clock
           /\ source[id] # NoRow => source[id].ts < clock

LEMMA VersionStays ==
    ASSUME TypeOK, SavesNow
    PROVE  \A id \in Ids, row \in Row : Version(id, row) => Version(id, row)'
<1> SUFFICES ASSUME NEW id \in Ids, NEW row \in Row, Version(id, row)
             PROVE  Version(id, row)'
  OBVIOUS
<1>1. row.ts \in Nat /\ source[id] # NoRow /\ source[id].ts \in Nat /\ clock \in Nat
  BY BoundTypes DEF Row, Version, TypeOK, Tables
<1> QED
  BY <1>1 DEF Version, SavesNow

\* What was published before a moment that has come.
LEMMA PublishedBeforeStays ==
    ASSUME TypeOK, CatalogueIsSound, Onward, SavesNow, NEW e \in Entities,
           NEW moment \in Nat, moment <= clock, PublishedBefore(e, moment)
    PROVE  PublishedBefore(e, moment)'
<1> SUFFICES ASSUME NEW id \in IdsOf(e), source'[id] # NoRow, source'[id].ts < moment
             PROVE  Published(e, EventOf(id, source[id]))'
  BY DEF PublishedBefore
<1>1. id \in Ids /\ clock \in Nat
  BY BoundTypes DEF IdsOf
<1>2. source'[id] = source[id]
  BY <1>1 DEF SavesNow
<1>3. source[id] \in Row /\ source[id].ts # NoTime
  BY <1>1, <1>2 DEF TypeOK, Tables, CatalogueIsSound, NoTime
<1>4. EventOf(id, source[id]) \in Events /\ Published(e, EventOf(id, source[id]))
  BY <1>1, <1>2, <1>3, EventOfRow DEF PublishedBefore
<1>5. Published(e, EventOf(id, source[id]))'
  <2> DEFINE m == EventOf(id, source[id])
  <2>1. (\E o \in DOMAIN topic'[e] : topic'[e][o] = m) \/ Reflects(db', m)
    <3>1. CASE \E o \in DOMAIN topic[e] : topic[e][o] = m
      BY <3>1 DEF Onward
    <3>2. CASE Reflects(db, m)
      BY <1>4, <3>2, ReflectsStays DEF TypeOK, Onward
    <3> QED
      BY <1>4, <3>1, <3>2 DEF Published
  <2> QED
    BY <1>2, <2>1 DEF Published, Reflects
<1> QED
  BY <1>5

\* Positions are counted among objects of the catalogue.
LEMMA WantedType ==
    ASSUME NEW r, NEW e
    PROVE  Wanted(r, e) \in SUBSET Ids /\ Wanted(r, e)' \in SUBSET Ids
BY DEF Wanted, Selected, IdsOf

\* A fetch that is at its beginning has passed nothing.
LEMMA NothingPassed ==
    ASSUME NEW r, NEW e, offset'[r] = 0
    PROVE  Passed(r, e)' = {}
<1>1. \A id \in Wanted(r, e)' : Position(id, Wanted(r, e)') \in Nat
  BY WantedType, PositionType
<1> QED
  BY <1>1 DEF Passed

\* Time passes only for a run that has passed no save.
InTime(r) == clock' = clock \/ (source' = source /\ \A e \in Entities : Passed(r, e) = {})

\* Saves between two pages move objects back, never forward: what a run has
\* passed otherwise than it is now was saved now, and what is ahead stays ahead.
LEMMA PagesStay ==
    ASSUME TypeOK, SavesNow, NEW r \in Runs, NEW e \in Entities, InTime(r),
           since'[r] = since[r], offset'[r] = offset[r], fetched'[r] = fetched[r],
           stage'[r] = stage[r],
           \A id \in Passed(r, e) : source[id].ts = clock
    PROVE  /\ \A id \in Passed(r, e)' : source'[id].ts = clock'
           /\ \A id \in IdsOf(e) : source'[id] = source[id] /\ Ahead(r, e, id) => Ahead(r, e, id)'
<1> DEFINE S == Wanted(r, e)
           T == Wanted(r, e)'
<1>1. S \in SUBSET Ids /\ T \in SUBSET Ids /\ offset[r] \in Nat /\ clock \in Nat
  BY WantedType, BoundTypes DEF TypeOK
<1>2. \A id \in Ids : source[id] # NoRow => source[id].ts \in Nat
  BY DEF TypeOK, Tables, Row
<1>3. Since(since[r][e]) \in Int
  BY OneCServiceAssumption DEF TypeOK, Since, AsUnderstood, NoTime
<1>4. S \subseteq T
  <2> SUFFICES ASSUME NEW id \in S
               PROVE  id \in T
    OBVIOUS
  <2>1. id \in IdsOf(e) /\ id \in Ids /\ source[id] # NoRow /\ source[id].ts > Since(since[r][e])
    BY <1>1 DEF Wanted, Selected
  <2>2. source'[id] # NoRow /\ source'[id].ts > Since(since[r][e])
    BY <1>1, <1>2, <1>3, <2>1 DEF SavesNow
  <2> QED
    BY <2>1, <2>2 DEF Wanted, Selected
<1>5. \A id \in Ids : source'[id] = source[id] /\ id \in T => id \in S
  BY DEF Wanted, Selected
<1>6. \A id \in Ids : /\ Position(id, S) \in Nat /\ Position(id, T) \in Nat
                      /\ Position(id, S) <= Position(id, T)
  BY <1>1, <1>4, PositionType, PositionGrows
<1>7. ASSUME NEW id \in Passed(r, e)'
      PROVE  source'[id].ts = clock'
  <2>1. /\ id \in T /\ id \in Ids /\ stage[r] = FetchStage(e) /\ Position(id, T) < offset[r]
        /\ EventOf(id, source'[id]) \notin fetched[r][e]
    BY <1>1 DEF Passed
  <2>2. CASE source'[id] = source[id]
    <3>1. id \in Passed(r, e)
      BY <1>1, <1>5, <1>6, <2>1, <2>2 DEF Passed
    <3> QED
      BY <2>2, <3>1 DEF InTime
  <2>3. CASE source'[id] # source[id]
    BY <2>1, <2>3 DEF InTime, SavesNow
  <2> QED
    BY <2>2, <2>3
<1>8. ASSUME NEW id \in IdsOf(e), Ahead(r, e, id)
      PROVE  Ahead(r, e, id)'
  <2>1. id \in Ids /\ id \in S /\ stage[r] = FetchStage(e) /\ Position(id, S) >= offset[r]
    BY <1>1, <1>8 DEF Ahead
  <2>2. id \in T /\ Position(id, T) >= offset[r]
    BY <1>1, <1>4, <1>6, <2>1
  <2> QED
    BY <2>1, <2>2 DEF Ahead
<1> QED
  BY <1>7, <1>8

\* Outside of its fetches a run has passed nothing and has nothing ahead.
LEMMA NoPages ==
    ASSUME NEW r \in Runs, Snapshot(r), \A e \in Entities : stage[r] # FetchStage(e)
    PROVE  offset[r] = 0 /\ \A e \in Entities, id \in Ids : ~Ahead(r, e, id)
BY DEF Snapshot, Ahead

\* A run that goes on with what it has read, and queues nothing else.
LEMMA SnapshotUnmoved ==
    ASSUME IInv, Onward, SavesNow, NEW r \in Runs, Snapshot(r), InTime(r),
           stage'[r] = stage[r] \/ \A e \in Entities : stage[r] # FetchStage(e),
           since'[r] = since[r], offset'[r] = offset[r], fetched'[r] = fetched[r],
           \A m \in queue'[r] : m \in queue[r] \/ \E e \in Entities : m \in fetched[r][e]
    PROVE  Snapshot(r)'
<1>1. TypeOK /\ Reads(r) /\ CatalogueIsSound /\ clock \in Nat
  BY BoundTypes DEF IInv
<1>2. queue[r] \subseteq Events /\ \A e \in Entities : fetched[r][e] \subseteq Events /\ since[r][e] \in Nat
  BY <1>1 DEF TypeOK
<1>3. \A m \in Events : Version(m.id, RowOf(m)) => Version(m.id, RowOf(m))'
  BY <1>1, VersionStays, EventType
<1>4. \A m \in queue'[r] : m \in Events /\ Version(m.id, RowOf(m))
  BY <1>2 DEF Snapshot
<1>5. \A m \in queue'[r] : Version(m.id, RowOf(m))'
  BY <1>3, <1>4
<1>6. ASSUME NEW e \in Entities
      PROVE  PublishedBefore(e, since[r][e])'
  <2>1. PublishedBefore(e, since[r][e]) /\ since[r][e] <= clock /\ since[r][e] \in Nat
    BY <1>1, <1>2 DEF Snapshot, Reads
  <2> DEFINE t == since[r][e]
  <2>2. PublishedBefore(e, t) /\ t <= clock /\ t \in Nat
    BY <2>1
  <2> HIDE DEF t
  <2>3. \A u \in Nat : u <= clock /\ PublishedBefore(e, u) => PublishedBefore(e, u)'
    BY <1>1, PublishedBeforeStays
  <2>4. \A u \in Nat : u = t => PublishedBefore(e, u)'
    BY <2>2, <2>3
  <2> QED
    BY <2>1, <2>4 DEF t, PublishedBefore
<1>7. ASSUME NEW e \in Entities
      PROVE  /\ \A id \in Passed(r, e)' : source'[id].ts = clock'
             /\ \A id \in IdsOf(e) : source'[id] = source[id] /\ Ahead(r, e, id) => Ahead(r, e, id)'
  <2>1. CASE stage'[r] = stage[r]
    BY <1>1, <2>1, PagesStay DEF Snapshot
  <2>2. CASE \A d \in Entities : stage[r] # FetchStage(d)
    <3>1. offset'[r] = 0 /\ \A id \in Ids : ~Ahead(r, e, id)
      BY <2>2, NoPages
    <3> QED
      BY <3>1, NothingPassed DEF IdsOf
  <2> QED
    BY <2>1, <2>2
<1>8. ASSUME NEW e \in Entities, NEW m \in fetched[r][e]
      PROVE  Version(m.id, RowOf(m))' /\ ReadBefore(r, e, m.ts)'
  <2>1. m \in Events /\ m.ts \in Nat /\ m.ts <= clock
    BY <1>1, <1>2, EventType DEF Reads
  <2>2. Version(m.id, RowOf(m))'
    BY <1>3, <2>1 DEF Snapshot
  <2> SUFFICES ASSUME NEW id \in IdsOf(e), source'[id] # NoRow, source'[id].ts < m.ts
               PROVE  \/ (EventOf(id, source[id]) \in fetched[r][e])'
                      \/ Published(e, EventOf(id, source[id]))'
                      \/ Ahead(r, e, id)'
    BY <2>2 DEF ReadBefore
  <2>3. id \in Ids
    BY DEF IdsOf
  <2>4. source'[id] = source[id]
    BY <1>1, <2>1, <2>3 DEF SavesNow
  <2>5. source[id] \in Row /\ source[id].ts # NoTime
    BY <1>1, <2>3, <2>4 DEF TypeOK, Tables, CatalogueIsSound, NoTime
  <2>6. EventOf(id, source[id]) \in Events
    BY <2>3, <2>5, EventOfRow
  <2>7. \/ EventOf(id, source[id]) \in fetched[r][e]
        \/ Published(e, EventOf(id, source[id]))
        \/ Ahead(r, e, id)
    BY <2>4 DEF Snapshot, ReadBefore
  <2>8. \A n \in Events : Published(e, n) => Published(e, n)'
    BY <1>1, PublishedStays
  <2>9. CASE Published(e, EventOf(id, source[id]))
    <3>1. \A n \in Events : n = EventOf(id, source[id]) => Published(e, n)'
      BY <2>8, <2>9
    <3> QED
      BY <2>4, <2>6, <3>1 DEF Published, Reflects
  <2>10. CASE Ahead(r, e, id)
    BY <1>7, <2>4, <2>10
  <2> QED
    BY <2>4, <2>7, <2>9, <2>10
<1>9. offset'[r] # 0 => FetchTime = 0 /\ \E e \in Entities : stage'[r] = FetchStage(e)
  BY NoPages DEF Snapshot
<1> QED
  BY <1>5, <1>6, <1>7, <1>8, <1>9 DEF Snapshot

\* A run that does not move keeps its snapshot.
LEMMA SnapshotStays ==
    ASSUME IInv, Onward, SavesNow, NEW r \in Runs, Snapshot(r), SameRun(r), InTime(r)
    PROVE  Snapshot(r)'
BY SnapshotUnmoved DEF SameRun

LEMMA WatermarkStays ==
    ASSUME IInv, Onward, SavesNow, NEW e \in Entities, PublishedBefore(e, watermark[e]),
           watermark'[e] = watermark[e]
    PROVE  PublishedBefore(e, watermark[e])'
<1>1. TypeOK /\ CatalogueIsSound /\ watermark[e] \in Nat /\ watermark[e] <= clock
  BY DEF IInv, TypeOK, CatalogueIsSound
<1> DEFINE t == watermark[e]
<1>2. PublishedBefore(e, t) /\ t <= clock /\ t \in Nat
  BY <1>1
<1> HIDE DEF t
<1>3. \A u \in Nat : u <= clock /\ PublishedBefore(e, u) => PublishedBefore(e, u)'
  BY <1>1, PublishedBeforeStays
<1>4. \A u \in Nat : u = t => PublishedBefore(e, u)'
  BY <1>2, <1>3
<1> QED
  BY <1>1, <1>4 DEF t, PublishedBefore

-----------------------------------------------------------------------------
(* Under Orderly: the initial states, 1C and the consumer                  *)

LEMMA InitiallyW == Orderly /\ Init => WInv
<1> SUFFICES ASSUME Orderly, Init PROVE WInv
  OBVIOUS
<1>1. SavesArePrompt
  BY DEF SavesArePrompt, Init, Ids
<1>2. StoredVersions
  <2>1. \A id \in Ids : db[id] # NoRow => db[id] = source[id]
    BY DEF Init, DatabaseAtStart
  <2>2. \A id \in Ids : source[id] # NoRow => source[id].ts <= source[id].ts
    BY InitialRows
  <2> QED
    BY <2>1, <2>2 DEF StoredVersions, Version, Init
<1>3. ASSUME NEW e \in Entities
      PROVE  PublishedBefore(e, watermark[e])
  <2> SUFFICES ASSUME NEW id \in IdsOf(e), source[id] # NoRow, source[id].ts < watermark[e]
               PROVE  Published(e, EventOf(id, source[id]))
    BY DEF PublishedBefore
  <2>1. id \in Ids /\ source[id].ts = 1 /\ watermark[e] <= 1 /\ watermark[e] \in Nat
    BY InitialRows, InitialWatermark DEF IdsOf
  <2> QED
    BY <2>1
<1>4. ASSUME NEW r \in Runs PROVE Snapshot(r)
  <2>1. \A e \in Entities : PublishedBefore(e, NoTime)
    BY InitialRows DEF PublishedBefore, NoTime, IdsOf
  <2>2. \A e \in Entities : stage[r] # FetchStage(e)
    BY DEF Init, FetchStage
  <2> QED
    BY <2>1, <2>2 DEF Snapshot, Passed, Init, Nothing
<1> QED
  BY <1>1, <1>2, <1>3, <1>4 DEF WInv

\* A step that leaves the runs, their watermarks and the topics alone.
LEMMA StoredStays ==
    ASSUME IInv, WInv, Onward, SavesNow, SavesArePrompt', StoredVersions',
           UNCHANGED watermark, \A r \in Runs : SameRun(r) /\ InTime(r)
    PROVE  WInv'
<1>1. \A e \in Entities : PublishedBefore(e, watermark[e])'
  BY WatermarkStays DEF WInv
<1>2. \A r \in Runs : Snapshot(r)'
  BY SnapshotStays DEF WInv
<1> QED
  BY <1>1, <1>2 DEF WInv

\* With topics and tables as they were, versions stay versions.
LEMMA StoredVersionsStay ==
    ASSUME IInv, WInv, SavesNow, UNCHANGED <<topic, db>>
    PROVE  StoredVersions'
<1>1. TypeOK /\ StoredVersions
  BY DEF IInv, WInv
<1>2. \A id \in Ids : db[id] # NoRow => Version(id, db[id])'
  <2> SUFFICES ASSUME NEW id \in Ids, db[id] # NoRow
               PROVE  Version(id, db[id])'
    OBVIOUS
  <2>1. db[id] \in Row /\ Version(id, db[id])
    BY <1>1 DEF TypeOK, Tables, StoredVersions
  <2>2. \A row \in Row : row = db[id] => Version(id, row)'
    BY <1>1, <2>1, VersionStays
  <2> QED
    BY <2>1, <2>2 DEF Version
<1>3. ASSUME NEW e \in Entities, NEW o \in DOMAIN topic[e]
      PROVE  Version(topic[e][o].id, RowOf(topic[e][o]))'
  <2>1. topic[e][o] \in Events /\ Version(topic[e][o].id, RowOf(topic[e][o]))
    BY <1>1, TopicMessage DEF StoredVersions
  <2>2. \A m \in Events : Version(m.id, RowOf(m)) => Version(m.id, RowOf(m))'
    BY <1>1, VersionStays, EventType
  <2>3. \A m \in Events : m = topic[e][o] => Version(m.id, RowOf(m))'
    BY <2>1, <2>2
  <2> QED
    BY <2>1, <2>3 DEF Version, RowOf
<1> QED
  BY <1>2, <1>3 DEF StoredVersions, Version, RowOf

LEMMA TickStepW == IInv /\ WInv /\ Tick => WInv'
<1> SUFFICES ASSUME IInv, WInv, Tick PROVE WInv'
  OBVIOUS
<1> USE DEF users, consumer, locking, run
<1>1. TypeOK /\ clock \in Nat /\ clock' = clock + 1
  BY BoundTypes DEF IInv, Tick
<1>2. SavesArePrompt'
  <2>1. \A id \in Ids : saving[id] = NoRow
    BY <1>1 DEF Tick, Orderly, WInv, SavesArePrompt
  <2> QED
    BY <2>1 DEF SavesArePrompt, Tick
<1>3. SavesNow /\ Onward
  BY <1>1, KeepsUpWithItself DEF SavesNow, Onward, Tick, TypeOK
<1>4. StoredVersions'
  BY <1>3, StoredVersionsStay DEF Tick
<1>5. ASSUME NEW r \in Runs PROVE SameRun(r) /\ InTime(r)
  <2> SUFFICES ASSUME NEW e \in Entities, NEW id \in Passed(r, e)
               PROVE  FALSE
    BY DEF SameRun, InTime, Tick
  <2>1. id \in Wanted(r, e) /\ id \in Ids /\ Position(id, Wanted(r, e)) < offset[r]
    BY WantedType DEF Passed
  <2>2. offset[r] # 0
    <3> DEFINE S == Wanted(r, e)
    <3>1. S \in SUBSET Ids
      BY WantedType
    <3>2. Position(id, S) \in Nat
      BY <2>1, <3>1, PositionType
    <3> QED
      BY <2>1, <3>2
  <2>3. FetchTime = 0 /\ source[id].ts = clock
    BY <2>2 DEF WInv, Snapshot
  <2> QED
    BY <1>1, <2>3 DEF Tick
<1> QED
  BY <1>2, <1>3, <1>4, <1>5, StoredStays DEF Tick

LEMMA BeginSaveStepW ==
    ASSUME NEW id \in Ids PROVE IInv /\ WInv /\ BeginSave(id) => WInv'
<1> SUFFICES ASSUME IInv, WInv, BeginSave(id) PROVE WInv'
  OBVIOUS
<1> USE DEF users, consumer, locking, run
<1>1. TypeOK /\ clock \in Nat /\ SaveGap \in Nat
  BY BoundTypes DEF IInv
<1>2. UNCHANGED <<clock, source, topic, db, watermark, run>>
  BY DEF BeginSave
<1>3. SavesArePrompt'
  <2>1. source[id] # NoRow => source[id].ts \in Nat
    BY <1>1 DEF TypeOK, Tables, Row
  <2>2. source[id] # NoRow => source[id].ts < clock
    BY <1>1, <2>1 DEF BeginSave, Orderly, WInv
  <2>3. saving'[id].ts = clock /\ \A i \in Ids \ {id} : saving'[i] = saving[i]
    BY <1>1 DEF BeginSave, TypeOK, Tables
  <2> QED
    BY <1>2, <2>2, <2>3 DEF WInv, SavesArePrompt
<1>4. SavesNow /\ Onward
  BY <1>1, <1>2, OnwardWithoutEffect DEF SavesNow
<1>5. StoredVersions'
  BY <1>2, <1>4, StoredVersionsStay
<1>6. \A r \in Runs : SameRun(r) /\ InTime(r)
  BY <1>2 DEF SameRun, InTime
<1> QED
  BY <1>2, <1>3, <1>4, <1>5, <1>6, StoredStays

LEMMA CommitSaveStepW ==
    ASSUME NEW id \in Ids PROVE IInv /\ WInv /\ CommitSave(id) => WInv'
<1> SUFFICES ASSUME IInv, WInv, CommitSave(id) PROVE WInv'
  OBVIOUS
<1> USE DEF users, consumer, locking, run
<1>1. TypeOK /\ SavesArePrompt
  BY DEF IInv, WInv
<1>2. UNCHANGED <<clock, topic, db, watermark, run>>
  BY DEF CommitSave
<1>3. /\ saving[id] # NoRow /\ source'[id] = saving[id] /\ saving'[id] = NoRow
      /\ \A i \in Ids \ {id} : source'[i] = source[i] /\ saving'[i] = saving[i]
  BY <1>1 DEF CommitSave, TypeOK, Tables
<1>4. SavesArePrompt'
  BY <1>1, <1>2, <1>3 DEF SavesArePrompt
<1>5. SavesNow /\ Onward
  BY <1>1, <1>2, <1>3, OnwardWithoutEffect DEF SavesNow, SavesArePrompt
<1>6. StoredVersions'
  BY <1>2, <1>5, StoredVersionsStay
<1>7. \A r \in Runs : SameRun(r) /\ InTime(r)
  BY <1>2 DEF SameRun, InTime
<1> QED
  BY <1>2, <1>4, <1>5, <1>6, <1>7, StoredStays

LEMMA ApplyStepW ==
    ASSUME NEW e \in Entities PROVE IInv /\ WInv /\ Apply(e) => WInv'
<1> SUFFICES ASSUME IInv, WInv, Apply(e) PROVE WInv'
  OBVIOUS
<1> USE DEF users, consumer, locking, run
<1> DEFINE m == topic[e][applied[e] + 1]
<1>1. TypeOK /\ applied[e] \in Nat /\ topic[e] \in Seq(Events) /\ db \in Tables /\ clock \in Nat
      /\ StoredVersions
  BY BoundTypes DEF IInv, WInv, TypeOK
<1>2. applied[e] + 1 \in DOMAIN topic[e]
  BY <1>1 DEF Apply
<1>3. m \in Events /\ Resolved(m) /\ Version(m.id, RowOf(m))
  BY <1>1, <1>2, TopicMessage DEF StoredVersions
<1>4. db' = Upsert(db, m)
  BY <1>3 DEF ViolatesForeignKey, Resolved, Apply
<1> HIDE DEF m
<1>5. /\ db' \in Tables /\ KeepsUp(db, db')
      /\ \A id \in Ids : db'[id] = db[id] \/ (id = m.id /\ db'[id] = RowOf(m))
  BY <1>1, <1>3, <1>4, UpsertKeepsUp
<1>6. UNCHANGED <<users, topic, watermark, run>>
  BY DEF Apply
<1>7. SavesNow /\ Onward
  BY <1>1, <1>5, <1>6 DEF SavesNow, Onward
<1>8. SavesArePrompt' /\ StoredVersions'
  BY <1>1, <1>3, <1>5, <1>6 DEF WInv, SavesArePrompt, StoredVersions, Version
<1>9. \A r \in Runs : SameRun(r) /\ InTime(r)
  BY <1>6 DEF SameRun, InTime
<1> QED
  BY <1>6, <1>7, <1>8, <1>9, StoredStays

\* Steps that change nothing WInv speaks of.
LEMMA QuietStepW ==
    ASSUME IInv, WInv, UNCHANGED <<users, topic, db, watermark, run>>
    PROVE  WInv'
<1> USE DEF users, run
<1>1. SavesNow /\ Onward
  BY OnwardWithoutEffect DEF SavesNow, IInv
<1>2. SavesArePrompt' /\ StoredVersions'
  BY <1>1, StoredVersionsStay DEF WInv, SavesArePrompt
<1>3. \A r \in Runs : SameRun(r) /\ InTime(r)
  BY DEF SameRun, InTime
<1> QED
  BY <1>1, <1>2, <1>3, StoredStays

-----------------------------------------------------------------------------
(* Under Orderly: the producer's delivery and the runs                     *)

LEMMA DeliverStepW ==
    ASSUME NEW r \in Runs PROVE IInv /\ WInv /\ Deliver(r) => WInv'
<1> SUFFICES ASSUME IInv, WInv, Deliver(r) PROVE WInv'
  OBVIOUS
<1> USE DEF users, consumer, locking, run
<1>1. PICK m \in queue[r] :
         /\ topic' = [topic EXCEPT ![EntityOf(m.id)] = Append(@, m)]
         /\ queue' = [queue EXCEPT ![r] = @ \ {m}]
  BY DEF Deliver
<1>2. TypeOK /\ Snapshot(r) /\ StoredVersions /\ clock \in Nat
  BY BoundTypes DEF IInv, WInv
<1> DEFINE d == EntityOf(m.id)
<1>3. m \in Events /\ d \in Entities /\ topic[d] \in Seq(Events) /\ Version(m.id, RowOf(m))
  <2>1. m \in Events
    BY <1>2 DEF TypeOK
  <2> QED
    BY <1>2, <2>1, EventType, EntityType DEF Snapshot, TypeOK
<1> HIDE DEF d
<1>4. UNCHANGED <<users, consumer, watermark, stage, since, offset, fetched, changed, errors>>
  BY DEF Deliver
<1>5. /\ topic'[d] = Append(topic[d], m)
      /\ \A e \in Entities \ {d} : topic'[e] = topic[e]
      /\ queue'[r] = queue[r] \ {m} /\ \A q \in Runs \ {r} : queue'[q] = queue[q]
  BY <1>1, <1>2, <1>3 DEF TypeOK, d
<1>6. /\ \A o \in DOMAIN topic[d] : o \in DOMAIN topic'[d] /\ topic'[d][o] = topic[d][o]
      /\ \A o \in DOMAIN topic'[d] : topic'[d][o] = m \/ (o \in DOMAIN topic[d] /\ topic'[d][o] = topic[d][o])
  BY <1>3, <1>5
<1>7. SavesNow
  BY <1>4 DEF SavesNow
<1>8. Onward
  <2>1. db' \in Tables /\ KeepsUp(db, db')
    BY <1>2, <1>4, KeepsUpWithItself DEF TypeOK
  <2> QED
    BY <1>2, <1>4, <1>5, <1>6, <2>1 DEF Onward
<1>9. SavesArePrompt'
  BY <1>4 DEF WInv, SavesArePrompt
<1>10. StoredVersions'
  <2>1. \A e \in Entities : \A o \in DOMAIN topic'[e] : Version(topic'[e][o].id, RowOf(topic'[e][o]))
    <3> SUFFICES ASSUME NEW e \in Entities, NEW o \in DOMAIN topic'[e]
                 PROVE  Version(topic'[e][o].id, RowOf(topic'[e][o]))
      OBVIOUS
    <3>1. CASE e = d
      BY <1>2, <1>3, <1>6, <3>1 DEF StoredVersions
    <3>2. CASE e # d
      BY <1>2, <1>5, <3>2 DEF StoredVersions
    <3> QED
      BY <3>1, <3>2
  <2> QED
    BY <1>2, <1>4, <2>1 DEF StoredVersions, Version, RowOf
<1>11. \A e \in Entities : PublishedBefore(e, watermark[e])'
  BY <1>4, <1>7, <1>8, WatermarkStays DEF WInv
<1>12. ASSUME NEW q \in Runs PROVE Snapshot(q)'
  <2>1. \A n \in queue'[q] : n \in queue[q]
    BY <1>5
  <2>2. InTime(q)
    BY <1>4 DEF InTime
  <2> QED
    BY <1>4, <1>7, <1>8, <2>1, <2>2, SnapshotUnmoved DEF WInv
<1> QED
  BY <1>9, <1>10, <1>11, <1>12 DEF WInv

\* A step of one run that leaves 1C, Kafka and the consumer alone.
LEMMA RunMovesW ==
    ASSUME IInv, WInv, UNCHANGED <<users, topic, consumer>>,
           \A e \in Entities : PublishedBefore(e, watermark[e])',
           NEW r \in Runs, \A q \in Runs \ {r} : SameRun(q), Snapshot(r)'
    PROVE  WInv'
<1> USE DEF users, consumer
<1>1. SavesNow /\ Onward
  BY OnwardWithoutEffect DEF SavesNow, IInv
<1>2. SavesArePrompt' /\ StoredVersions'
  BY <1>1, StoredVersionsStay DEF WInv, SavesArePrompt
<1>3. \A q \in Runs \ {r} : Snapshot(q)'
  BY <1>1, SnapshotStays DEF WInv, InTime
<1> QED
  BY <1>2, <1>3 DEF WInv

\* A step of a run that reads nothing and moves no watermark.
LEMMA RunGoesOnW ==
    ASSUME IInv, WInv, UNCHANGED <<users, topic, consumer, watermark, since, offset, fetched>>,
           NEW r \in Runs, \A q \in Runs \ {r} : SameRun(q),
           stage'[r] = stage[r] \/ \A e \in Entities : stage[r] # FetchStage(e),
           \A m \in queue'[r] : m \in queue[r] \/ \E e \in Entities : m \in fetched[r][e]
    PROVE  WInv'
<1>1. SavesNow /\ Onward
  BY OnwardWithoutEffect DEF SavesNow, IInv, users, consumer
<1>2. \A e \in Entities : PublishedBefore(e, watermark[e])'
  BY <1>1, WatermarkStays DEF WInv
<1>3. Snapshot(r)'
  BY <1>1, SnapshotUnmoved DEF WInv, InTime, users
<1> QED
  BY <1>2, <1>3, RunMovesW

LEMMA RunGoesOnStepsW ==
    ASSUME NEW r \in Runs
    PROVE  IInv /\ WInv /\
           (\/ \E m \in Modes : Start(r, m)
            \/ Lock(r) \/ PublishForms(r) \/ FlushForms(r) \/ CompareCounterparties(r)
            \/ PublishCounterparties(r) \/ FlushCounterparties(r) \/ LoseRecord(r)) => WInv'
<1> USE DEF users, consumer, locking, run
<1> SUFFICES ASSUME IInv, WInv PROVE
           (\/ \E m \in Modes : Start(r, m)
            \/ Lock(r) \/ PublishForms(r) \/ FlushForms(r) \/ CompareCounterparties(r)
            \/ PublishCounterparties(r) \/ FlushCounterparties(r) \/ LoseRecord(r)) => WInv'
  OBVIOUS
<1>1. TypeOK /\ Reads(r)
  BY DEF IInv
<1>2. CASE \E m \in Modes : Start(r, m)
  <2>1. \A q \in Runs \ {r} : SameRun(q)
    BY <1>1, <1>2 DEF Start, GoTo, SameRun, TypeOK
  <2> QED
    BY <1>2, <2>1, RunGoesOnW DEF Start, FetchStage
<1>3. CASE Lock(r)
  <2>1. \A q \in Runs \ {r} : SameRun(q)
    BY <1>1, <1>3 DEF Lock, GoTo, SameRun, TypeOK
  <2> QED
    BY <1>3, <2>1, RunGoesOnW DEF Lock, FetchStage
<1>4. CASE PublishForms(r)
  <2>1. \A q \in Runs \ {r} : SameRun(q)
    BY <1>1, <1>4 DEF PublishForms, GoTo, SameRun, TypeOK
  <2>2. fetched[r]["ownership_forms"] \in SUBSET Events
    BY <1>1 DEF TypeOK, Entities
  <2>3. queue'[r] = Changed(r, fetched[r]["ownership_forms"])
    BY <1>1, <1>4 DEF PublishForms, TypeOK
  <2>4. \A m \in queue'[r] : m \in fetched[r]["ownership_forms"]
    BY <1>1, <2>2, <2>3, ChangedOrReflected
  <2> QED
    BY <1>4, <2>1, <2>4, RunGoesOnW DEF PublishForms, Entities, FetchStage
<1>5. CASE FlushForms(r) \/ FlushCounterparties(r)
  <2>1. \A q \in Runs \ {r} : SameRun(q)
    BY <1>1, <1>5 DEF FlushForms, FlushCounterparties, GoTo, SameRun, TypeOK
  <2> QED
    BY <1>5, <2>1, RunGoesOnW DEF FlushForms, FlushCounterparties, FetchStage
<1>6. CASE CompareCounterparties(r)
  <2>1. \A q \in Runs \ {r} : SameRun(q)
    BY <1>1, <1>6 DEF CompareCounterparties, GoTo, SameRun, TypeOK
  <2> QED
    BY <1>6, <2>1, RunGoesOnW DEF CompareCounterparties, FetchStage
<1>7. CASE PublishCounterparties(r)
  <2>1. \A q \in Runs \ {r} : SameRun(q)
    BY <1>1, <1>7 DEF PublishCounterparties, GoTo, SameRun, TypeOK
  <2>2. queue'[r] = changed[r]
    BY <1>1, <1>7 DEF PublishCounterparties, TypeOK
  <2>3. \A m \in queue'[r] : m \in fetched[r]["counterparties"]
    BY <1>1, <2>2 DEF Reads
  <2> QED
    BY <1>7, <2>1, <2>3, RunGoesOnW DEF PublishCounterparties, Entities, FetchStage
<1>8. CASE LoseRecord(r)
  <2>1. \A q \in Runs \ {r} : SameRun(q)
    BY <1>1, <1>8 DEF LoseRecord, SameRun, TypeOK
  <2>2. \A m \in queue'[r] : m \in queue[r]
    BY <1>1, <1>8 DEF LoseRecord, TypeOK
  <2> QED
    BY <1>8, <2>1, <2>2, RunGoesOnW DEF LoseRecord
<1> QED
  BY <1>2, <1>3, <1>4, <1>5, <1>6, <1>7, <1>8

LEMMA ReadWatermarkStepW ==
    ASSUME IInv, WInv, NEW r \in Runs, NEW e \in Entities, ReadWatermark(r, e),
           UNCHANGED <<users, topic, consumer, watermark, offset, fetched, changed, queue, errors>>,
           \A q \in Runs \ {r} : stage'[q] = stage[q], \A d \in Entities : stage[r] # FetchStage(d)
    PROVE  WInv'
<1> USE DEF users, consumer
<1>1. TypeOK /\ CatalogueIsSound /\ Snapshot(r) /\ SavesNow /\ Onward
  BY OnwardWithoutEffect DEF IInv, WInv, SavesNow
<1>2. /\ since'[r][e] = IF mode[r] = "full" THEN NoTime ELSE watermark[e]
      /\ \A d \in Entities \ {e} : since'[r][d] = since[r][d]
      /\ \A q \in Runs \ {r} : since'[q] = since[q]
  BY <1>1 DEF ReadWatermark, TypeOK
<1>3. \A q \in Runs \ {r} : SameRun(q)
  BY <1>2 DEF SameRun
<1>4. \A d \in Entities : PublishedBefore(d, watermark[d])'
  BY <1>1, WatermarkStays DEF WInv
<1>5. Snapshot(r)'
  <2>1. PublishedBefore(e, NoTime)
    <3>1. \A id \in IdsOf(e) : source[id] # NoRow => source[id].ts >= 1
      BY <1>1 DEF IdsOf, CatalogueIsSound, TypeOK
    <3> QED
      BY <1>1, <3>1 DEF PublishedBefore, NoTime, IdsOf, TypeOK, Tables, Row
  <2>2. \A d \in Entities : PublishedBefore(d, since'[r][d])
    BY <1>1, <1>2, <2>1 DEF Snapshot, WInv
  <2>3. \A d \in Entities : PublishedBefore(d, since[r][d])'
    BY <2>2 DEF PublishedBefore, Published, Reflects
  <2>4. \A m \in queue[r] : Version(m.id, RowOf(m))'
    BY <1>1 DEF Snapshot, Version
  <2>5. ASSUME NEW d \in Entities, NEW m \in fetched[r][d]
        PROVE  Version(m.id, RowOf(m))' /\ ReadBefore(r, d, m.ts)'
    <3>1. Version(m.id, RowOf(m))'
      BY <1>1 DEF Snapshot, Version
    <3>2. \A id \in IdsOf(d) : source[id] # NoRow /\ source[id].ts < m.ts =>
              \/ EventOf(id, source[id]) \in fetched[r][d]
              \/ Published(d, EventOf(id, source[id]))
      BY <1>1, NoPages DEF Snapshot, ReadBefore, IdsOf
    <3> QED
      BY <3>1, <3>2 DEF ReadBefore, Published, Reflects
  <2>6. offset'[r] = 0 /\ \A d \in Entities : Passed(r, d)' = {}
    BY <1>1, NoPages, NothingPassed
  <2> QED
    BY <1>1, <2>3, <2>4, <2>5, <2>6 DEF Snapshot
<1> QED
  BY <1>3, <1>4, <1>5, RunMovesW

LEMMA ReadWatermarksStepsW ==
    ASSUME NEW r \in Runs
    PROVE  IInv /\ WInv /\ (ReadFormsWatermark(r) \/ ReadCounterpartiesWatermark(r)) => WInv'
<1> SUFFICES ASSUME IInv, WInv, ReadFormsWatermark(r) \/ ReadCounterpartiesWatermark(r)
             PROVE  WInv'
  OBVIOUS
<1>1. \A q \in Runs \ {r} : stage'[q] = stage[q]
  BY DEF ReadFormsWatermark, ReadCounterpartiesWatermark, GoTo, IInv, TypeOK
<1>2. \A d \in Entities : stage[r] # FetchStage(d)
  BY DEF ReadFormsWatermark, ReadCounterpartiesWatermark, FetchStage
<1> QED
  BY <1>1, <1>2, ReadWatermarkStepW DEF ReadFormsWatermark, ReadCounterpartiesWatermark, Entities

\* A page and what is behind it: the page is short and the last one, or as long
\* as can be.
LEMMA PageSplits ==
    ASSUME NEW S \in SUBSET Ids, NEW k \in Nat, NEW id \in S
    PROVE  \/ Position(id, S) < k
           \/ id \in Page(S, k)
           \/ Cardinality(Page(S, k)) = PageSize /\ Position(id, S) >= k + PageSize
<1>1. Position(id, S) \in Nat /\ PageSize \in Nat /\ Limit(PageSize) = PageSize
  BY PositionType, PageSizes
<1>2. Cardinality(Page(S, k)) \in Nat /\ Cardinality(Page(S, k)) <= PageSize
  BY PageBound
<1>3. CASE Cardinality(Page(S, k)) < PageSize
  BY <1>1, <1>3, ShortPageIsLast
<1>4. CASE Cardinality(Page(S, k)) = PageSize
  BY <1>1, <1>4 DEF Page
<1> QED
  BY <1>1, <1>2, <1>3, <1>4

\* A catalogue that may change while it is read has no full page.
LEMMA FullPage ==
    ASSUME Orderly, NEW e \in Entities, NEW S \in SUBSET IdsOf(e), NEW k \in Nat,
           Cardinality(Page(S, k)) = PageSize
    PROVE  FetchTime = 0
<1> DEFINE ids == IdsOf(e)
           page == Page(S, k)
<1>1. ids \in SUBSET Ids /\ page \in SUBSET ids /\ Cardinality(page) = PageSize
  BY DEF IdsOf, Page
<1>2. FetchTime = 0 \/ Cardinality(ids) < PageSize
  BY DEF Orderly
<1> HIDE DEF ids, page
<1>3. IsFiniteSet(ids) /\ Cardinality(ids) \in Nat
  BY <1>1, OneCServiceAssumption, FS_Subset, FS_CardinalityType
<1>4. Cardinality(page) <= Cardinality(ids)
  BY <1>1, <1>3, FS_Subset
<1> QED
  BY <1>1, <1>2, <1>3, <1>4, PageSizes

\* What is not asked for is older than the watermark.
LEMMA NotWanted ==
    ASSUME TypeOK, CatalogueIsSound, Orderly, NEW r \in Runs, NEW e \in Entities,
           PublishedBefore(e, since[r][e]),
           NEW id \in IdsOf(e), source[id] # NoRow, id \notin Wanted(r, e)
    PROVE  Published(e, EventOf(id, source[id]))
<1>1. id \in Ids /\ source[id].ts \in Nat /\ source[id].ts > 0 /\ since[r][e] \in Nat
  <2>1. id \in Ids /\ source[id] \in Row /\ source[id].ts \in 1..clock /\ clock \in Nat
    BY BoundTypes DEF IdsOf, TypeOK, Tables, CatalogueIsSound
  <2> QED
    BY <2>1 DEF TypeOK
<1>2. ~(source[id].ts > Since(since[r][e]))
  BY DEF Wanted, Selected
<1>3. since[r][e] # NoTime /\ Since(since[r][e]) = since[r][e] - 1 + SessionOffset
  BY <1>1, <1>2 DEF Since, AsUnderstood, NoTime
<1>4. source[id].ts < since[r][e]
  BY <1>1, <1>2, <1>3, OneCServiceAssumption DEF Orderly
<1> QED
  BY <1>4 DEF PublishedBefore

LEMMA FetchStepW ==
    ASSUME IInv, WInv, NEW r \in Runs, NEW e \in Entities, NEW next, FetchPage(r, e, next),
           stage[r] = FetchStage(e), \A d \in Entities : next # FetchStage(d)
    PROVE  WInv'
<1> USE DEF users, consumer
<1>1. /\ TypeOK /\ CatalogueIsSound /\ Reads(r) /\ Snapshot(r) /\ Orderly
      /\ SavesNow /\ Onward /\ clock \in Nat
  BY BoundTypes, OnwardWithoutEffect DEF IInv, WInv, SavesNow, FetchPage
<1> DEFINE S == Wanted(r, e)
           k == offset[r]
           page == Page(S, k)
           new == {EventOf(id, source[id]) : id \in page}
<1>2. S \in SUBSET Ids /\ S \in SUBSET IdsOf(e) /\ k \in Nat /\ PageSize \in Nat
  BY <1>1, WantedType, PageSizes DEF Wanted, Selected, TypeOK
<1>3. page \in SUBSET S /\ Cardinality(page) \in Nat /\ Cardinality(page) <= PageSize
  BY <1>2, PageBound
<1>4. /\ UNCHANGED <<users, topic, consumer, watermark, since, changed, queue, errors>>
      /\ fetched' = [fetched EXCEPT ![r][e] = @ \cup new]
      /\ \/ /\ Cardinality(page) < PageSize
            /\ GoTo(r, next) /\ offset' = [offset EXCEPT ![r] = 0]
         \/ /\ Cardinality(page) = PageSize
            /\ offset' = [offset EXCEPT ![r] = @ + PageSize] /\ UNCHANGED stage
  BY <1>2, <1>3 DEF FetchPage
<1> HIDE DEF new
<1>5. /\ fetched'[r][e] = fetched[r][e] \cup new
      /\ \A d \in Entities \ {e} : fetched'[r][d] = fetched[r][d]
      /\ \A q \in Runs \ {r} : SameRun(q)
  BY <1>1, <1>4 DEF GoTo, SameRun, TypeOK
<1>6. \/ Cardinality(page) < PageSize /\ stage'[r] = next /\ offset'[r] = 0
      \/ Cardinality(page) = PageSize /\ stage'[r] = stage[r] /\ offset'[r] = k + PageSize
  BY <1>1, <1>4 DEF GoTo, TypeOK
<1>7. \A d \in Entities : PublishedBefore(d, watermark[d])'
  BY <1>1, <1>4, WatermarkStays DEF WInv
<1>8. /\ S' = S
      /\ \A id \in S : Position(id, S) \in Nat
      /\ \A d \in Entities \ {e} : stage[r] # FetchStage(d)
  BY <1>2, <1>4, PositionType DEF Wanted, FetchStage, Entities
<1>9. ASSUME NEW m \in new PROVE Version(m.id, RowOf(m)) /\ m.ts \in Nat /\ m.ts <= clock
  <2>1. PICK id \in page : m = EventOf(id, source[id])
    BY DEF new
  <2>2. id \in Ids /\ source[id] # NoRow /\ source[id] \in Row
    BY <1>1, <1>2, <1>3 DEF Wanted, Selected, TypeOK, Tables
  <2>3. source[id].ts # NoTime /\ source[id].ts \in Nat /\ source[id].ts <= clock
    BY <1>1, <2>2 DEF CatalogueIsSound, NoTime, Row
  <2> QED
    BY <2>1, <2>2, <2>3, EventOfRow DEF Version
<1> HIDE DEF S, page, k
<1>10. ASSUME NEW id \in S
       PROVE  \/ Position(id, S) < k
              \/ EventOf(id, source[id]) \in new
              \/ Cardinality(page) = PageSize /\ Position(id, S) >= k + PageSize
  BY <1>2, PageSplits DEF new, page
<1>11. ASSUME NEW id \in S, Position(id, S) < k, source[id].ts # clock
       PROVE  EventOf(id, source[id]) \in fetched[r][e]
  BY <1>1, <1>11 DEF Snapshot, Passed, S, k
<1>12. ASSUME NEW d \in Entities, NEW id \in Passed(r, d)'
       PROVE  source'[id].ts = clock'
  <2>1. stage'[r] = FetchStage(d) /\ EventOf(id, source'[id]) \notin fetched'[r][d]
    BY DEF Passed
  <2>2. stage'[r] = stage[r] /\ d = e /\ offset'[r] = k + PageSize
    BY <1>6, <1>8, <2>1
  <2>3. id \in S /\ Position(id, S) < k + PageSize
    BY <1>8, <2>2 DEF Passed, S
  <2>4. EventOf(id, source[id]) \notin fetched[r][e] /\ EventOf(id, source[id]) \notin new
    BY <1>4, <1>5, <2>1, <2>2
  <2>5. Position(id, S) < k
    BY <1>2, <1>8, <1>10, <2>3, <2>4
  <2> QED
    BY <1>4, <1>11, <2>3, <2>4, <2>5
<1>13. ASSUME NEW id \in IdsOf(e), source[id] # NoRow, source[id].ts < clock
       PROVE  \/ EventOf(id, source[id]) \in fetched'[r][e]
              \/ Published(e, EventOf(id, source[id]))
              \/ Ahead(r, e, id)'
  <2>1. CASE id \notin S
    BY <1>1, <1>13, <2>1, NotWanted DEF Snapshot, S
  <2>2. CASE id \in S /\ Position(id, S) < k
    <3>1. source[id].ts # clock
      BY <1>1, <1>13
    <3> QED
      BY <1>5, <1>11, <2>2, <3>1
  <2>3. CASE /\ id \in S
             /\ Cardinality(page) = PageSize /\ Position(id, S) >= k + PageSize
    <3>1. stage'[r] = FetchStage(e) /\ offset'[r] = k + PageSize
      BY <1>2, <1>6, <2>3
    <3> QED
      BY <1>8, <2>3, <3>1 DEF Ahead, S
  <2> QED
    BY <1>5, <1>10, <2>1, <2>2, <2>3
<1>14. Snapshot(r)'
  <2>1. \A d \in Entities : PublishedBefore(d, since[r][d])'
    BY <1>1, <1>4 DEF Snapshot, PublishedBefore, Published, Reflects
  <2>2. \A m \in queue'[r] : Version(m.id, RowOf(m))'
    BY <1>1, <1>4 DEF Snapshot, Version
  <2>3. ASSUME NEW d \in Entities, NEW m \in fetched'[r][d]
        PROVE  Version(m.id, RowOf(m))
    BY <1>1, <1>5, <1>9 DEF Snapshot
  <2>4. ASSUME NEW d \in Entities, NEW m \in fetched'[r][d],
               NEW id \in IdsOf(d), source[id] # NoRow, source[id].ts < m.ts
        PROVE  \/ EventOf(id, source[id]) \in fetched'[r][d]
               \/ Published(d, EventOf(id, source[id]))
               \/ Ahead(r, d, id)'
    <3>1. CASE d = e
      <4>1. fetched[r][e] \subseteq Events /\ id \in Ids /\ source[id] \in Row
        BY <1>1, <2>4, <3>1 DEF TypeOK, Tables, IdsOf
      <4>2. m.ts \in Nat /\ m.ts <= clock
        BY <1>1, <1>5, <1>9, <3>1, <4>1, EventType DEF Reads
      <4>3. source[id].ts \in Nat
        BY <4>1 DEF Row
      <4>4. source[id].ts < clock
        BY <1>1, <2>4, <4>2, <4>3
      <4> QED
        BY <1>13, <2>4, <3>1, <4>4
    <3>2. CASE d # e
      <4>1. m \in fetched[r][d] /\ ~Ahead(r, d, id)
        BY <1>5, <1>8, <3>2 DEF Ahead
      <4> QED
        BY <1>1, <1>5, <2>4, <3>2, <4>1 DEF Snapshot, ReadBefore
    <3> QED
      BY <3>1, <3>2
  <2>5. ASSUME NEW d \in Entities, NEW m \in fetched'[r][d]
        PROVE  Version(m.id, RowOf(m))' /\ ReadBefore(r, d, m.ts)'
    <3>1. Version(m.id, RowOf(m))'
      BY <1>4, <2>3 DEF Version
    <3> QED
      BY <1>4, <2>4, <3>1 DEF ReadBefore, Published, Reflects
  <2>6. offset'[r] # 0 => FetchTime = 0 /\ stage'[r] = FetchStage(e)
    BY <1>1, <1>2, <1>6, FullPage DEF page
  <2> QED
    BY <1>12, <2>1, <2>2, <2>5, <2>6 DEF Snapshot
<1> QED
  BY <1>4, <1>5, <1>7, <1>14, RunMovesW

LEMMA FetchStepsW ==
    ASSUME NEW r \in Runs
    PROVE  IInv /\ WInv /\ (FetchForms(r) \/ FetchCounterparties(r)) => WInv'
BY FetchStepW DEF FetchForms, FetchCounterparties, FetchStage, Entities

LEMMA EndStepW ==
    ASSUME IInv, WInv, NEW r \in Runs, End(r),
           UNCHANGED <<users, topic, consumer, watermark, queue>>
    PROVE  WInv'
<1> USE DEF users, consumer
<1>1. TypeOK /\ CatalogueIsSound /\ Snapshot(r) /\ SavesNow /\ Onward
  BY OnwardWithoutEffect DEF IInv, WInv, SavesNow
<1>2. /\ since'[r] = [e \in Entities |-> NoTime] /\ offset'[r] = 0 /\ fetched'[r] = Nothing
      /\ \A q \in Runs \ {r} : SameRun(q)
  BY <1>1 DEF End, SameRun, TypeOK
<1>3. \A e \in Entities : PublishedBefore(e, watermark[e])'
  BY <1>1, WatermarkStays DEF WInv
<1>4. Snapshot(r)'
  <2>1. \A e \in Entities : PublishedBefore(e, since[r][e])'
    <3>1. \A id \in Ids : source'[id] # NoRow => ~(source'[id].ts < NoTime)
      BY <1>1 DEF TypeOK, Tables, Row, NoTime
    <3>2. \A e \in Entities : since'[r][e] = NoTime
      BY <1>2
    <3> QED
      BY <3>1, <3>2 DEF PublishedBefore, IdsOf
  <2>2. \A m \in queue'[r] : Version(m.id, RowOf(m))'
    BY <1>1 DEF Snapshot, Version
  <2>3. \A e \in Entities : fetched'[r][e] = {} /\ Passed(r, e)' = {}
    BY <1>2, NothingPassed DEF Nothing
  <2> QED
    BY <1>2, <2>1, <2>2, <2>3 DEF Snapshot
<1> QED
  BY <1>2, <1>3, <1>4, RunMovesW

LEMMA EndStepsW ==
    ASSUME NEW r \in Runs
    PROVE  IInv /\ WInv /\ (Finish(r) \/ FlushFails(r) \/ BarrierTimesOut(r) \/ Fail(r)) => WInv'
BY EndStepW DEF Finish, FlushFails, BarrierTimesOut, Fail

\* Everything older than the newest object fetched was fetched with it, and
\* published before the watermark moves.
LEMMA AdvanceStepW ==
    ASSUME IInv, WInv, NEW r \in Runs, NEW e \in Entities, stage[r] \in PastCounterparties,
           watermark' = Advanced(r, e),
           UNCHANGED <<users, topic, consumer, since, offset, fetched, changed, queue, errors>>,
           \A q \in Runs \ {r} : stage'[q] = stage[q]
    PROVE  WInv'
<1> USE DEF users, consumer
<1>1. /\ TypeOK /\ CatalogueIsSound /\ Reads(r) /\ Handled(r) /\ Snapshot(r)
      /\ SavesNow /\ Onward
  BY OnwardWithoutEffect DEF IInv, WInv, SavesNow
<1>2. \A d \in Entities : stage[r] # FetchStage(d)
  BY DEF PastCounterparties, FetchStage
<1>3. \A m \in fetched[r][e] : Published(e, m)
  BY <1>1 DEF Handled, Entities, PastForms, PastCounterparties
<1>4. ASSUME NEW m \in fetched[r][e] PROVE PublishedBefore(e, m.ts)
  BY <1>1, <1>2, <1>3, NoPages DEF Snapshot, ReadBefore, PublishedBefore, IdsOf
<1>5. ASSUME NEW d \in Entities PROVE PublishedBefore(d, watermark'[d])
  <2>1. CASE watermark'[d] = watermark[d]
    BY <2>1 DEF WInv
  <2>2. CASE watermark'[d] # watermark[d]
    <3>1. d = e /\ \E m \in fetched[r][e] : m.ts = watermark'[d]
      BY <1>1, <2>2, AdvancedWatermark
    <3> QED
      BY <1>4, <3>1
  <2> QED
    BY <2>1, <2>2
<1>6. \A d \in Entities : PublishedBefore(d, watermark[d])'
  BY <1>5 DEF PublishedBefore, Published, Reflects
<1>7. \A q \in Runs \ {r} : SameRun(q)
  BY DEF SameRun
<1>8. Snapshot(r)'
  BY <1>1, <1>2, SnapshotUnmoved DEF InTime
<1> QED
  BY <1>6, <1>7, <1>8, RunMovesW

LEMMA AdvanceStepsW ==
    ASSUME NEW r \in Runs
    PROVE  IInv /\ WInv /\ (AdvanceForms(r) \/ AdvanceCounterparties(r)) => WInv'
<1> SUFFICES ASSUME IInv, WInv, AdvanceForms(r) \/ AdvanceCounterparties(r)
             PROVE  WInv'
  OBVIOUS
<1>1. \A q \in Runs \ {r} : stage'[q] = stage[q]
  BY DEF AdvanceForms, AdvanceCounterparties, GoTo, IInv, TypeOK
<1> QED
  BY <1>1, AdvanceStepW DEF AdvanceForms, AdvanceCounterparties, Entities, PastCounterparties

-----------------------------------------------------------------------------
(* Under Orderly: the theorems                                             *)

LEMMA InductiveW == IInv /\ WInv /\ [Next]_vars => WInv'
<1> SUFFICES ASSUME IInv, WInv, [Next]_vars PROVE WInv'
  OBVIOUS
<1>1. CASE Tick
  BY <1>1, TickStepW
<1>2. ASSUME NEW id \in Ids, BeginSave(id) \/ CommitSave(id) PROVE WInv'
  BY <1>2, BeginSaveStepW, CommitSaveStepW
<1>3. ASSUME NEW e \in Entities, Apply(e) \/ Redeliver(e) PROVE WInv'
  BY <1>3, ApplyStepW, QuietStepW DEF Redeliver
<1>4. ASSUME NEW r \in Runs, \E m \in Modes : Start(r, m) PROVE WInv'
  BY <1>4, RunGoesOnStepsW
<1>5. ASSUME NEW r \in Runs, Proceed(r) PROVE WInv'
  BY <1>5, RunGoesOnStepsW, ReadWatermarksStepsW, FetchStepsW, AdvanceStepsW, EndStepsW
     DEF Proceed
<1>6. ASSUME NEW r \in Runs, Fail(r) \/ Deliver(r) \/ LoseRecord(r) PROVE WInv'
  BY <1>6, EndStepsW, DeliverStepW, RunGoesOnStepsW
<1>7. ASSUME NEW r \in Runs, LoseLockSession(r) PROVE WInv'
  BY <1>7, QuietStepW DEF LoseLockSession, consumer
<1>8. CASE UNCHANGED vars
  BY <1>8, QuietStepW DEF vars, consumer
<1> QED
  BY <1>1, <1>2, <1>3, <1>4, <1>5, <1>6, <1>7, <1>8 DEF Next

\* When saves commit in the second of their stamp, and a fetch of several pages
\* is over within the second of a save it has passed, all that is older than a
\* watermark has been published, and every stored or published row was the
\* object once.
THEOREM OrderlyInvariance == ASSUME Orderly PROVE Spec => []WInv
<1>1. Init => WInv
  BY InitiallyW
<1>2. IInv /\ WInv /\ [Next]_vars => WInv'
  BY InductiveW
<1> QED
  BY <1>1, <1>2, Invariance, PTL DEF Spec

LEMMA NothingHidden == IInv /\ WInv => WatermarkHidesNothing
<1> SUFFICES ASSUME IInv, WInv,
                    \A e \in Entities : applied[e] = Len(topic[e]),
                    NEW id \in Ids, source[id] # NoRow,
                    id \notin Selected(source, IdsOf(EntityOf(id)), Since(watermark[EntityOf(id)]))
             PROVE  db[id] = source[id]
  BY DEF WatermarkHidesNothing
<1> DEFINE e == EntityOf(id)
           m == EventOf(id, source[id])
<1>1. TypeOK /\ CatalogueIsSound /\ AppliedIsReflected /\ StoredVersions
  BY DEF IInv, WInv
<1>2. e \in Entities /\ id \in IdsOf(e)
  BY EntityType
<1> HIDE DEF e
<1>3. /\ source[id] \in Row /\ source[id].ts \in Nat /\ source[id].ts > 0
      /\ source[id].ts # NoTime /\ watermark[e] \in Nat
  BY <1>1, <1>2 DEF TypeOK, Tables, Row, CatalogueIsSound, NoTime
<1>4. source[id].ts < watermark[e]
  <2>1. ~(source[id].ts > Since(watermark[e]))
    BY <1>2 DEF Selected, e
  <2>2. watermark[e] # NoTime /\ Since(watermark[e]) = watermark[e] - 1 + SessionOffset
    BY <1>3, <2>1 DEF Since, AsUnderstood, NoTime
  <2> QED
    BY <1>3, <2>1, <2>2, OneCServiceAssumption DEF WInv, Orderly
<1>5. Published(e, m)
  BY <1>2, <1>4 DEF WInv, PublishedBefore
<1>6. Reflects(db, m)
  <2>1. CASE \E o \in DOMAIN topic[e] : topic[e][o] = m
    <3>1. DOMAIN topic[e] = 1..applied[e]
      BY <1>1, <1>2 DEF TypeOK
    <3> QED
      BY <1>1, <1>2, <2>1, <3>1 DEF AppliedIsReflected
  <2> QED
    BY <1>5, <2>1 DEF Published
<1>7. m.id = id /\ m.ts = source[id].ts
  BY <1>3, EventOfRow
<1>8. db[id] # NoRow /\ db[id].ts >= source[id].ts /\ Version(id, db[id])
  BY <1>1, <1>6, <1>7 DEF Reflects, StoredVersions
<1>9. db[id].ts \in Nat
  BY <1>1, <1>8 DEF TypeOK, Tables, Row
<1> QED
  BY <1>3, <1>8, <1>9 DEF Version

\* Then an incremental run never passes over a change: what it does not fetch
\* is, once the consumer has caught up, in the database as it is in 1C
\* (_since and _advance_state).
THEOREM WatermarkTheorem == ASSUME Orderly PROVE Spec => []WatermarkHidesNothing
<1>1. IInv /\ WInv => WatermarkHidesNothing
  BY NothingHidden
<1> QED
  BY <1>1, Invariance, OrderlyInvariance, PTL
=============================================================================
