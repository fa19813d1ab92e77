------------------------- MODULE ConsumerGroupProofs -------------------------
(***************************************************************************)
(* The group's offsets never pass a message that is not settled, for any   *)
(* number of workers and partitions, wherever partitions move while        *)
(* batches are in flight.                                                  *)
(*                                                                         *)
(* A batch has no holes: below each of its messages everything is settled  *)
(* or in it (BatchIsDense), because everything behind the fetch of the     *)
(* owner of a partition is (FetchIsDense), which fetches from an offset    *)
(* that is settled.  Both stay true when the worker loses the partition,   *)
(* since settled messages stay settled: a late commit moves the offset     *)
(* back at worst.                                                          *)
(***************************************************************************)
EXTENDS ConsumerGroup, OffsetProofs

USE DEF group, local

\* Offsets of a batch are below MaxLog, the least and the greatest exist.
LEMMA OffsetsOfBatch ==
    ASSUME NEW S \in SUBSET Positions, NEW p \in Partitions, OffsetsOf(S, p) # {}
    PROVE  /\ Min(OffsetsOf(S, p)) \in Nat /\ <<p, Min(OffsetsOf(S, p))>> \in S
           /\ Max(OffsetsOf(S, p)) \in Nat /\ <<p, Max(OffsetsOf(S, p))>> \in S
           /\ \A o \in Nat : <<p, o>> \in S =>
                 Min(OffsetsOf(S, p)) <= o /\ o <= Max(OffsetsOf(S, p))
<1> DEFINE O == OffsetsOf(S, p)
<1>1. O \in SUBSET (0..(MaxLog - 1)) /\ O \in SUBSET Nat
  BY ConsumerGroupAssumption DEF OffsetsOf
<1>2. \A o \in Nat : <<p, o>> \in S <=> o \in O
  BY DEF OffsetsOf, Positions
<1> HIDE DEF O
<1>3. O # {} => Min(O) \in O /\ \A o \in O : Min(O) <= o
  BY <1>1, MinOfNaturals
<1>4. O # {} => Max(O) \in O /\ \A o \in O : o <= Max(O)
  BY <1>1, MaxOfOffsets, ConsumerGroupAssumption
<1>5. O # {}
  BY DEF O
<1> QED
  BY <1>1, <1>2, <1>3, <1>4, <1>5 DEF O

\* The kind of a message of a batch.
LEMMA KindType ==
    ASSUME IInv, NEW w \in Workers, NEW x \in batch[w] \cup left[w]
    PROVE  /\ x \in Positions /\ x[1] \in Partitions /\ x[2] \in Nat
           /\ x = <<x[1], x[2]>> /\ x[2] < Len(log[x[1]])
           /\ log[x[1]] \in Seq(Kinds)
<1>1. x \in Positions /\ x[2] < Len(log[x[1]])
  BY DEF IInv, TypeOK, InTheLog
<1> QED
  BY <1>1 DEF IInv, TypeOK, Positions

LEMMA Initially == Init => IInv
<1> SUFFICES ASSUME Init
             PROVE  IInv
  OBVIOUS
<1> USE DEF Init
<1>1. TypeOK
  BY ConsumerGroupAssumption DEF TypeOK, Stages
<1> QED
  BY <1>1 DEF IInv, Membership, BatchIsDense, FetchIsDense, BatchIsTreated, InTheLog,
              CommittedIsSettled

LEMMA ProduceStep == ASSUME NEW p \in Partitions PROVE IInv /\ Produce(p) => IInv'
<1> SUFFICES ASSUME IInv, Produce(p)
             PROVE  IInv'
  OBVIOUS
<1>1. PICK k \in Kinds : log' = [log EXCEPT ![p] = Append(@, k)]
  BY DEF Produce
<1>2. /\ Len(log[p]) < MaxLog
      /\ UNCHANGED <<settled, committed, owner, member, moves, stage, position, batch, left, waited,
                     faults>>
  BY DEF Produce
<1>3. log \in [Partitions -> Seq(Kinds)] /\ \A q \in Partitions : Len(log[q]) <= MaxLog
  BY DEF IInv, TypeOK
<1>4. log'[p] = Append(log[p], k) /\ \A q \in Partitions \ {p} : log'[q] = log[q]
  BY <1>1, <1>3
<1>5. Len(log'[p]) = Len(log[p]) + 1 /\ \A i \in 1..Len(log[p]) : log'[p][i] = log[p][i]
  BY <1>3, <1>4
<1>6. \A q \in Partitions : Len(log'[q]) \in Nat /\ Len(log[q]) \in Nat /\ Len(log[q]) <= Len(log'[q])
  BY <1>3, <1>4, <1>5
<1>7. TypeOK'
  <2>1. log' \in [Partitions -> Seq(Kinds)]
    BY <1>1, <1>3
  <2>2. \A q \in Partitions : Len(log'[q]) <= MaxLog
    BY <1>2, <1>3, <1>4, <1>5, ConsumerGroupAssumption
  <2> QED
    BY <1>2, <2>1, <2>2 DEF IInv, TypeOK
<1>8. InTheLog'
  <2>1. ASSUME NEW x \in Positions, x[2] < Len(log[x[1]])
        PROVE  x[2] < Len(log'[x[1]])
    BY <1>6, <2>1 DEF Positions
  <2> QED
    BY <1>2, <2>1 DEF IInv, InTheLog, TypeOK
<1>9. \A w \in Workers : PoisonIn(batch[w])' = PoisonIn(batch[w])
  <2> SUFFICES ASSUME NEW w \in Workers, NEW x \in batch[w]
               PROVE  KindOf(x)' = KindOf(x)
    BY <1>2 DEF PoisonIn
  <2>1. x[1] \in Partitions /\ x[2] \in Nat /\ x[2] < Len(log[x[1]])
    BY KindType
  <2>2. CASE x[1] = p
    <3>1. x[2] + 1 \in 1..Len(log[p])
      BY <1>6, <2>1, <2>2
    <3> QED
      BY <1>5, <2>2, <3>1 DEF KindOf
  <2>3. CASE x[1] # p
    BY <1>4, <2>1, <2>3 DEF KindOf
  <2> QED
    BY <2>2, <2>3
<1>10. BatchIsTreated'
  BY <1>2, <1>9 DEF IInv, BatchIsTreated
<1> QED
  BY <1>2, <1>7, <1>8, <1>10
     DEF IInv, Membership, BatchIsDense, FetchIsDense, CommittedIsSettled

LEMMA AssignStep ==
    ASSUME NEW w \in Workers, NEW p \in Partitions
    PROVE  IInv /\ Assign(w, p) => IInv'
<1> SUFFICES ASSUME IInv, Assign(w, p)
             PROVE  IInv'
  OBVIOUS
<1>1. /\ w \in member /\ owner[p] = NoWorker /\ owner' = [owner EXCEPT ![p] = w]
      /\ position' = [position EXCEPT ![w][p] = committed[p]]
      /\ UNCHANGED <<log, settled, committed, member, moves, stage, batch, left, waited, faults>>
  BY DEF Assign
<1>2. TypeOK'
  BY <1>1 DEF IInv, TypeOK
<1>3. /\ owner'[p] = w /\ \A q \in Partitions \ {p} : owner'[q] = owner[q]
      /\ position'[w][p] = committed[p]
      /\ \A v \in Workers, q \in Partitions :
            v # w \/ q # p => position'[v][q] = position[v][q]
  BY <1>1 DEF IInv, TypeOK
<1>4. FetchIsDense'
  <2> SUFFICES ASSUME NEW v \in Workers, NEW q \in Partitions, stage[v] # "down", owner'[q] = v,
                      NEW o \in 0..(position'[v][q] - 1)
               PROVE  <<q, o>> \in settled \cup batch[v]
    BY <1>1 DEF FetchIsDense
  <2>1. CASE q = p
    BY <1>3, <2>1 DEF IInv, CommittedIsSettled
  <2>2. CASE q # p
    BY <1>3, <2>2 DEF IInv, FetchIsDense
  <2> QED
    BY <2>1, <2>2
<1>5. Membership'
  BY <1>1, <1>3 DEF IInv, Membership
<1> QED
  BY <1>1, <1>2, <1>4, <1>5
     DEF IInv, BatchIsDense, BatchIsTreated, InTheLog, CommittedIsSettled, PoisonIn, KindOf

\* Partitions that nobody has any more disturb nothing.
LEMMA LosingStep ==
    IInv /\ (\/ \E p \in Partitions : Revoke(p)
             \/ \E w \in Workers : Evict(w)) => IInv'
<1> SUFFICES ASSUME IInv, (\E p \in Partitions : Revoke(p)) \/ (\E w \in Workers : Evict(w))
             PROVE  IInv'
  OBVIOUS
<1>1. UNCHANGED <<log, settled, committed, stage, position, batch, left, waited, faults>>
  BY DEF Revoke, Evict
<1>2. /\ TypeOK'
      /\ Membership'
      /\ \A q \in Partitions : owner'[q] = owner[q] \/ owner'[q] = NoWorker
  <2>1. CASE \E p \in Partitions : Revoke(p)
    <3>1. PICK p \in Partitions : Revoke(p)
      BY <2>1
    <3> QED
      BY <3>1, ConsumerGroupAssumption DEF Revoke, IInv, TypeOK, Membership
  <2>2. CASE \E w \in Workers : Evict(w)
    <3>1. PICK w \in Workers : Evict(w)
      BY <2>2
    <3> QED
      BY <3>1, ConsumerGroupAssumption DEF Evict, IInv, TypeOK, Membership
  <2> QED
    BY <2>1, <2>2
<1>3. FetchIsDense'
  BY <1>1, <1>2, ConsumerGroupAssumption DEF IInv, FetchIsDense
<1> QED
  BY <1>1, <1>2, <1>3
     DEF IInv, BatchIsDense, BatchIsTreated, InTheLog, CommittedIsSettled, PoisonIn, KindOf

LEMMA StartStep == ASSUME NEW w \in Workers PROVE IInv /\ Start(w) => IInv'
<1> SUFFICES ASSUME IInv, Start(w)
             PROVE  IInv'
  OBVIOUS
<1>1. /\ stage[w] = "down" /\ w \notin member /\ member' = member \cup {w}
      /\ stage' = [stage EXCEPT ![w] = "polling"] /\ waited' = [waited EXCEPT ![w] = 0]
      /\ UNCHANGED <<log, settled, committed, owner, moves, position, batch, left, faults>>
  BY DEF Start, GoTo, PollsAgain
<1>2. TypeOK'
  BY <1>1 DEF IInv, TypeOK, Stages
<1>3. stage'[w] = "polling" /\ \A v \in Workers \ {w} : stage'[v] = stage[v]
  BY <1>1 DEF IInv, TypeOK
<1>4. batch[w] = {} /\ \A p \in Partitions : owner[p] # w
  BY <1>1, ConsumerGroupAssumption DEF IInv, Membership
<1>5. Membership' /\ FetchIsDense' /\ BatchIsTreated'
  BY <1>1, <1>3, <1>4
     DEF IInv, Membership, FetchIsDense, BatchIsTreated, PoisonIn, KindOf
<1> QED
  BY <1>1, <1>2, <1>5 DEF IInv, BatchIsDense, InTheLog, CommittedIsSettled

LEMMA PollStep ==
    ASSUME NEW w \in Workers, NEW p \in Partitions
    PROVE  IInv /\ Poll(w, p) => IInv'
<1> SUFFICES ASSUME IInv, Poll(w, p)
             PROVE  IInv'
  OBVIOUS
<1> DEFINE n == position[w][p]
<1>1. /\ stage[w] = "polling" /\ owner[p] = w /\ n < Len(log[p])
      /\ batch' = [batch EXCEPT ![w] = @ \cup {<<p, n>>}]
      /\ position' = [position EXCEPT ![w][p] = n + 1]
      /\ UNCHANGED <<log, settled, committed, owner, member, moves, stage, left, waited, faults>>
  BY DEF Poll
<1>2. n \in Nat /\ Len(log[p]) \in Nat /\ Len(log[p]) <= MaxLog /\ MaxLog \in Nat
  BY ConsumerGroupAssumption DEF IInv, TypeOK
<1>3. <<p, n>> \in Positions
  BY <1>1, <1>2 DEF Positions
<1>4. TypeOK'
  <2>1. batch' \in [Workers -> SUBSET Positions]
    BY <1>1, <1>3 DEF IInv, TypeOK
  <2>2. position' \in [Workers -> [Partitions -> Nat]]
    <3>1. position \in [Workers -> [Partitions -> Nat]] /\ n + 1 \in Nat
      BY <1>2 DEF IInv, TypeOK
    <3> HIDE DEF n
    <3> QED
      BY <1>1, <3>1
  <2> QED
    BY <1>1, <2>1, <2>2 DEF IInv, TypeOK
<1>5. /\ batch'[w] = batch[w] \cup {<<p, n>>} /\ \A v \in Workers \ {w} : batch'[v] = batch[v]
      /\ position'[w][p] = n + 1
      /\ \A v \in Workers, q \in Partitions :
            v # w \/ q # p => position'[v][q] = position[v][q]
  BY <1>1 DEF IInv, TypeOK
<1>6. \A o \in 0..(n - 1) : <<p, o>> \in settled \cup batch[w]
  BY <1>1 DEF IInv, FetchIsDense
<1>7. BatchIsDense'
  <2> SUFFICES ASSUME NEW v \in Workers, NEW x \in batch'[v], NEW o \in 0..(x[2] - 1)
               PROVE  <<x[1], o>> \in settled \cup batch'[v]
    BY <1>1 DEF BatchIsDense
  <2>1. CASE x \in batch[v]
    BY <1>5, <2>1 DEF IInv, BatchIsDense
  <2>2. CASE v = w /\ x = <<p, n>>
    BY <1>5, <1>6, <2>2
  <2> QED
    BY <1>5, <2>1, <2>2
<1>8. FetchIsDense'
  <2> SUFFICES ASSUME NEW v \in Workers, NEW q \in Partitions, stage[v] # "down", owner[q] = v,
                      NEW o \in 0..(position'[v][q] - 1)
               PROVE  <<q, o>> \in settled \cup batch'[v]
    BY <1>1 DEF FetchIsDense
  <2>1. CASE v = w /\ q = p
    <3>1. o \in 0..(n - 1) \/ o = n
      BY <1>2, <1>5, <2>1
    <3> QED
      BY <1>5, <1>6, <2>1, <3>1
  <2>2. CASE ~(v = w /\ q = p)
    BY <1>5, <2>2 DEF IInv, FetchIsDense
  <2> QED
    BY <2>1, <2>2
<1>9. InTheLog'
  BY <1>1, <1>5 DEF IInv, InTheLog
<1>10. Membership' /\ BatchIsTreated'
  BY <1>1, <1>5 DEF IInv, Membership, BatchIsTreated, PoisonIn, KindOf
<1> QED
  BY <1>1, <1>4, <1>7, <1>8, <1>9, <1>10 DEF IInv, CommittedIsSettled

\* A worker that goes down forgets its batch.
LEMMA DownStep ==
    ASSUME NEW w \in Workers, IInv,
           stage' = [stage EXCEPT ![w] = "down"], batch' = [batch EXCEPT ![w] = {}],
           left' = [left EXCEPT ![w] = {}], waited' \in [Workers -> Nat], faults' \in 0..MaxFaults,
           UNCHANGED <<log, settled, committed, owner, member, moves, position>>
    PROVE  IInv'
<1>1. TypeOK'
  BY DEF IInv, TypeOK, Stages
<1>2. /\ stage'[w] = "down" /\ batch'[w] = {} /\ left'[w] = {}
      /\ \A v \in Workers \ {w} : stage'[v] = stage[v] /\ batch'[v] = batch[v] /\ left'[v] = left[v]
  BY DEF IInv, TypeOK
<1> QED
  BY <1>1, <1>2
     DEF IInv, Membership, BatchIsDense, FetchIsDense, BatchIsTreated, InTheLog, CommittedIsSettled,
         PoisonIn, KindOf

LEMMA CrashStep ==
    ASSUME NEW w \in Workers
    PROVE  IInv /\ Crash(w) => IInv'
<1> SUFFICES ASSUME IInv, Crash(w)
             PROVE  IInv'
  OBVIOUS
<1>1. /\ stage' = [stage EXCEPT ![w] = "down"] /\ batch' = [batch EXCEPT ![w] = {}]
      /\ left' = [left EXCEPT ![w] = {}]
      /\ UNCHANGED <<log, settled, committed, owner, member, moves, position, waited>>
  BY DEF Crash, GoTo, Drop
<1>2. waited' \in [Workers -> Nat] /\ faults' \in 0..MaxFaults
  BY <1>1, ConsumerGroupAssumption DEF Crash, IInv, TypeOK
<1> QED
  BY <1>1, <1>2, DownStep

\* A step inside a batch settles messages of it and leads to a stage whose
\* condition holds.
LEMMA InsideStep ==
    ASSUME NEW w \in Workers, IInv, stage[w] # "down",
           NEW s \in Stages, s # "down", stage' = [stage EXCEPT ![w] = s],
           NEW L \in SUBSET (batch[w] \cup left[w]), left' = [left EXCEPT ![w] = L],
           settled \subseteq settled', settled' \subseteq settled \cup batch[w] \cup left[w],
           s = "isolating" => batch[w] \subseteq settled' \cup L \cup PoisonIn(batch[w]),
           s = "diverting" => batch[w] \subseteq settled' \cup L,
           s = "committing" => batch[w] \subseteq settled',
           waited' \in [Workers -> Nat],
           UNCHANGED <<log, committed, owner, member, moves, position, batch, faults>>
    PROVE  IInv'
<1>1. TypeOK'
  BY DEF IInv, TypeOK
<1>2. /\ stage'[w] = s /\ left'[w] = L
      /\ \A v \in Workers \ {w} : stage'[v] = stage[v] /\ left'[v] = left[v]
  BY DEF IInv, TypeOK
<1>3. Membership' /\ BatchIsDense' /\ FetchIsDense' /\ CommittedIsSettled'
  BY <1>2 DEF IInv, Membership, BatchIsDense, FetchIsDense, CommittedIsSettled
<1>4. InTheLog'
  BY <1>2 DEF IInv, InTheLog
<1>5. BatchIsTreated'
  BY <1>2 DEF IInv, BatchIsTreated, PoisonIn, KindOf
<1> QED
  BY <1>1, <1>3, <1>4, <1>5 DEF IInv

LEMMA BatchStep ==
    ASSUME NEW w \in Workers
    PROVE  IInv /\ (\/ ProcessBatch(w) \/ Write(w) \/ Isolate(w) \/ ApplyNext(w) \/ Divert(w)
                    \/ SendToDlq(w) \/ EndDelivery(w)) => IInv'
<1> SUFFICES ASSUME IInv,
                    \/ ProcessBatch(w) \/ Write(w) \/ Isolate(w) \/ ApplyNext(w) \/ Divert(w)
                    \/ SendToDlq(w) \/ EndDelivery(w)
             PROVE  IInv'
  OBVIOUS
<1> USE DEF GoTo
<1>1. /\ UNCHANGED <<log, committed, owner, member, moves, position, batch, faults>>
      /\ stage[w] # "down"
  BY DEF ProcessBatch, Write, Isolate, ApplyNext, Divert, SendToDlq, EndDelivery
<1>2. /\ waited \in [Workers -> Nat] /\ stage \in [Workers -> Stages]
      /\ left \in [Workers -> SUBSET Positions]
      /\ stage = [stage EXCEPT ![w] = stage[w]] /\ left = [left EXCEPT ![w] = left[w]]
  BY DEF IInv, TypeOK
<1>3. CASE ProcessBatch(w)
  BY <1>1, <1>2, <1>3, InsideStep DEF ProcessBatch, Stages
<1>4. CASE Write(w)
  BY <1>1, <1>2, <1>4, InsideStep DEF Write, Stages
<1>5. CASE Isolate(w)
  <2>1. waited' \in [Workers -> Nat]
    BY <1>2, <1>5 DEF Isolate, Waits
  <2> QED
    BY <1>1, <1>2, <1>5, <2>1, InsideStep DEF Isolate, Stages
<1>6. CASE ApplyNext(w)
  <2>1. PICK x \in left[w] :
          /\ left' = [left EXCEPT ![w] = @ \ {x}]
          /\ IF KindOf(x) = "valid" THEN settled' = settled \cup {x} /\ waited' = waited
             ELSE Waits(w) /\ settled' = settled
    BY <1>6 DEF ApplyNext
  <2>2. waited' \in [Workers -> Nat]
    BY <1>2, <2>1 DEF Waits
  <2>3. KindOf(x) \in Kinds
    BY KindType DEF KindOf
  <2>4. batch[w] \subseteq settled \cup left[w] \cup PoisonIn(batch[w])
    BY <1>6 DEF ApplyNext, IInv, BatchIsTreated
  <2>5. batch[w] \subseteq settled' \cup (left[w] \ {x}) \cup PoisonIn(batch[w])
    BY <2>1, <2>3, <2>4 DEF PoisonIn, Kinds
  <2>6. stage' = [stage EXCEPT ![w] = "isolating"] /\ stage[w] = "isolating"
    BY <1>2, <1>6 DEF ApplyNext
  <2> DEFINE rest == left[w] \ {x}
  <2>7. rest \in SUBSET (batch[w] \cup left[w]) /\ left' = [left EXCEPT ![w] = rest]
    BY <1>2, <2>1
  <2>8. settled \subseteq settled' /\ settled' \subseteq settled \cup batch[w] \cup left[w]
    BY <2>1
  <2>9. batch[w] \subseteq settled' \cup rest \cup PoisonIn(batch[w])
    BY <2>5
  <2> HIDE DEF rest
  <2> QED
    BY <1>1, <2>2, <2>6, <2>7, <2>8, <2>9, InsideStep DEF Stages
<1>7. CASE Divert(w)
  <2>1. batch[w] \subseteq settled \cup PoisonIn(batch[w]) /\ PoisonIn(batch[w]) \subseteq batch[w]
    BY <1>7 DEF Divert, IInv, BatchIsTreated, PoisonIn
  <2> QED
    BY <1>1, <1>2, <1>7, <2>1, InsideStep DEF Divert, Stages
<1>8. CASE SendToDlq(w)
  <2>1. PICK x \in left[w] : left' = [left EXCEPT ![w] = @ \ {x}] /\ settled' = settled \cup {x}
    BY <1>8 DEF SendToDlq
  <2>2. batch[w] \subseteq settled' \cup (left[w] \ {x})
    BY <1>8, <2>1 DEF SendToDlq, IInv, BatchIsTreated
  <2>3. stage' = [stage EXCEPT ![w] = "diverting"] /\ stage[w] = "diverting" /\ waited' = waited
    BY <1>2, <1>8 DEF SendToDlq
  <2> DEFINE rest == left[w] \ {x}
  <2>4. rest \in SUBSET (batch[w] \cup left[w]) /\ left' = [left EXCEPT ![w] = rest]
    BY <1>2, <2>1
  <2>5. settled \subseteq settled' /\ settled' \subseteq settled \cup batch[w] \cup left[w]
    BY <2>1
  <2>6. batch[w] \subseteq settled' \cup rest
    BY <2>2
  <2> HIDE DEF rest
  <2> QED
    BY <1>1, <1>2, <2>3, <2>4, <2>5, <2>6, InsideStep DEF Stages
<1>9. CASE EndDelivery(w)
  <2>1. batch[w] \subseteq settled
    BY <1>9 DEF EndDelivery, IInv, BatchIsTreated
  <2> QED
    BY <1>1, <1>2, <1>9, <2>1, InsideStep DEF EndDelivery, Stages
<1> QED
  BY <1>3, <1>4, <1>5, <1>6, <1>7, <1>8, <1>9

\* The offsets of a treated batch cover settled messages only.
LEMMA CommitCovers ==
    ASSUME IInv, NEW w \in Workers, stage[w] = "committing"
    PROVE  /\ CommittedAfter(w) \in [Partitions -> Nat]
           /\ \A p \in Partitions : \A o \in 0..(CommittedAfter(w)[p] - 1) : <<p, o>> \in settled
<1> DEFINE S == batch[w]
<1>1. S \in SUBSET Positions /\ committed \in [Partitions -> Nat] /\ S \subseteq settled
  BY DEF IInv, TypeOK, BatchIsTreated
<1>2. ASSUME NEW p \in Partitions
      PROVE  /\ CommittedAfter(w)[p] \in Nat
             /\ \A o \in 0..(CommittedAfter(w)[p] - 1) : <<p, o>> \in settled
  <2>1. CASE OffsetsOf(S, p) = {}
    BY <1>1, <2>1 DEF CommittedAfter, IInv, CommittedIsSettled
  <2>2. CASE OffsetsOf(S, p) # {}
    <3> DEFINE m == Max(OffsetsOf(S, p))
    <3>1. CommittedAfter(w)[p] = m + 1
      BY <2>2 DEF CommittedAfter
    <3>2. m \in Nat /\ <<p, m>> \in S
      BY <1>1, <2>2, OffsetsOfBatch
    <3>3. \A o \in 0..(m - 1) : <<p, o>> \in settled
      BY <1>1, <3>2 DEF IInv, BatchIsDense
    <3> HIDE DEF m
    <3> QED
      BY <1>1, <3>1, <3>2, <3>3
  <2> QED
    BY <2>1, <2>2
<1> QED
  BY <1>2 DEF CommittedAfter

LEMMA CommitStep == ASSUME NEW w \in Workers PROVE IInv /\ Commit(w) => IInv'
<1> SUFFICES ASSUME IInv, Commit(w)
             PROVE  IInv'
  OBVIOUS
<1>1. /\ stage[w] = "committing" /\ committed' = CommittedAfter(w)
      /\ stage' = [stage EXCEPT ![w] = "polling"] /\ waited' = [waited EXCEPT ![w] = 0]
      /\ batch' = [batch EXCEPT ![w] = {}] /\ left' = [left EXCEPT ![w] = {}]
      /\ UNCHANGED <<log, settled, owner, member, moves, position, faults>>
  BY DEF Commit, GoTo, Drop, PollsAgain
<1>2. TypeOK'
  BY <1>1, CommitCovers DEF IInv, TypeOK, Stages
<1>3. /\ stage'[w] = "polling" /\ batch'[w] = {} /\ left'[w] = {}
      /\ \A v \in Workers \ {w} : stage'[v] = stage[v] /\ batch'[v] = batch[v] /\ left'[v] = left[v]
  BY <1>1 DEF IInv, TypeOK
<1>4. batch[w] \subseteq settled
  BY <1>1 DEF IInv, BatchIsTreated
<1>5. CommittedIsSettled'
  BY <1>1, CommitCovers DEF CommittedIsSettled
<1>6. FetchIsDense'
  BY <1>1, <1>3, <1>4 DEF IInv, FetchIsDense
<1> QED
  BY <1>1, <1>2, <1>3, <1>5, <1>6
     DEF IInv, Membership, BatchIsDense, BatchIsTreated, InTheLog, PoisonIn, KindOf

\* A rewound worker has only settled messages behind its fetch.
LEMMA RewindCovers ==
    ASSUME IInv, NEW w \in Workers, stage[w] # "down"
    PROVE  /\ RewoundTo(w) \in [Partitions -> Nat]
           /\ \A p \in Partitions : owner[p] = w =>
                 \A o \in 0..(RewoundTo(w)[p] - 1) : <<p, o>> \in settled
<1> DEFINE S == batch[w]
<1>1. S \in SUBSET Positions /\ position[w] \in [Partitions -> Nat]
  BY DEF IInv, TypeOK
<1>2. ASSUME NEW p \in Partitions
      PROVE  /\ RewoundTo(w)[p] \in Nat
             /\ owner[p] = w => \A o \in 0..(RewoundTo(w)[p] - 1) : <<p, o>> \in settled
  <2>1. CASE OffsetsOf(S, p) = {}
    <3>1. RewoundTo(w)[p] = position[w][p]
      BY <2>1 DEF RewoundTo
    <3>2. \A o \in Nat : <<p, o>> \notin S
      BY <1>1, <2>1 DEF OffsetsOf, Positions
    <3>3. owner[p] = w => \A o \in 0..(position[w][p] - 1) : <<p, o>> \in settled \cup S
      BY DEF IInv, FetchIsDense
    <3> QED
      BY <1>1, <3>1, <3>2, <3>3
  <2>2. CASE OffsetsOf(S, p) # {}
    <3> DEFINE m == Min(OffsetsOf(S, p))
    <3>1. RewoundTo(w)[p] = m
      BY <2>2 DEF RewoundTo
    <3>2. m \in Nat /\ <<p, m>> \in S /\ \A o \in Nat : <<p, o>> \in S => m <= o
      BY <1>1, <2>2, OffsetsOfBatch
    <3>3. \A o \in 0..(m - 1) : <<p, o>> \in settled \cup S
      BY <3>2 DEF IInv, BatchIsDense
    <3> HIDE DEF m
    <3> QED
      BY <3>1, <3>2, <3>3
  <2> QED
    BY <2>1, <2>2
<1> QED
  BY <1>2 DEF RewoundTo

LEMMA RewindStep ==
    ASSUME NEW w \in Workers
    PROVE  IInv /\ (CommitRejected(w) \/ Fails(w)) => IInv'
<1> SUFFICES ASSUME IInv, CommitRejected(w) \/ Fails(w)
             PROVE  IInv'
  OBVIOUS
<1>1. stage[w] # "down" /\ Rewind(w) /\ faults' \in 0..MaxFaults
  BY ConsumerGroupAssumption DEF CommitRejected, Fails, IInv, TypeOK
<1>2. /\ batch' = [batch EXCEPT ![w] = {}] /\ left' = [left EXCEPT ![w] = {}]
      /\ waited' = [waited EXCEPT ![w] = 0] /\ waited' \in [Workers -> Nat]
      /\ UNCHANGED <<log, settled, committed, owner, member, moves>>
  BY <1>1 DEF Rewind, Drop, PollsAgain, IInv, TypeOK
<1>3. CASE stage' = [stage EXCEPT ![w] = "down"] /\ position' = position
  BY <1>1, <1>2, <1>3, DownStep
<1>4. CASE /\ stage' = [stage EXCEPT ![w] = "polling"]
           /\ position' = [position EXCEPT ![w] = RewoundTo(w)]
  <2>1. TypeOK'
    BY <1>1, <1>2, <1>4, RewindCovers DEF IInv, TypeOK, Stages
  <2>2. /\ stage'[w] = "polling" /\ batch'[w] = {} /\ left'[w] = {} /\ position'[w] = RewoundTo(w)
        /\ \A v \in Workers \ {w} : /\ stage'[v] = stage[v] /\ batch'[v] = batch[v]
                                    /\ left'[v] = left[v] /\ position'[v] = position[v]
    BY <1>2, <1>4 DEF IInv, TypeOK
  <2>3. FetchIsDense'
    BY <1>1, <1>2, <2>2, RewindCovers DEF IInv, FetchIsDense
  <2> QED
    BY <1>2, <2>1, <2>2, <2>3
       DEF IInv, Membership, BatchIsDense, BatchIsTreated, InTheLog, CommittedIsSettled, PoisonIn,
           KindOf
<1> QED
  BY <1>1, <1>3, <1>4 DEF Rewind, GoTo

LEMMA StutterStep == IInv /\ UNCHANGED vars => IInv'
BY DEF vars, IInv, TypeOK, Membership, BatchIsDense, FetchIsDense, BatchIsTreated, InTheLog,
       CommittedIsSettled, PoisonIn, KindOf

\* IInv is an invariant of every instance of ConsumerGroup.
THEOREM Invariance == Spec => []IInv
<1>1. IInv /\ [Next]_vars => IInv'
  BY ProduceStep, AssignStep, LosingStep, StartStep, PollStep, CrashStep, BatchStep, CommitStep,
     RewindStep, StutterStep DEF Next, Works
<1> QED
  BY <1>1, Initially, PTL DEF Spec

\* However partitions move, the group's offsets cover settled messages only
\* (_commit, _rewind).
THEOREM NothingIsPassed == Spec => []CommittedIsSettled
BY Invariance, PTL DEF IInv

-----------------------------------------------------------------------------
(* Refinement                                                              *)

LEMMA NextImplements == IInv /\ IInv' /\ Next => [Abstract!Next]_(Abstract!vars)
<1> SUFFICES ASSUME IInv, IInv', Next
             PROVE  [Abstract!Next]_(Abstract!vars)
  OBVIOUS
<1>1. CASE \E p \in Partitions : Produce(p)
  BY <1>1 DEF Produce, Abstract!Next, Abstract!Publish
<1>2. CASE \E w \in Workers : Commit(w)
  <2>1. committed' \in [Partitions -> Nat] /\ CommittedIsSettled' /\ UNCHANGED <<log, settled>>
    BY <1>2 DEF Commit, IInv, TypeOK
  <2> QED
    BY <2>1 DEF Abstract!Next, Abstract!Commit, Abstract!Covered, CommittedIsSettled
<1>3. CASE UNCHANGED <<log, committed>> /\ settled \subseteq settled'
  <2>1. ASSUME NEW x \in settled'
        PROVE  x[1] \in Partitions /\ x[2] \in 0..(Len(log[x[1]]) - 1)
    <3>1. x \in Positions /\ x[2] < Len(log[x[1]])
      BY <1>3, <2>1 DEF IInv, TypeOK, InTheLog
    <3>2. x[1] \in Partitions /\ x[2] \in Nat
      BY <3>1 DEF Positions
    <3>3. Len(log[x[1]]) \in Nat
      BY <3>2 DEF IInv, TypeOK
    <3> QED
      BY <3>1, <3>2, <3>3
  <2> QED
    BY <1>3, <2>1 DEF Abstract!Next, Abstract!Settle
<1>4. \/ \E p \in Partitions : Produce(p)
      \/ \E w \in Workers : Commit(w)
      \/ UNCHANGED <<log, committed>> /\ settled \subseteq settled'
  <2>1. ASSUME NEW w \in Workers, Works(w), ~Commit(w)
        PROVE  UNCHANGED <<log, committed>> /\ settled \subseteq settled'
    BY <2>1 DEF Works, Start, Poll, ProcessBatch, Write, Isolate, ApplyNext, Divert,
                SendToDlq, EndDelivery, CommitRejected, Rewind
  <2> QED
    BY <2>1 DEF Next, Revoke, Evict, Fails, Rewind, Crash, Assign
<1> QED
  BY <1>1, <1>2, <1>3, <1>4

\* The group as a whole promises what one worker promises.
THEOREM ImplementsAtLeastOnce == Spec => DeliversAtLeastOnce
<1>1. Init => Abstract!Init
  BY DEF Init, Abstract!Init
<1>2. IInv /\ IInv' /\ [Next]_vars => [Abstract!Next]_(Abstract!vars)
  BY NextImplements DEF vars, Abstract!vars
<1> QED
  BY <1>1, <1>2, Invariance, PTL DEF Spec, DeliversAtLeastOnce, Abstract!Spec
=============================================================================
