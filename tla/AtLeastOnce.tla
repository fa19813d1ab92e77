----------------------------- MODULE AtLeastOnce -----------------------------
(***************************************************************************)
(* What the consumer promises to whoever publishes to Kafka, without       *)
(* saying how: a message is settled once and for all when the tables hold  *)
(* it or something newer, or when a dead-letter topic holds it, and the    *)
(* group's offsets only ever cover settled messages.  Offsets may be       *)
(* committed late, or move back; then messages are delivered again.        *)
(***************************************************************************)
EXTENDS Integers, Sequences

CONSTANTS
    Partitions,  \* the partitions of both topics
    Messages     \* the messages the topics may receive

VARIABLES
    log,        \* the messages of every partition
    settled,    \* the positions <<partition, offset>> that are done with
    committed   \* the offset up to which nothing will be delivered again

Init ==
    /\ log = [p \in Partitions |-> <<>>]
    /\ settled = {}
    /\ committed = [p \in Partitions |-> 0]

\* A message older than what is stored is settled as it arrives.
Publish(p, m) ==
    /\ log' = [log EXCEPT ![p] = Append(@, m)]
    /\ settled' \in {settled, settled \cup {<<p, Len(log[p])>>}}
    /\ UNCHANGED committed

\* Some published messages are settled, none is unsettled.
Settle ==
    /\ settled \subseteq settled'
    /\ \A x \in settled' \ settled : x[1] \in Partitions /\ x[2] \in 0..(Len(log[x[1]]) - 1)
    /\ UNCHANGED <<log, committed>>

Covered(p, n) == \A o \in 0..(n - 1) : <<p, o>> \in settled

Commit ==
    /\ committed' \in [Partitions -> Nat]
    /\ \A p \in Partitions : Covered(p, committed'[p])
    /\ UNCHANGED <<log, settled>>

Next ==
    \/ \E p \in Partitions, m \in Messages : Publish(p, m)
    \/ Settle
    \/ Commit

vars == <<log, settled, committed>>

Spec == Init /\ [][Next]_vars
=============================================================================
