--------------------------- MODULE SourceCatalogue ---------------------------
(***************************************************************************)
(* What a catalogue promises to whoever changes it: every change is one    *)
(* step, concerns one object, builds on what that object was, and is       *)
(* stamped no earlier than any change before it.                           *)
(***************************************************************************)
EXTENDS Integers

CONSTANTS
    Ids,  \* the objects
    Seed  \* what the catalogue starts with

VARIABLE rows  \* the objects: how often each was changed, and when

Change(id) ==
    /\ rows' = [rows EXCEPT ![id] = rows'[id]]
    /\ rows'[id].val = rows[id].val + 1
    /\ \A x \in Ids : rows[x].ts <= rows'[id].ts

Init == rows = Seed

Next == \E id \in Ids : Change(id)

Spec == Init /\ [][Next]_rows
=============================================================================
