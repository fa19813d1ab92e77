--------------------------- MODULE MCSynchronizer ---------------------------
(* Small instances of Synchronizer for TLC.                                *)
EXTENDS Synchronizer, TLC

MCFormIds == {"ooo"}
MCCounterpartyIds == {"acme"}

MCRow(ts, val, form) == [ts |-> ts, val |-> val, form |-> form]

\* Some order of the references.
MCRefOrder ==
    CHOOSE f \in [Ids -> 1..Cardinality(Ids)] : \A x, y \in Ids : f[x] = f[y] => x = y

\* acme comes before beta.
MCByName == [id \in Ids |-> IF id = "acme" THEN 1 ELSE 2]

MCEmpty == [id \in Ids |-> NoRow]

\* A catalogue of one form and one counterparty that refers to it.
MCFullSource ==
    {[MCEmpty EXCEPT !["ooo"] = MCRow(1, "v1", NoForm), !["acme"] = MCRow(1, "v1", "ooo")]}

\* The same, or without the counterparty.
MCInitialSource == {[MCEmpty EXCEPT !["ooo"] = MCRow(1, "v1", NoForm)]} \cup MCFullSource

\* Counterparties alone, all of them saved in the first second.
MCSeeded == {[id \in Ids |-> MCRow(1, "v1", NoForm)]}

\* A session one hour, here a second, west of UTC.
MCWest == -1

\* Nothing distinguishes one process from another.
MCSymmetry == Permutations(Runs)

\* Nor one counterparty from another, where they are model values.
MCFullSymmetry == Permutations(Runs) \cup Permutations(CounterpartyIds)
=============================================================================
