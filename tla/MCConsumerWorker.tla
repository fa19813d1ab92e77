-------------------------- MODULE MCConsumerWorker --------------------------
(* Small instances of ConsumerWorker for TLC.                              *)
EXTENDS ConsumerWorker

Event(kind, id, form, ts, val) ==
    [kind |-> kind, id |-> id, form |-> form, ts |-> ts, val |-> val]

MCFormIds == {"ooo"}
MCCounterpartyIds == {"acme"}
MCHome == [id \in Ids |-> IF id \in FormIds THEN "forms" ELSE "cps"]

\* A form and two versions of a counterparty, the second moved to the form,
\* so that arrival order, redelivery and isolation all matter; and a message
\* that does not parse.
MCMessages ==
    {Event("event", "ooo", NoForm, 1, "v1"),
     Event("event", "acme", NoForm, 1, "v1"),
     Event("event", "acme", "ooo", 2, "v2"),
     Event("malformed", "acme", NoForm, 1, "v1")}

\* One more that the driver refuses forever.
MCPoisoned == MCMessages \cup {Event("unstorable", "acme", NoForm, 2, "v2")}

\* Two versions of one counterparty saved within the same second in 1C.
MCSameSecond ==
    {Event("event", "acme", NoForm, 1, "v1"), Event("event", "acme", NoForm, 1, "v2")}

MCEmptyTables == [id \in Ids |-> NoRow]

\* Tables with a row that something else left without a source timestamp.
MCInitialTables ==
    {MCEmptyTables,
     [MCEmptyTables EXCEPT !["acme"] = [ts |-> NoTime, val |-> "v1", form |-> NoForm]]}

MCFreshTables == {MCEmptyTables}
=============================================================================
