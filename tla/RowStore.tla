------------------------------ MODULE RowStore ------------------------------
(***************************************************************************)
(* The vocabulary shared by the modules of this project: the events of the *)
(* two Kafka topics, the rows of the two PostgreSQL tables and the upsert  *)
(* the consumer applies to them (consumer/db.py, consumer/models.py and    *)
(* migrations/V1__init.sql).  Names, codes and INN/KPP are one opaque      *)
(* value; what the code compares is kept: primary key, source timestamp    *)
(* and foreign key.                                                        *)
(***************************************************************************)
EXTENDS Integers

CONSTANTS
    FormIds,          \* primary keys of ownership_forms
    CounterpartyIds,  \* primary keys of counterparties
    Values,           \* the payload columns, as opaque versions
    NoForm,           \* ownership_form_id is NULL
    NoRow             \* the table has no row with this key

Ids == FormIds \cup CounterpartyIds

\* source_updated_at: NoTime is the column's NULL, which only rows written
\* by something other than the consumer can hold.
NoTime == 0

Row == [ts : Nat, val : Values, form : FormIds \cup {NoForm}]

Tables == [Ids -> Row \cup {NoRow}]

\* What one message of a topic is for the consumer:
\*   event       parse_event accepts it and PostgreSQL can store it
\*   unstorable  parse_event accepts it, the driver can never store it
\*               (a NUL character in a string is psycopg.DataError)
\*   malformed   parse_event raises
Kinds == {"event", "unstorable", "malformed"}

Message == [kind : Kinds, id : Ids, form : FormIds \cup {NoForm},
            ts : Nat \ {NoTime}, val : Values]

ASSUME RowStoreAssumption ==
    /\ FormIds \cap CounterpartyIds = {}
    /\ NoForm \notin Ids
    /\ NoRow \notin Row

IsForm(m) == m.id \in FormIds

\* Does parse_event accept the message?
Parses(m) == m.kind # "malformed"

\* The columns an event writes.
RowOf(m) == [ts |-> m.ts, val |-> m.val, form |-> m.form]

\* Mutant of TakesEffect: an upsert without the WHERE clause.
AlwaysTakesEffect(table, m) == TRUE

\* The upsert inserts a missing row, and replaces an existing one unless it
\* is strictly newer (ON CONFLICT ... WHERE).
TakesEffect(table, m) ==
    table[m.id] # NoRow =>
        \/ table[m.id].ts = NoTime
        \/ m.ts # NoTime /\ m.ts >= table[m.id].ts

\* Mutant of Upsert: ON CONFLICT forgets to set ownership_form_id.
UpsertKeepingForm(table, m) ==
    IF TakesEffect(table, m)
    THEN [table EXCEPT ![m.id] =
            IF @ = NoRow THEN RowOf(m) ELSE [RowOf(m) EXCEPT !.form = table[m.id].form]]
    ELSE table

Upsert(table, m) ==
    IF TakesEffect(table, m)
    THEN [table EXCEPT ![m.id] = RowOf(m)]
    ELSE table

\* counterparties.ownership_form_id REFERENCES ownership_forms(id): a row
\* about to be written needs its form, a row that is skipped does not.
ViolatesForeignKey(table, m) ==
    /\ TakesEffect(table, m)
    /\ m.form # NoForm
    /\ table[m.form] = NoRow

\* The table holds the event or something at least as new.
Reflects(table, m) ==
    /\ m.kind = "event"
    /\ table[m.id] # NoRow
    /\ table[m.id].ts >= m.ts
=============================================================================
