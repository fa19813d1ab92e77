---------------------------- MODULE OneCService -----------------------------
(***************************************************************************)
(* What one request to the HTTP service of 1C answers                      *)
(* (1c/src/HTTPServices/ИнтеграционныйСервис) and how the client sizes its *)
(* pages (integration/sources/onec_http.py): the objects of a catalogue    *)
(* changed after a moment, in the order of their references, cut into      *)
(* pages by limit and offset.  Every request is a query of its own.        *)
(***************************************************************************)
EXTENDS RowStore, FiniteSets

CONSTANTS
    RefOrder,            \* the order of the references (УПОРЯДОЧИТЬ ПО Т.Ссылка)
    ConfiguredPageSize,  \* ONEC_PAGE_SIZE
    LimitMax,            \* the longest page on either side (5000)
    SessionOffset        \* the offset from UTC of the PostgreSQL session's TimeZone

ASSUME OneCServiceAssumption ==
    /\ IsFiniteSet(Ids)
    /\ RefOrder \in [Ids -> Nat]
    /\ \A x, y \in Ids : RefOrder[x] = RefOrder[y] => x = y
    /\ ConfiguredPageSize \in Int
    /\ LimitMax \in Nat \ {0}
    /\ SessionOffset \in Int

Clamp(n, low, high) == IF n < low THEN low ELSE IF n > high THEN high ELSE n

\* The client's page size: min(5000, max(1, page_size)).
PageSize == Clamp(ConfiguredPageSize, 1, LimitMax)

\* Mutant of Limit: the service allows one object less than the client asks.
LimitTooLow(requested) == Clamp(requested, 1, LimitMax - 1)

\* The service's own bounds of the limit parameter.
Limit(requested) == Clamp(requested, 1, LimitMax)

\* What 1C understands of a moment that comes from PostgreSQL: psycopg gives it
\* in the time zone of the session, isoformat writes that time and its offset,
\* ISOВДату reads the digits of the time and ignores the offset.
AsUnderstood(moment) == moment + SessionOffset

\* The moment a client with this watermark asks for: a second earlier, and
\* none (NoTime) without a watermark.
Since(watermark) == IF watermark = NoTime THEN NoTime ELSE AsUnderstood(watermark - 1)

\* The objects among ids changed after a moment, all of them when there is
\* none (every object has a ДатаИзменения later than NoTime).
Selected(table, ids, since) == {id \in ids : table[id] # NoRow /\ table[id].ts > since}

\* How many of the selected objects come before this one.
Position(id, S) == Cardinality({x \in S : RefOrder[x] < RefOrder[id]})

\* The page behind an offset.
Page(S, offset) ==
    {id \in S : Position(id, S) \in offset..(offset + Limit(PageSize) - 1)}

\* Mutant of EventOf: an event without updated_at.
EventUndated(id, row) ==
    [kind |-> "event", id |-> id, form |-> row.form, ts |-> NoTime, val |-> row.val]

\* An object as the service delivers it and as it is later published.
EventOf(id, row) ==
    [kind |-> "event", id |-> id, form |-> row.form, ts |-> row.ts, val |-> row.val]

Events == {m \in Message : m.kind = "event"}
=============================================================================
