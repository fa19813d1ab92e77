----------------------------- MODULE OneCSource -----------------------------
(***************************************************************************)
(* integration-service: one fetch of OneCHttpSource                        *)
(* (integration/sources/onec_http.py), page by page, from a catalogue that *)
(* users go on saving, creating and deleting objects in, over HTTP         *)
(* requests that fail and are repeated.                                    *)
(*                                                                         *)
(* A page is answered at one moment, the next page at a later one.  The    *)
(* waits between two attempts are steps of the others.                     *)
(***************************************************************************)
EXTENDS OneCService, Sequences

CONSTANTS
    Retries,            \* ONEC_HTTP_RETRIES
    InitialCatalogues,  \* contents the catalogue may start with
    MaxClock,           \* bound: the last second
    MaxRemovals         \* bound: objects removed physically

ASSUME OneCSourceAssumption ==
    /\ Retries \in Nat
    /\ InitialCatalogues \subseteq {t \in Tables :
           \A id \in Ids : t[id] # NoRow => t[id].ts # NoTime}
    /\ \A t \in InitialCatalogues : \A id \in Ids : t[id] # NoRow => t[id].ts = 1
    /\ MaxClock \in Nat \ {0}
    /\ MaxRemovals \in Nat

VARIABLES
    clock,      \* 1C: the current second
    catalogue,  \* 1C: the objects
    removals,   \* 1C: objects removed so far
    pc,         \* where the fetch is
    since,      \* changed_since
    offset,     \* offset of the page to ask for
    attempt,    \* failed attempts at this page
    pages,      \* the pages read so far
    atStart     \* history: what the first request would have selected

users == <<clock, catalogue, removals>>
fetch == <<pc, since, offset, attempt, pages, atStart>>
vars  == <<users, fetch>>

TypeOK ==
    /\ clock \in 1..MaxClock
    /\ catalogue \in Tables
    /\ \A id \in Ids : catalogue[id] # NoRow => catalogue[id].ts \in 1..clock
    /\ removals \in 0..MaxRemovals
    /\ pc \in {"idle", "request", "done", "failed"}
    /\ since \in 0..(clock - 1)
    /\ offset \in Nat
    /\ attempt \in 0..Retries
    /\ pages \in Seq(SUBSET Events)
    /\ atStart \subseteq Events

Init ==
    /\ clock = 1
    /\ catalogue \in InitialCatalogues
    /\ removals = 0
    /\ pc = "idle"
    /\ since = NoTime /\ offset = 0 /\ attempt = 0
    /\ pages = <<>>
    /\ atStart = {}

-----------------------------------------------------------------------------
(* 1C's users                                                              *)

Tick ==
    /\ clock < MaxClock
    /\ clock' = clock + 1
    /\ UNCHANGED <<catalogue, removals, fetch>>

\* An object is created or saved, and stamped.
Save(id) ==
    /\ catalogue[id] # NoRow => catalogue[id].ts < clock
    /\ \E v \in Values :
        catalogue' = [catalogue EXCEPT ![id] = [ts |-> clock, val |-> v, form |-> NoForm]]
    /\ UNCHANGED <<clock, removals, fetch>>

\* An object is removed from the infobase, not only marked.
Remove(id) ==
    /\ catalogue[id] # NoRow
    /\ removals < MaxRemovals
    /\ catalogue' = [catalogue EXCEPT ![id] = NoRow]
    /\ removals' = removals + 1
    /\ UNCHANGED <<clock, fetch>>

-----------------------------------------------------------------------------
(* The fetch                                                               *)

Selection == Selected(catalogue, Ids, since)
Read(S) == {EventOf(id, catalogue[id]) : id \in S}

\* fetch_counterparties or fetch_ownership_forms is called.
Begin ==
    /\ pc = "idle"
    /\ pc' = "request"
    /\ \E t \in 0..(clock - 1) :
        /\ since' = t
        /\ atStart' = Read(Selected(catalogue, Ids, t))
    /\ UNCHANGED <<users, offset, attempt, pages>>

\* Mutant of Extended: the latest page comes first.
ExtendedInFront(read, page) == <<page>> \o read

\* result.extend(page)
Extended(read, page) == Append(read, page)

\* The service answers a page; a short page is the last one.
Answer ==
    /\ pc = "request"
    /\ LET page == Page(Selection, offset) IN
       /\ pages' = Extended(pages, Read(page))
       /\ IF Cardinality(page) < PageSize
          THEN pc' = "done" /\ UNCHANGED offset
          ELSE offset' = offset + Cardinality(page) /\ UNCHANGED pc
    /\ attempt' = 0
    /\ UNCHANGED <<users, since, atStart>>

\* Mutant of AskAgain: the fetch begins again, with all its attempts.
BeginAgain ==
    /\ attempt' = 0
    /\ offset' = 0
    /\ pages' = <<>>

\* The same page is asked for once more.
AskAgain ==
    /\ attempt' = attempt + 1
    /\ UNCHANGED <<offset, pages>>

\* A transport error, 429 or 5xx, with attempts left.
RetriableError ==
    /\ pc = "request"
    /\ attempt < Retries
    /\ AskAgain
    /\ UNCHANGED <<users, pc, since, atStart>>

\* The last attempt fails, or another status, or an answer that is not a list:
\* an exception, and what was read is dropped.
Raise ==
    /\ pc = "request"
    /\ pc' = "failed"
    /\ pages' = <<>>
    /\ UNCHANGED <<users, since, offset, attempt, atStart>>

Client == Begin \/ Answer \/ RetriableError \/ Raise

Next ==
    \/ Tick
    \/ \E id \in Ids : Save(id) \/ Remove(id)
    \/ Client

Spec == Init /\ [][Next]_vars

\* Requests time out (ONEC_TIMEOUT) and waits are bounded; 1C may fail as
\* often as it likes.
FairSpec == Spec /\ WF_vars(Client)

-----------------------------------------------------------------------------
(* Properties                                                              *)

Contains(read, id, ts) == \E i \in DOMAIN read : \E m \in read[i] : m.id = id /\ m.ts >= ts

\* A fetch that returns has everything that was there to be fetched when it
\* began, as it was or newer, however objects move between the pages while
\* they are read (_get_all).  An object removed meanwhile moves the others
\* forward, over the boundary of a page: then it does not hold.
FetchIsComplete ==
    pc = "done" /\ removals = 0 => \A m \in atStart : Contains(pages, m.id, m.ts)

\* An object that was read twice, on two pages, is in the list with its
\* newest version last: they are published in this order.
NewestLast ==
    \A i, j \in DOMAIN pages : \A m \in pages[i], n \in pages[j] :
        i < j /\ m.id = n.id => m.ts <= n.ts

\* A fetch ends, with the list or an exception, even if 1C fails forever.
EveryFetchEnds == pc = "request" ~> pc \in {"done", "failed"}

-----------------------------------------------------------------------------
(* The invariant behind FetchIsComplete                                    *)

\* Nothing is read before a fetch begins.
AtTheBeginning == pc = "idle" => offset = 0 /\ pages = <<>>

\* Whatever was there when the fetch began is still there, as it was or newer.
StillSelected ==
    pc = "request" /\ removals = 0 =>
        \A m \in atStart : m.id \in Selection /\ catalogue[m.id].ts >= m.ts

\* What was there and has not been read is still ahead: creations and saves
\* only ever move it further back.
AheadOrRead ==
    pc = "request" /\ removals = 0 =>
        \A m \in atStart : Position(m.id, Selection) >= offset \/ Contains(pages, m.id, m.ts)

\* The catalogue holds nothing older than what was read, unless it was removed.
ReadIsOlder ==
    \A i \in DOMAIN pages : \A m \in pages[i] :
        m.ts <= clock /\ (catalogue[m.id] # NoRow => m.ts <= catalogue[m.id].ts)

IInv ==
    /\ TypeOK
    /\ AtTheBeginning
    /\ StillSelected
    /\ AheadOrRead
    /\ FetchIsComplete
    /\ ReadIsOlder
    /\ NewestLast
=============================================================================
