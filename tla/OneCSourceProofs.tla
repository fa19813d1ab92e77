-------------------------- MODULE OneCSourceProofs --------------------------
(***************************************************************************)
(* A fetch page by page misses nothing, for every catalogue, page size and *)
(* number of users: IInv of OneCSource is an invariant.                    *)
(*                                                                         *)
(* Creations and saves only add to what is selected, so positions only     *)
(* grow (PositionGrows of OneCServiceProofs): an object not read yet stays *)
(* ahead of the offset, and a short page has nothing behind it.            *)
(***************************************************************************)
EXTENDS OneCSource, OneCServiceProofs

-----------------------------------------------------------------------------
(* The selection                                                           *)

\* What the type invariant says of an object.
LEMMA CatalogueRow ==
    ASSUME TypeOK, NEW id \in Ids, catalogue[id] # NoRow
    PROVE  /\ catalogue[id] \in Row
           /\ catalogue[id].ts \in 1..clock
           /\ EventOf(id, catalogue[id]) \in Events
           /\ EventOf(id, catalogue[id]).id = id
           /\ EventOf(id, catalogue[id]).ts = catalogue[id].ts
<1>1. clock \in Nat /\ catalogue[id] \in Row /\ catalogue[id].ts \in 1..clock
  BY DEF TypeOK, Tables
<1> QED
  BY <1>1 DEF Row, EventOf, Events, Message, Kinds, NoTime

\* Events about a part of the catalogue are events, no newer than the objects.
LEMMA ReadType ==
    ASSUME TypeOK, NEW S \in SUBSET Ids, \A id \in S : catalogue[id] # NoRow
    PROVE  /\ Read(S) \in SUBSET Events
           /\ \A m \in Read(S) : m.id \in S /\ m.ts = catalogue[m.id].ts /\ m.ts \in 1..clock
           /\ \A id \in S : \E m \in Read(S) : m.id = id /\ m.ts = catalogue[id].ts
BY CatalogueRow DEF Read

\* The selection holds objects only.
LEMMA SelectionType ==
    ASSUME NEW t
    PROVE  /\ Selected(catalogue, Ids, t) \in SUBSET Ids
           /\ \A id \in Selected(catalogue, Ids, t) : catalogue[id] # NoRow
BY DEF Selected

-----------------------------------------------------------------------------
(* The invariant                                                           *)

LEMMA Initially == Init => IInv
<1> SUFFICES ASSUME Init
             PROVE  IInv
  OBVIOUS
<1>1. TypeOK
  <2>1. catalogue \in Tables /\ \A id \in Ids : catalogue[id] # NoRow => catalogue[id].ts \in 1..clock
    BY OneCSourceAssumption DEF Init
  <2> QED
    BY <2>1, OneCSourceAssumption DEF Init, TypeOK, NoTime
<1> QED
  BY <1>1 DEF Init, IInv, AtTheBeginning, StillSelected, AheadOrRead, FetchIsComplete, ReadIsOlder, NewestLast

\* Users only add to what is selected as long as they remove nothing.
LEMMA TickStep == IInv /\ Tick => IInv'
<1> SUFFICES ASSUME IInv, Tick
             PROVE  IInv'
  OBVIOUS
<1>1. TypeOK'
  <2>1. /\ clock' = clock + 1 /\ clock < MaxClock /\ clock \in 1..MaxClock /\ MaxClock \in Nat
        /\ UNCHANGED <<catalogue, removals, pc, since, offset, attempt, pages, atStart>>
    BY OneCSourceAssumption DEF Tick, IInv, TypeOK, fetch
  <2>2. clock' \in 1..MaxClock /\ since' \in 0..(clock' - 1)
    BY <2>1 DEF IInv, TypeOK
  <2>3. \A id \in Ids : catalogue'[id] # NoRow => catalogue'[id].ts \in 1..clock'
    BY <2>1 DEF IInv, TypeOK
  <2> QED
    BY <2>1, <2>2, <2>3 DEF IInv, TypeOK
<1>2. Selection' = Selection
  BY DEF Tick, fetch, Selection, Selected
<1>3. \A i \in DOMAIN pages : \A m \in pages[i] : m.ts \in Nat
  BY DEF IInv, TypeOK, Events, Message
<1>4. ReadIsOlder'
  BY <1>3 DEF Tick, fetch, IInv, ReadIsOlder, TypeOK
<1> QED
  BY <1>1, <1>2, <1>4
     DEF Tick, fetch, IInv, AtTheBeginning, StillSelected, AheadOrRead, FetchIsComplete, NewestLast, Contains,
         Position

LEMMA SaveStep == IInv /\ (\E id \in Ids : Save(id)) => IInv'
<1> SUFFICES ASSUME IInv, NEW id \in Ids, Save(id)
             PROVE  IInv'
  OBVIOUS
<1>1. PICK v \in Values :
          catalogue' = [catalogue EXCEPT ![id] = [ts |-> clock, val |-> v, form |-> NoForm]]
  BY DEF Save
<1>2. UNCHANGED <<clock, removals, pc, since, offset, attempt, pages, atStart>>
  BY DEF Save, fetch
<1>3. /\ catalogue'[id] = [ts |-> clock, val |-> v, form |-> NoForm]
      /\ catalogue'[id] # NoRow /\ catalogue'[id].ts = clock
      /\ \A x \in Ids : x # id => catalogue'[x] = catalogue[x]
      /\ catalogue' \in Tables
  <2>1. [ts |-> clock, val |-> v, form |-> NoForm] \in Row
    BY DEF IInv, TypeOK, Row
  <2> QED
    BY <1>1, <2>1, RowStoreAssumption DEF IInv, TypeOK, Tables
<1>4. clock \in Nat \ {0} /\ since \in 0..(clock - 1)
  BY DEF IInv, TypeOK
<1>5. TypeOK'
  BY <1>2, <1>3, <1>4 DEF IInv, TypeOK
<1>6. /\ Selection \in SUBSET Selection' /\ Selection' \in SUBSET Ids
      /\ \A x \in Selection : x # id => catalogue'[x] = catalogue[x]
  BY <1>2, <1>3, <1>4 DEF Selection, Selected
<1>7. \A m \in atStart : m.id \in Ids /\ m.ts \in Nat
  BY DEF IInv, TypeOK, Events, Message
<1>8. \A i \in DOMAIN pages : \A m \in pages[i] : m.id \in Ids /\ m.ts \in Nat
  BY DEF IInv, TypeOK, Events, Message
<1>9. StillSelected'
  <2> SUFFICES ASSUME pc = "request", removals = 0, NEW m \in atStart
               PROVE  m.id \in Selection' /\ catalogue'[m.id].ts >= m.ts
    BY <1>2 DEF StillSelected
  <2>1. m.id \in Selection /\ catalogue[m.id].ts >= m.ts
    BY DEF IInv, StillSelected
  <2>2. catalogue[m.id] # NoRow /\ catalogue[m.id].ts \in 1..clock
    BY <1>7, <2>1, SelectionType, CatalogueRow DEF IInv, Selection
  <2> QED
    BY <1>3, <1>4, <1>6, <1>7, <2>1, <2>2
<1>10. AheadOrRead'
  <2> SUFFICES ASSUME pc = "request", removals = 0, NEW m \in atStart
               PROVE  Position(m.id, Selection') >= offset \/ Contains(pages, m.id, m.ts)
    BY <1>2 DEF AheadOrRead, Contains
  <2>1. Position(m.id, Selection) <= Position(m.id, Selection')
    BY <1>6, <1>7, PositionGrows
  <2>2. Position(m.id, Selection) \in Nat /\ Position(m.id, Selection') \in Nat
    BY <1>6, <1>7, PositionType
  <2>3. Position(m.id, Selection) >= offset \/ Contains(pages, m.id, m.ts)
    BY DEF IInv, AheadOrRead
  <2> QED
    BY <2>1, <2>2, <2>3 DEF IInv, TypeOK
<1>11. ReadIsOlder'
  BY <1>2, <1>3, <1>8 DEF IInv, ReadIsOlder
<1> QED
  BY <1>2, <1>5, <1>9, <1>10, <1>11
     DEF IInv, AtTheBeginning, FetchIsComplete, NewestLast, Contains

LEMMA RemoveStep == IInv /\ (\E id \in Ids : Remove(id)) => IInv'
<1> SUFFICES ASSUME IInv, NEW id \in Ids, Remove(id)
             PROVE  IInv'
  OBVIOUS
<1>1. /\ catalogue' = [catalogue EXCEPT ![id] = NoRow]
      /\ removals' = removals + 1 /\ removals < MaxRemovals
      /\ UNCHANGED <<clock, pc, since, offset, attempt, pages, atStart>>
  BY DEF Remove, fetch
<1>2. removals \in Nat /\ removals' # 0
  BY <1>1 DEF IInv, TypeOK
<1>3. TypeOK'
  BY <1>1, OneCSourceAssumption DEF IInv, TypeOK, Tables
<1>4. ReadIsOlder'
  <2>1. \A i \in DOMAIN pages : \A m \in pages[i] : m.id \in Ids
    BY DEF IInv, TypeOK, Events, Message
  <2>2. \A x \in Ids : catalogue'[x] # NoRow => catalogue'[x] = catalogue[x]
    BY <1>1 DEF IInv, TypeOK, Tables
  <2> QED
    BY <1>1, <2>1, <2>2 DEF IInv, ReadIsOlder
<1> QED
  BY <1>1, <1>2, <1>3, <1>4
     DEF IInv, AtTheBeginning, StillSelected, AheadOrRead, FetchIsComplete, NewestLast
\* A fetch begins with everything ahead of it.
LEMMA BeginStep == IInv /\ Begin => IInv'
<1> SUFFICES ASSUME IInv, Begin
             PROVE  IInv'
  OBVIOUS
<1>1. PICK t \in 0..(clock - 1) : since' = t /\ atStart' = Read(Selected(catalogue, Ids, t))
  BY DEF Begin
<1>2. /\ pc = "idle" /\ pc' = "request" /\ pages = <<>>
      /\ UNCHANGED <<clock, catalogue, removals, offset, attempt, pages>>
  BY DEF Begin, users, IInv, AtTheBeginning
<1>3. /\ atStart' \in SUBSET Events
      /\ \A m \in atStart' : m.id \in Selection' /\ m.ts = catalogue[m.id].ts /\ m.ts \in Nat
  <2>1. Selection' = Selected(catalogue, Ids, t)
    BY <1>1, <1>2 DEF Selection, Selected
  <2> QED
    BY <1>1, <2>1, SelectionType, ReadType DEF IInv, TypeOK
<1>4. TypeOK'
  BY <1>1, <1>2, <1>3 DEF IInv, TypeOK
<1>5. StillSelected'
  BY <1>2, <1>3 DEF StillSelected
<1>6. offset' = 0
  BY <1>2 DEF IInv, AtTheBeginning
<1>7. AheadOrRead'
  <2>1. \A m \in atStart' : m.id \in Ids
    BY <1>3 DEF Events, Message
  <2>2. Selection' \in SUBSET Ids
    BY DEF Selection, Selected
  <2>3. ASSUME NEW m \in atStart'
        PROVE  Position(m.id, Selection') >= offset'
    <3>1. Position(m.id, Selection') \in Nat
      BY <2>1, <2>2, PositionType
    <3> QED
      BY <1>6, <3>1
  <2> QED
    BY <2>3 DEF AheadOrRead, Contains
<1> QED
  BY <1>2, <1>4, <1>5, <1>7
     DEF IInv, AtTheBeginning, FetchIsComplete, ReadIsOlder, NewestLast

\* The step that matters: what was ahead is on the page, or still ahead, and
\* never behind the last page.
LEMMA AnswerStep == IInv /\ Answer => IInv'
<1> SUFFICES ASSUME IInv, Answer
             PROVE  IInv'
  OBVIOUS
<1> DEFINE page == Page(Selection, offset)
<1>1. /\ pc = "request" /\ pages' = Append(pages, Read(page)) /\ attempt' = 0
      /\ UNCHANGED <<clock, catalogue, removals, since, atStart>>
      /\ \/ /\ Cardinality(page) < PageSize /\ pc' = "done" /\ offset' = offset
         \/ /\ ~(Cardinality(page) < PageSize) /\ pc' = "request"
            /\ offset' = offset + Cardinality(page)
  BY DEF Answer, Extended, users
<1>2. /\ offset \in Nat /\ pages \in Seq(SUBSET Events) /\ clock \in Nat
      /\ Selection \in SUBSET Ids
  BY DEF IInv, TypeOK, Selection, Selected
<1>3. /\ page \in SUBSET Selection
      /\ Cardinality(page) \in Nat
      /\ Cardinality(page) <= PageSize
  BY <1>2, PageBound
<1>4. /\ Read(page) \in SUBSET Events
      /\ \A m \in Read(page) : m.id \in page /\ m.ts = catalogue[m.id].ts /\ m.ts \in 1..clock
      /\ \A id \in page : \E m \in Read(page) : m.id = id /\ m.ts = catalogue[id].ts
  BY <1>2, <1>3, ReadType, SelectionType DEF IInv, Selection
<1> HIDE DEF page
<1>5. /\ pages' \in Seq(SUBSET Events)
      /\ DOMAIN pages' = 1..(Len(pages) + 1)
      /\ DOMAIN pages = 1..Len(pages) /\ Len(pages) \in Nat
      /\ pages'[Len(pages) + 1] = Read(page)
      /\ \A i \in DOMAIN pages : i \in DOMAIN pages' /\ pages'[i] = pages[i]
  BY <1>1, <1>2, <1>4
<1>6. TypeOK'
  BY <1>1, <1>2, <1>3, <1>5, OneCSourceAssumption DEF IInv, TypeOK
<1>7. Selection' = Selection
  BY <1>1 DEF Selection, Selected
<1>8. StillSelected'
  BY <1>1, <1>7 DEF IInv, StillSelected
<1>9. ASSUME removals = 0, NEW m \in atStart
      PROVE  \/ Contains(pages', m.id, m.ts)
             \/ Position(m.id, Selection) >= offset /\ m.id \notin page
  <2>1. Position(m.id, Selection) >= offset \/ Contains(pages, m.id, m.ts)
    BY <1>1, <1>9 DEF IInv, AheadOrRead
  <2>2. CASE Contains(pages, m.id, m.ts)
    BY <1>5, <2>2 DEF Contains
  <2>3. CASE m.id \in page
    <3>1. catalogue[m.id].ts >= m.ts
      BY <1>1, <1>9 DEF IInv, StillSelected
    <3>2. PICK n \in Read(page) : n.id = m.id /\ n.ts = catalogue[m.id].ts
      BY <1>4, <2>3
    <3> QED
      BY <1>5, <3>1, <3>2 DEF Contains
  <2> QED
    BY <2>1, <2>2, <2>3
<1>10. ASSUME removals = 0, NEW m \in atStart
       PROVE  m.id \in Selection /\ Position(m.id, Selection) \in Nat
  BY <1>1, <1>2, <1>10, PositionType DEF IInv, StillSelected
<1>11. AheadOrRead'
  <2> SUFFICES ASSUME pc' = "request", removals = 0, NEW m \in atStart, ~Contains(pages', m.id, m.ts)
               PROVE  Position(m.id, Selection) >= offset'
    BY <1>1, <1>7 DEF AheadOrRead
  <2>1. Position(m.id, Selection) >= offset /\ m.id \notin page
    BY <1>9
  <2>2. Position(m.id, Selection) > offset + PageSize - 1
    BY <1>2, <1>10, <2>1, PageSizes DEF page, Page
  <2> QED
    BY <1>1, <1>2, <1>3, <1>10, <2>2, PageSizes
<1>12. FetchIsComplete'
  <2> SUFFICES ASSUME pc' = "done", removals = 0, NEW m \in atStart, ~Contains(pages', m.id, m.ts)
               PROVE  FALSE
    BY <1>1 DEF FetchIsComplete
  <2>1. Position(m.id, Selection) >= offset /\ m.id \notin page
    BY <1>9
  <2> QED
    BY <1>1, <1>2, <1>10, <2>1, ShortPageIsLast DEF page
<1>13. ReadIsOlder'
  <2> SUFFICES ASSUME NEW i \in DOMAIN pages', NEW m \in pages'[i]
               PROVE  m.ts <= clock /\ (catalogue[m.id] # NoRow => m.ts <= catalogue[m.id].ts)
    BY <1>1 DEF ReadIsOlder
  <2>1. CASE i \in DOMAIN pages
    BY <1>5, <2>1 DEF IInv, ReadIsOlder
  <2>2. CASE i = Len(pages) + 1
    BY <1>2, <1>4, <1>5, <2>2
  <2> QED
    BY <1>5, <2>1, <2>2
<1>14. NewestLast'
  <2> SUFFICES ASSUME NEW i \in DOMAIN pages', NEW j \in DOMAIN pages',
                      NEW m \in pages'[i], NEW n \in pages'[j], i < j, m.id = n.id
               PROVE  m.ts <= n.ts
    BY DEF NewestLast
  <2>1. i \in DOMAIN pages /\ m \in pages[i]
    BY <1>5
  <2>2. CASE j \in DOMAIN pages
    BY <1>5, <2>1, <2>2 DEF IInv, NewestLast
  <2>3. CASE j = Len(pages) + 1
    <3>1. n \in Read(page)
      BY <1>5, <2>3
    <3>2. n.id \in page /\ n.ts = catalogue[n.id].ts /\ catalogue[n.id] # NoRow
      BY <1>3, <1>4, <3>1, SelectionType DEF Selection
    <3> QED
      BY <2>1, <3>2 DEF IInv, ReadIsOlder
  <2> QED
    BY <1>5, <2>2, <2>3
<1> QED
  BY <1>1, <1>6, <1>8, <1>11, <1>12, <1>13, <1>14 DEF IInv, AtTheBeginning

LEMMA RetriableErrorStep == IInv /\ RetriableError => IInv'
<1> SUFFICES ASSUME IInv, RetriableError
             PROVE  IInv'
  OBVIOUS
<1>1. /\ attempt < Retries /\ attempt' = attempt + 1
      /\ UNCHANGED <<clock, catalogue, removals, pc, since, offset, pages, atStart>>
  BY DEF RetriableError, AskAgain, users
<1>2. TypeOK'
  BY <1>1, OneCSourceAssumption DEF IInv, TypeOK
<1>3. Selection' = Selection
  BY <1>1 DEF Selection, Selected
<1> QED
  BY <1>1, <1>2, <1>3
     DEF IInv, AtTheBeginning, StillSelected, AheadOrRead, FetchIsComplete, ReadIsOlder, NewestLast,
         RetriableError

LEMMA RaiseStep == IInv /\ Raise => IInv'
BY DEF Raise, users, IInv, TypeOK, AtTheBeginning, StillSelected, AheadOrRead, FetchIsComplete,
       ReadIsOlder, NewestLast

LEMMA StutterStep == IInv /\ UNCHANGED vars => IInv'
BY DEF vars, users, fetch, IInv, TypeOK, AtTheBeginning, StillSelected, AheadOrRead,
       FetchIsComplete, ReadIsOlder, NewestLast, Selection, Selected, Position, Contains

\* IInv is an invariant of every instance of OneCSource.
THEOREM Invariance == Spec => []IInv
<1>1. IInv /\ [Next]_vars => IInv'
  BY TickStep, SaveStep, RemoveStep, BeginStep, AnswerStep, RetriableErrorStep, RaiseStep,
     StutterStep DEF Next, Client
<1> QED
  BY <1>1, Initially, PTL DEF Spec

\* Every variable has its type (TypeOK), whatever the page size.
THEOREM TypeCorrect == Spec => []TypeOK
BY Invariance, PTL DEF IInv

\* A fetch that returns has everything that was there when it began
\* (_get_all), for catalogues of any size.
THEOREM NothingIsMissed == Spec => []FetchIsComplete
BY Invariance, PTL DEF IInv

\* Of an object read twice the newest version comes last, whatever users do.
THEOREM VersionsAreInOrder == Spec => []NewestLast
BY Invariance, PTL DEF IInv
=============================================================================
