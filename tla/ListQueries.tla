---------------------------- MODULE ListQueries ----------------------------
(***************************************************************************)
(* The paginated reads of the API.  A list is ordered by a sort key, with  *)
(* the id as tie-break, and answered one page at a time (skip, take) with  *)
(* a total.  A list is given here by its key function: the domain holds    *)
(* the ids of the rows that match the query, the values are what they are  *)
(* sorted by.  A page is the set of rows whose rank falls into it, so no   *)
(* sequence has to be sorted.                                              *)
(***************************************************************************)
EXTENDS Naturals, FiniteSets

\* The values a query may ask for: a page from 1, a limit from 1 to 100.
MaxPageSize == 100
ValidPage(page)   == page \in Nat \ {0}
ValidLimit(limit) == limit \in 1..MaxPageSize

\* An absent filter restricts nothing, a given one is an equality.
Matches(row, filters) == \A f \in DOMAIN filters : row[f] = filters[f]

\* Bug: equal keys come in no order.
BugPrecedes(key, order, x, y) ==
  IF order = "asc" THEN key[x] < key[y] ELSE key[x] > key[y]

\* A row comes first by its key, among equal keys by the newer id.
Precedes(key, order, x, y) ==
  \/ IF order = "asc" THEN key[x] < key[y] ELSE key[x] > key[y]
  \/ key[x] = key[y] /\ x > y

Rank(key, order, x) ==
  1 + Cardinality({y \in DOMAIN key : Precedes(key, order, y, x)})

\* skip: (page - 1) * limit, take: limit.
OnPage(rank, page, limit) ==
  rank \in (page - 1) * limit + 1 .. page * limit

Page(key, order, page, limit) ==
  {x \in DOMAIN key : OnPage(Rank(key, order, x), page, limit)}

TotalPages(total, limit) ==
  IF total = 0 THEN 1 ELSE (total + limit - 1) \div limit

-----------------------------------------------------------------------------
\* Users and customers are listed by id, oldest first.
ById(ids) == [i \in ids |-> i]

UserKey(users, filters) ==
  ById({u \in DOMAIN users : Matches(users[u], filters)})

CustomerKey(customers) == ById(DOMAIN customers)

\* Shipments match the filters and the departure window.
ShipmentKey(shipments, q) ==
  LET matching == {s \in DOMAIN shipments :
                     /\ Matches(shipments[s], q.filters)
                     /\ shipments[s].departureDate \in q.from .. q.to}
  IN [s \in matching |-> shipments[s].departureDate]

\* Events match the filters and the window of occurrence.
EventKey(events, q) ==
  LET matching == {e \in DOMAIN events :
                     /\ Matches(events[e], q.filters)
                     /\ events[e].occurredAt \in q.from .. q.to}
  IN [e \in matching |-> events[e].occurredAt]

EventOrder == "desc"

EventsOf(events, s) ==
  [e \in {x \in DOMAIN events : events[x].shipment = s} |->
     events[e].occurredAt]

\* The location a single shipment is shown with: its first event in the order
\* of its history.
LatestLocation(events, s) ==
  {events[e].place : e \in Page(EventsOf(events, s), EventOrder, 1, 1)}

\* The locations a page of shipments is shown with, read by one query: all
\* their events by shipment, then newest first, the first of each shipment.
LatestLocations(events, ids) ==
  LET theirs == {e \in DOMAIN events : events[e].shipment \in ids}
      Before(d, e) ==
        \/ events[d].shipment < events[e].shipment
        \/ /\ events[d].shipment = events[e].shipment
           /\ \/ events[d].occurredAt > events[e].occurredAt
              \/ events[d].occurredAt = events[e].occurredAt /\ d > e
      distinct == {e \in theirs :
                     \A d \in theirs :
                       events[d].shipment = events[e].shipment => ~Before(d, e)}
  IN [s \in ids |-> {events[e].place : e \in {d \in distinct :
                                                events[d].shipment = s}}]
=============================================================================
