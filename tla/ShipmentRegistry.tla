-------------------------- MODULE ShipmentRegistry --------------------------
(***************************************************************************)
(* The shipments of the customers: registration, removal, manual           *)
(* occurrences and the reads, composed with the directory of users and     *)
(* customers that they rest on.  A shipment belongs to a customer, is in   *)
(* the hands of an operator of that customer, and is addressed by its      *)
(* cargo code; its history goes with it.  Who may see and do what is       *)
(* decided by the token alone.  The status of a shipment and the updates   *)
(* that move it are the subject of TrackingLedger.                         *)
(***************************************************************************)
EXTENDS UserDirectory, ListQueries

CONSTANTS
  Codes,                 \* cargo codes
  MaxTime,               \* dates and times are 1..MaxTime
  LastId0,               \* the identity columns have got this far
  Shipments0, Events0,   \* what is there when a behaviour begins
  Registrations,         \* the bodies of POST /tracking
  ShipmentQueries,       \* the queries of GET /tracking
  EventQueries           \* the queries of GET /historico

VARIABLES
  shipments,  \* id -> row
  events,     \* id -> row
  owner       \* observed: the customer of every shipment there ever was

registryVars == <<shipments, events, owner>>
vars == <<traffic, requestVars, directoryVars, registryVars>>

Times == 1..MaxTime

IsShipment(w) ==
  /\ w = [f \in {"code", "customer", "handler", "departureDate"} |-> w[f]]
  /\ w.code \in Codes
  /\ w.customer \in Nat \ {0}
  /\ w.handler \in Nat
  /\ w.departureDate \in Times

IsEvent(w) ==
  /\ w = [f \in {"shipment", "occurredAt", "place"} |-> w[f]]
  /\ w.shipment \in Nat
  /\ w.occurredAt \in Times

\* The operator in charge, as the customer of the shipment demands it.
HandlerOf(w) ==
  [user |-> w.handler, role |-> "OPERATOR", customer |-> w.customer]

ASSUME RegistryAssumption ==
  /\ MaxTime \in Nat /\ LastId0 \in Nat
  /\ UNION {DOMAIN Users0, DOMAIN Customers0, DOMAIN Shipments0,
            DOMAIN Events0} \subseteq 1..LastId0
  /\ \A s \in DOMAIN Shipments0 :
       /\ IsShipment(Shipments0[s])
       /\ Shipments0[s].customer \in DOMAIN Customers0
       /\ HandlerOf(Shipments0[s]) \in ActivePrincipals(Users0)
  /\ \A s, t \in DOMAIN Shipments0 :
       Shipments0[s].code = Shipments0[t].code => s = t
  /\ \A e \in DOMAIN Events0 :
       IsEvent(Events0[e]) /\ Events0[e].shipment \in DOMAIN Shipments0
  /\ \A b \in Registrations : IsShipment(b) /\ b.handler \in DOMAIN Users0
  /\ \A q \in ShipmentQueries \cup EventQueries :
       /\ q = [f \in {"list", "filters", "from", "to", "order", "page",
                      "limit"} |-> q[f]]
       /\ ValidPage(q.page) /\ ValidLimit(q.limit)
  /\ \A q \in ShipmentQueries : q.list = "shipments"
  /\ \A q \in EventQueries : q.list = "events"

-----------------------------------------------------------------------------
\* The scope of a token: an administrator sees every customer, an operator
\* and a customer their own; somebody linked to no customer has no scope.
HasScope(t) == t.role = "ADMINISTRATOR" \/ t.customer # NoCustomer
InScope(t, customer) == t.role = "ADMINISTRATOR" \/ customer = t.customer

\* Writes are for administrators and linked operators.
CanManage(t) ==
  t.role = "ADMINISTRATOR" \/ (t.role = "OPERATOR" /\ t.customer # NoCustomer)

WithCode(code) == {s \in DOMAIN shipments : shipments[s].code = code}

\* Bug: a shipment is found by its code alone.
BugLoaded(t, code) == WithCode(code)

\* A shipment is found by its code, in the scope of the token.
Loaded(t, code) ==
  {s \in WithCode(code) : HasScope(t) /\ InScope(t, shipments[s].customer)}

\* One of another customer answers like one that does not exist.
Refusal(t, code) ==
  IF WithCode(code) # {} /\ ~HasScope(t) THEN "CUSTOMER_SCOPE_MISSING"
                                         ELSE "SHIPMENT_NOT_FOUND"

NotLoaded(r, code) ==
  \/ Proceed(r, "SHIPMENT_INVALID")   \* what was sent is not a cargo code
  \/ Loaded(token[r], code) = {} /\ Proceed(r, Refusal(token[r], code))

-----------------------------------------------------------------------------
\* The body of a registration: customer and handler are the administrator's
\* to name and are taken from the token for an operator.
Ownership(t, customer, handler) ==
  IF t.role = "ADMINISTRATOR"
  THEN [customer |-> customer, handler |-> handler]
  ELSE [customer |-> t.customer, handler |-> t.user]

Registration(own, code, departure) ==
  [code |-> code, customer |-> own.customer, handler |-> own.handler,
   departureDate |-> departure]

\* An administrator's customer is read first, then the handler.
FirstCheck(t, own) ==
  IF t.role = "ADMINISTRATOR"
  THEN IF own.customer \in DOMAIN customers THEN "readHandler"
                                            ELSE "CUSTOMER_NOT_FOUND"
  ELSE IF t.customer = NoCustomer THEN "CUSTOMER_SCOPE_MISSING"
                                  ELSE "readCode"

\* A registration that is not well formed.
RegistrationErrors == {"SHIPMENT_INVALID", "SHIPMENT_INVALID_DATES"}

\* POST /tracking
CreateShipment(r) ==
  /\ pc[r] = "createShipment"
  /\ \/ \E error \in RegistrationErrors : Proceed(r, error)
     \/ \E b \in Registrations :
          LET own == Ownership(token[r], b.customer, b.handler) IN
            Take(r, 0, Registration(own, b.code, b.departureDate), NoRow,
                 FirstCheck(token[r], own))
  /\ UNCHANGED <<directoryVars, registryVars>>

\* Bug: the customer of the handler is not looked at.
BugHandlerCheck(handler, customer) ==
  IF ~handler.active THEN "SHIPMENT_HANDLER_INACTIVE"
  ELSE IF handler.role # "OPERATOR" THEN "SHIPMENT_HANDLER_REQUIRED"
                                    ELSE "readCode"

\* The handler an administrator names is an active operator of the customer.
HandlerCheck(handler, customer) ==
  IF ~handler.active THEN "SHIPMENT_HANDLER_INACTIVE"
  ELSE IF handler.role # "OPERATOR" \/ handler.customer # customer
       THEN "SHIPMENT_HANDLER_REQUIRED" ELSE "readCode"

ReadHandler(r) ==
  /\ pc[r] = "readHandler"
  /\ \/ Proceed(r, "USER_NOT_FOUND")     \* an id that was never given
     \/ Proceed(r, HandlerCheck(users[body[r].handler], body[r].customer))
  /\ UNCHANGED <<directoryVars, registryVars>>

ReadCode(r) ==
  /\ pc[r] = "readCode"
  /\ Proceed(r, IF WithCode(body[r].code) = {} THEN "geocode"
                ELSE "SHIPMENT_CARGO_CODE_IN_USE")
  /\ UNCHANGED <<directoryVars, registryVars>>

GeocodingErrors ==
  {"GEOCODING_INVALID_ADDRESS", "GEOCODING_RESULT_NOT_FOUND",
   "GEOCODING_PROVIDER_UNAVAILABLE"}

\* Both addresses are resolved; the geocoder may take its time, or fail.
Geocode(r) ==
  /\ pc[r] = "geocode"
  /\ \E at \in {"insertShipment"} \cup GeocodingErrors : Proceed(r, at)
  /\ UNCHANGED <<directoryVars, registryVars>>

\* Bug: no unique index on the cargo code.
BugInsertErrors(row) ==
  {e \in {"SHIPMENT_INVALID"} : row.customer \notin DOMAIN customers}

\* What the database says of an insertion that it refuses.
InsertErrors(row) ==
  {e \in {"SHIPMENT_CARGO_CODE_IN_USE", "SHIPMENT_INVALID"} :
     \/ e = "SHIPMENT_CARGO_CODE_IN_USE" /\ WithCode(row.code) # {}
     \/ e = "SHIPMENT_INVALID" /\ row.customer \notin DOMAIN customers}

\* The row and its first event are inserted in one transaction.
InsertShipment(r) ==
  /\ pc[r] = "insertShipment"
  /\ \/ /\ \E error \in InsertErrors(body[r]) : Proceed(r, error)
        /\ UNCHANGED <<directoryVars, registryVars>>
     \/ /\ InsertErrors(body[r]) = {}
        /\ lastId' = lastId + 1
        /\ shipments' = Put(shipments, lastId', body[r])
        /\ owner' = Put(owner, lastId', body[r].customer)
        /\ \E now \in Times :
             events' = Put(events, lastId',
                           [shipment |-> lastId', occurredAt |-> now,
                            place |-> "origin"])
        /\ Commit(r)
        /\ UNCHANGED <<users, customers, tokens, held>>

-----------------------------------------------------------------------------
\* DELETE /tracking/:codigoCarga: the shipment is loaded in the scope of the
\* token, then removed by its code.
CancelShipment(r) ==
  /\ pc[r] = "cancelShipment"
  /\ IF ~CanManage(token[r]) THEN Proceed(r, "CUSTOMER_SCOPE_MISSING")
     ELSE \E code \in Codes :
            \/ NotLoaded(r, code)
            \/ \E s \in Loaded(token[r], code) :
                 Take(r, s, [code |-> code], NoRow, "removeShipment")
  /\ UNCHANGED <<directoryVars, registryVars>>

\* The history is removed with the shipment (cascade).
RemoveShipment(r) ==
  /\ pc[r] = "removeShipment"
  /\ LET gone == WithCode(body[r].code) IN
       IF gone = {}
       THEN Proceed(r, "SHIPMENT_NOT_FOUND") /\ UNCHANGED registryVars
       ELSE /\ shipments' = Without(shipments, gone)
            /\ events' = Without(events, {e \in DOMAIN events :
                                            events[e].shipment \in gone})
            /\ Commit(r)
            /\ UNCHANGED owner
  /\ UNCHANGED directoryVars

\* POST /historico/:codigoCarga, for administrators.
AddEvent(r) ==
  /\ pc[r] = "addEvent"
  /\ \/ Proceed(r, "SHIPMENT_INVALID")
     \/ \E code \in Codes :
          \/ NotLoaded(r, code)
          \/ \E s \in WithCode(code), at \in Times :
               Take(r, s, [shipment |-> s, occurredAt |-> at,
                           place |-> "checkpoint"], NoRow, "insertEvent")
  /\ UNCHANGED <<directoryVars, registryVars>>

\* The event refers to the shipment by its id; the error of the foreign key
\* is not translated.
InsertEvent(r) ==
  /\ pc[r] = "insertEvent"
  /\ IF arg[r] \notin DOMAIN shipments
     THEN Proceed(r, "INTERNAL_ERROR") /\ UNCHANGED <<directoryVars, events>>
     ELSE /\ lastId' = lastId + 1
          /\ events' = Put(events, lastId', body[r])
          /\ Commit(r)
          /\ UNCHANGED <<users, customers, tokens, held>>
  /\ UNCHANGED <<shipments, owner>>

-----------------------------------------------------------------------------
\* GET /tracking/:codigoCarga
GetShipment(r) ==
  /\ pc[r] = "getShipment"
  /\ \E code \in Codes :
       \/ NotLoaded(r, code)
       \/ \E s \in Loaded(token[r], code) :
            /\ Goto(r, "readLocation")
            /\ arg'   = [arg EXCEPT ![r] = s]
            /\ shown' = [shown EXCEPT ![r] = {s}]
            /\ UNCHANGED <<token, body, seen, disturbed>>
  /\ UNCHANGED <<directoryVars, registryVars>>

ReadLocation(r) ==
  /\ pc[r] = "readLocation"
  /\ Goto(r, "OK")
  /\ seen' = [seen EXCEPT ![r] = [place |-> LatestLocation(events, arg[r])]]
  /\ UNCHANGED <<token, arg, body, shown, disturbed, directoryVars,
                 registryVars>>

\* Bug: the customer asked for has the last word.
BugScopedFilters(t, filters) ==
  IF t.role = "ADMINISTRATOR" \/ "customer" \in DOMAIN filters THEN filters
  ELSE [f \in DOMAIN filters \cup {"customer"} |->
          IF f = "customer" THEN t.customer ELSE filters[f]]

\* The filters of a list: whatever customer is asked for, the scope of the
\* token takes its place.
ScopedFilters(t, filters) ==
  IF t.role = "ADMINISTRATOR" THEN filters
  ELSE [f \in DOMAIN filters \cup {"customer"} |->
          IF f = "customer" THEN t.customer ELSE filters[f]]

EmptyRead == [page |-> {}, total |-> 0]

\* GET /tracking, and GET /tracking/status/:status
ListShipments(r) ==
  /\ pc[r] = "listShipments"
  /\ \/ Proceed(r, "SHIPMENT_INVALID")
     \/ /\ ~HasScope(token[r])
        /\ Proceed(r, "CUSTOMER_SCOPE_MISSING")
     \/ /\ HasScope(token[r])
        /\ \E q \in ShipmentQueries :
             Take(r, 0,
                  [q EXCEPT !.filters = ScopedFilters(token[r], q.filters)],
                  EmptyRead, "list")
  /\ UNCHANGED <<directoryVars, registryVars>>

\* The history of a shipment is asked for by the id that was loaded.
HistoryQuery(s, page, limit) ==
  [list |-> "events", filters |-> [shipment |-> s], from |-> 1,
   to |-> MaxTime, order |-> EventOrder, page |-> page, limit |-> limit]

\* GET /tracking/:codigoCarga/historico
ShipmentHistory(r) ==
  /\ pc[r] = "shipmentHistory"
  /\ \E code \in Codes :
       \/ NotLoaded(r, code)
       \/ \E s \in Loaded(token[r], code), q \in EventQueries :
            Take(r, s, HistoryQuery(s, q.page, q.limit), EmptyRead, "list")
  /\ UNCHANGED <<directoryVars, registryVars>>

\* GET /historico, for administrators.
AllHistory(r) ==
  /\ pc[r] = "allHistory"
  /\ \/ Proceed(r, "SHIPMENT_INVALID")   \* no window, or an unknown status
     \/ \E q \in EventQueries : Take(r, 0, q, EmptyRead, "list")
  /\ UNCHANGED <<directoryVars, registryVars>>

\* The rows a query matches, with their sort key.
KeyOf(q) == IF q.list = "shipments" THEN ShipmentKey(shipments, q)
                                    ELSE EventKey(events, q)

PageOf(q) == Page(KeyOf(q), q.order, q.page, q.limit)

\* Bug: the total counts without the filters.
BugCountOf(q) == Cardinality(IF q.list = "shipments" THEN DOMAIN shipments
                                                     ELSE DOMAIN events)

CountOf(q) == Cardinality(DOMAIN KeyOf(q))

ShipmentsOn(q, page) ==
  IF q.list = "shipments" THEN page ELSE {events[e].shipment : e \in page}

\* A list of shipments reads their locations last.
AfterBoth(q) == IF q.list = "shipments" THEN "readLocations" ELSE "OK"

\* The page and the total are read by two queries at the same time, which
\* the database answers in any order.
ReadPage(r) ==
  /\ pc[r] \in {"list", "pageLeft"}
  /\ seen'  = [seen EXCEPT ![r] = [page |-> PageOf(body[r]),
                                   total |-> seen[r].total]]
  /\ shown' = [shown EXCEPT ![r] = ShipmentsOn(body[r], PageOf(body[r]))]
  /\ Goto(r, IF pc[r] = "list" THEN "totalLeft" ELSE AfterBoth(body[r]))
  /\ UNCHANGED <<token, arg, body, disturbed, directoryVars, registryVars>>

ReadTotal(r) ==
  /\ pc[r] \in {"list", "totalLeft"}
  /\ seen' = [seen EXCEPT ![r] = [page |-> seen[r].page,
                                  total |-> CountOf(body[r])]]
  /\ Goto(r, IF pc[r] = "list" THEN "pageLeft" ELSE AfterBoth(body[r]))
  /\ UNCHANGED <<token, arg, body, shown, disturbed, directoryVars,
                 registryVars>>

ReadLocations(r) ==
  /\ pc[r] = "readLocations"
  /\ Goto(r, "OK")
  /\ seen' = [seen EXCEPT ![r] =
                [page |-> seen[r].page, total |-> seen[r].total,
                 places |-> LatestLocations(events, seen[r].page)]]
  /\ UNCHANGED <<token, arg, body, shown, disturbed, directoryVars,
                 registryVars>>

-----------------------------------------------------------------------------
\* The foreign keys that point to a customer.
Referenced(c) ==
  \/ \E u \in DOMAIN users : users[u].customer = c
  \/ \E s \in DOMAIN shipments : shipments[s].customer = c

Init ==
  /\ InitRequests
  /\ InitDirectory
  /\ shipments = Shipments0
  /\ events = Events0
  /\ owner = [s \in DOMAIN Shipments0 |-> Shipments0[s].customer]
  /\ lastId = LastId0

RegistryStep(r) ==
  \/ CreateShipment(r)
  \/ ReadHandler(r)
  \/ ReadCode(r)
  \/ Geocode(r)
  \/ InsertShipment(r)
  \/ CancelShipment(r)
  \/ RemoveShipment(r)
  \/ AddEvent(r)
  \/ InsertEvent(r)
  \/ GetShipment(r)
  \/ ReadLocation(r)
  \/ ListShipments(r)
  \/ ShipmentHistory(r)
  \/ AllHistory(r)
  \/ ReadPage(r)
  \/ ReadTotal(r)
  \/ ReadLocations(r)

Step(r) ==
  \/ Arrive(r) /\ UNCHANGED <<directoryVars, registryVars>>
  \/ DirectoryStep(r) /\ UNCHANGED <<traffic, registryVars>>
  \/ RemoveCustomer(r, Referenced(arg[r])) /\ UNCHANGED <<traffic, registryVars>>
  \/ RegistryStep(r) /\ UNCHANGED traffic

Next == \E r \in Requests : Step(r)

Spec == Init /\ [][Next]_vars

-----------------------------------------------------------------------------
\* Types, and what the database keeps whatever the handlers do: emails and
\* cargo codes are unique, every reference has its target.
RequestsOK ==
  /\ pc   = [r \in Requests |-> pc[r]]   /\ token = [r \in Requests |-> token[r]]
  /\ arg  = [r \in Requests |-> arg[r]]  /\ body  = [r \in Requests |-> body[r]]
  /\ seen = [r \in Requests |-> seen[r]] /\ shown = [r \in Requests |-> shown[r]]

IdsOK ==
  /\ lastId \in Nat
  /\ UNION {DOMAIN users, DOMAIN customers, DOMAIN owner, DOMAIN events}
       \subseteq 1..lastId
  /\ DOMAIN Users0 \subseteq DOMAIN users
  /\ held \subseteq [user : DOMAIN users, role : UserRoles, customer : Nat]

UsersOK ==
  \A u \in DOMAIN users :
    /\ IsUser(users[u])
    /\ ~EmailTaken(users, users[u].email, u)
    /\ ~LinkDangles(users[u].customer)

CustomersOK ==
  \A c \in DOMAIN customers :
    IsCustomer(customers[c]) /\ ~EmailTaken(customers, customers[c].email, c)

ShipmentsOK ==
  \A s \in DOMAIN shipments :
    /\ IsShipment(shipments[s])
    /\ WithCode(shipments[s].code) = {s}
    /\ shipments[s].customer \in DOMAIN customers
    /\ shipments[s].handler \in DOMAIN users
    /\ s \in DOMAIN owner /\ owner[s] = shipments[s].customer

EventsOK ==
  \A e \in DOMAIN events :
    IsEvent(events[e]) /\ events[e].shipment \in DOMAIN shipments

TypeOK ==
  /\ RequestsOK /\ IdsOK
  /\ UsersOK /\ CustomersOK /\ ShipmentsOK /\ EventsOK

\* A token tells the truth of some moment: what it says of a user, an active
\* row of that user once said, role and customer together.  (Not more: it
\* may be signed after the row has changed, and lives on.)
TokensWereTrue == tokens \subseteq held

\* Whoever registers it, and whatever happens to users and tokens meanwhile,
\* a shipment is in the hands of somebody who was an active operator of its
\* customer at some moment.
HandlersOperate == \A s \in DOMAIN shipments : HandlerOf(shipments[s]) \in held

\* An operator or a customer is only ever shown shipments of the customer of
\* the token, and events of these: by a code that was given to a shipment of
\* somebody else meanwhile, by a filter, by a page, never others.
AnswersStayInScope ==
  \A r \in Requests : \A s \in shown[r] : InScope(token[r], owner[s])

\* What the handlers rest on between two steps, request by request.  Where a
\* request is in "disturbed", what it has read may no longer be so.
GuardPassed(r) ==
  /\ token[r] \in tokens \cup {NoPrincipal}
  /\ pc[r] \in Routes \ PublicRoutes =>
       token[r] \in tokens /\ MayCall(token[r].role, pc[r])
  /\ pc[r] = "comparePassword" => PrincipalOf(arg[r], seen[r]) \in held

UserWriteIsFounded(r) ==
  /\ pc[r] = "insertUser" =>
       /\ IsUser(body[r])
       /\ r \notin disturbed => ~EmailTaken(users, body[r].email, 0)
  /\ pc[r] \in {"checkUserEmail", "writeUser"} =>
       /\ arg[r] \in DOMAIN users /\ IsUser(seen[r]) /\ IsUserPatch(body[r])
       /\ PatchAccepted(seen[r], body[r])
       /\ token[r].role = "ADMINISTRATOR" \/ DOMAIN body[r] \subseteq {"email"}
       /\ r \notin disturbed => seen[r] = users[arg[r]]
  /\ pc[r] = "checkUserEmail" => "email" \in DOMAIN body[r]
  /\ pc[r] = "writeUser" /\ r \notin disturbed =>
       ~EmailTaken(users, Updated(seen[r], body[r]).email, arg[r])

CustomerWriteIsFounded(r) ==
  /\ pc[r] = "insertCustomer" =>
       /\ IsCustomer(body[r])
       /\ r \notin disturbed => ~EmailTaken(customers, body[r].email, 0)
  /\ pc[r] \in {"checkCustomerEmail", "writeCustomer"} =>
       /\ IsCustomer(seen[r]) /\ IsCustomerPatch(body[r])
       /\ r \notin disturbed =>
            arg[r] \in DOMAIN customers /\ seen[r] = customers[arg[r]]
  /\ pc[r] = "writeCustomer" /\ r \notin disturbed =>
       ~EmailTaken(customers, Merged(r).email, arg[r])
  /\ pc[r] = "removeCustomer" /\ r \notin disturbed => arg[r] \in DOMAIN customers

ShipmentWriteIsFounded(r) ==
  /\ pc[r] \in {"readHandler", "readCode", "geocode", "insertShipment"} =>
       IsShipment(body[r]) /\ body[r].handler \in DOMAIN users
  /\ pc[r] \in {"readCode", "geocode", "insertShipment"} => HandlerOf(body[r]) \in held
  /\ pc[r] = "removeShipment" =>
       /\ arg[r] \in DOMAIN owner /\ InScope(token[r], owner[arg[r]])
       /\ arg[r] \in DOMAIN shipments => shipments[arg[r]].code = body[r].code
  /\ pc[r] = "insertEvent" =>
       /\ IsEvent(body[r]) /\ body[r].shipment = arg[r]
       /\ r \notin disturbed => arg[r] \in DOMAIN shipments

\* The shipments that a token may be shown.
Sees(t, s) == t.role = "ADMINISTRATOR" \/ (s \in DOMAIN owner /\ owner[s] = t.customer)

QueryInScope(t, q) ==
  \/ t.role = "ADMINISTRATOR"
  \/ /\ q.list = "shipments"
     /\ "customer" \in DOMAIN q.filters /\ q.filters.customer = t.customer
  \/ /\ q.list = "events"
     /\ "shipment" \in DOMAIN q.filters /\ Sees(t, q.filters.shipment)

ReadIsFounded(r) ==
  /\ pc[r] \in {"idle"} \cup Routes => shown[r] = {}
  /\ \A s \in shown[r] : Sees(token[r], s)
  /\ pc[r] \in {"list", "pageLeft", "totalLeft"} => QueryInScope(token[r], body[r])
  /\ pc[r] = "pageLeft" /\ r \notin disturbed => seen[r].total = CountOf(body[r])
  /\ pc[r] = "totalLeft" /\ r \notin disturbed => seen[r].page = PageOf(body[r])

\* The inductive invariant: types and references, what tokens and handlers
\* were, and what each request in flight rests on.
RegistryInv ==
  /\ TypeOK /\ TokensWereTrue /\ HandlersOperate
  /\ ActivePrincipals(users) \subseteq held
  /\ \A r \in Requests :
       /\ GuardPassed(r)
       /\ UserWriteIsFounded(r)
       /\ CustomerWriteIsFounded(r)
       /\ ShipmentWriteIsFounded(r)
       /\ ReadIsFounded(r)

\* Reading a list page by page, with nobody writing, shows every row once and
\* in order, and the pages are full: for every list, order and limit.
PagesPartition(key, order, limit) ==
  LET n == Cardinality(DOMAIN key)
      pages == {[number |-> p, rows |-> Page(key, order, p, limit)] :
                  p \in 1..TotalPages(n, limit)}
  IN /\ DOMAIN key = UNION {p.rows : p \in pages}
     /\ \A p \in pages : n > 0 => Cardinality(p.rows) \in 1..limit
     /\ \A p, q \in pages : p.number < q.number =>
          /\ Cardinality(p.rows) = limit
          /\ \A x \in p.rows, y \in q.rows : Precedes(key, order, x, y)

\* The same holds of every list of the API; and the location that a list shows
\* of a shipment (one query for all of them) is the one that the shipment
\* alone is shown with (the first event of its history).
ListsAreWhole ==
  /\ \A limit \in {1, 2} :
       /\ \A q \in ShipmentQueries, order \in {"asc", "desc"} :
            PagesPartition(ShipmentKey(shipments, q), order, limit)
       /\ \A q \in EventQueries :
            PagesPartition(EventKey(events, q), EventOrder, limit)
       /\ PagesPartition(UserKey(users, <<>>), "asc", limit)
       /\ PagesPartition(CustomerKey(customers), "asc", limit)
  /\ \A s \in DOMAIN shipments :
       LatestLocations(events, DOMAIN shipments)[s] = LatestLocation(events, s)

\* A list that nobody wrote into while it was read is exact: the page and
\* the total, read by two queries, are those of one and the same state.
QuietListsAreExact ==
  [][\A r \in Requests :
       (pc[r] \in {"pageLeft", "totalLeft"} /\ pc'[r] # pc[r] /\ r \notin disturbed)
       => /\ seen'[r].page = PageOf(body[r])
          /\ seen'[r].total = Cardinality(DOMAIN KeyOf(body[r]))]_vars

\* Only an update that judged by a row which has changed since can leave a
\* user with a role and a customer that do not go together.
OnlyStaleUpdatesBreakTheLink ==
  [][\A u \in DOMAIN users :
       ( /\ LinkValid(users[u].role, users[u].customer)
         /\ ~LinkValid(users'[u].role, users'[u].customer) )
       => \E r \in Requests :
            /\ pc[r] = "writeUser" /\ arg[r] = u
            /\ \/ seen[r].role # users[u].role
               \/ seen[r].customer # users[u].customer]_vars

\* A field changes because a request sends it; an administrator's when it
\* decides on access.  Only the other fields of a customer may be set back
\* to what they were, and only by an update that something disturbed.
FieldsChangeAsAsked ==
  [][/\ \A u \in DOMAIN users : \A f \in UserFields :
          users'[u][f] # users[u][f] =>
            \E r \in Requests :
              /\ pc[r] = "writeUser" /\ arg[r] = u /\ f \in DOMAIN body[r]
              /\ f # "email" => token[r].role = "ADMINISTRATOR"
     /\ \A c \in DOMAIN customers \cap DOMAIN customers' :
          \A f \in CustomerFields :
            customers'[c][f] # customers[c][f] =>
              \E r \in Requests :
                /\ pc[r] = "writeCustomer" /\ arg[r] = c
                /\ f \in DOMAIN body[r] \/ r \in disturbed]_vars

\* An internal error is the mark of a race: a request during which nobody
\* else has written meets none, but for the removal of a customer that users
\* or shipments refer to, which no handler looks for.
InternalErrorsAreRaces ==
  [][\A r \in Requests :
       (pc'[r] # pc[r] /\ StatusOf(pc'[r]) = 500) =>
         \/ r \in disturbed
         \/ pc[r] = "removeCustomer" /\ Referenced(arg[r])]_vars

\* A cancellation removes the shipment it has loaded, one of its scope; another
\* one only when that one was removed meanwhile and its code given again.
CancelRemovesWhatItLoaded ==
  [][\A s \in DOMAIN shipments \ DOMAIN shipments' :
       \E r \in Requests :
         /\ pc[r] = "removeShipment"
         /\ \/ arg[r] = s /\ InScope(token[r], shipments[s].customer)
            \/ arg[r] \notin DOMAIN shipments]_vars
=============================================================================
