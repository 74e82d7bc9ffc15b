---------------------------- MODULE ApiRequests ----------------------------
(***************************************************************************)
(* The requests of the HTTP API and their way through the guards.  Every   *)
(* request runs in a process of its own: between two of its database calls *)
(* any other request may run.  A request keeps the target and the body it  *)
(* was sent with, and what it has read so far; it ends with the code of    *)
(* its answer.  The component's handlers are in the modules that extend    *)
(* this one.                                                               *)
(***************************************************************************)
EXTENDS Naturals, FiniteSets

CONSTANTS
  Requests,   \* the requests of a behaviour, each answered at most once
  Mixes       \* the bags of routes that are called together in a behaviour

VARIABLES
  traffic,    \* how often each route is still called in this behaviour
  pc,         \* idle, a route, a step of its handler, or the answer
  token,      \* the principal the guard took from the bearer token
  arg,        \* the id the request is about
  body,       \* what the request sends
  seen,       \* what its handler has read
  shown,      \* observed: the shipments whose data the request has read out
  disturbed,  \* observed: the requests during which another one has written
  tokens,     \* the principals tokens were signed for
  lastId      \* the last value of the identity columns

requestVars == <<pc, token, arg, body, seen, shown, disturbed>>

-----------------------------------------------------------------------------
\* The routes of the controllers.
PublicRoutes     == {"login"}
UserRoutes       == {"createUser", "updateUser", "deleteUser"}
ProfileRoutes    == {"updateProfile"}
CustomerRoutes   == {"createCustomer", "updateCustomer", "deleteCustomer"}
RegisterRoutes   == {"createShipment"}
RemovalRoutes    == {"cancelShipment"}
ReadingRoutes    == {"getShipment", "listShipments", "shipmentHistory"}
HistoryRoutes    == {"allHistory", "addEvent"}

Routes == UNION {PublicRoutes, UserRoutes, ProfileRoutes, CustomerRoutes,
                 RegisterRoutes, RemovalRoutes, ReadingRoutes, HistoryRoutes}

ASSUME MixesAssumption ==
  \A mix \in Mixes :
    DOMAIN mix \subseteq Routes /\ \A route \in DOMAIN mix : mix[route] \in Nat

\* The roles that the decorators of a route ask for; reading a shipment and
\* one's own profile asks for none in particular.
MayCall(role, route) ==
  /\ route \in UserRoutes \cup CustomerRoutes \cup HistoryRoutes =>
       role = "ADMINISTRATOR"
  /\ route \in RegisterRoutes \cup RemovalRoutes =>
       role \in {"ADMINISTRATOR", "OPERATOR"}

\* The answer of each error of the domain.
StatusByCode ==
  [CUSTOMER_NOT_FOUND |-> 404, CUSTOMER_EMAIL_IN_USE |-> 409,
   USER_NOT_FOUND |-> 404, USER_EMAIL_IN_USE |-> 409, USER_INVALID |-> 422,
   USER_CUSTOMER_LINK_INVALID |-> 422, INVALID_CREDENTIALS |-> 401,
   FORBIDDEN |-> 403, SHIPMENT_NOT_FOUND |-> 404,
   SHIPMENT_CARGO_CODE_IN_USE |-> 409, SHIPMENT_CONFLICT |-> 409,
   IDEMPOTENCY_KEY_CONFLICT |-> 409, SHIPMENT_INVALID |-> 422,
   SHIPMENT_INVALID_DATES |-> 422, SHIPMENT_INVALID_TRANSITION |-> 422,
   SHIPMENT_HANDLER_REQUIRED |-> 422, SHIPMENT_HANDLER_INACTIVE |-> 422,
   CUSTOMER_SCOPE_MISSING |-> 403, GEOCODING_INVALID_ADDRESS |-> 400,
   GEOCODING_RESULT_NOT_FOUND |-> 404, GEOCODING_PROVIDER_UNAVAILABLE |-> 503]

\* A domain error that is not in the table is a 422, an HTTP exception keeps
\* its status, anything else is an internal error.
StatusOf(code) ==
  CASE code \in DOMAIN StatusByCode -> StatusByCode[code]
    [] code = "OK"             -> 200
    [] code = "TOKEN_MISSING"  -> 401
    [] code = "INTERNAL_ERROR" -> 500
    [] OTHER                   -> 422

Answers == DOMAIN StatusByCode
             \cup {"OK", "TOKEN_MISSING", "CUSTOMER_INVALID", "INTERNAL_ERROR"}

-----------------------------------------------------------------------------
NoCustomer == 0
NoPrincipal == [user |-> 0, role |-> "CUSTOMER", customer |-> NoCustomer]
NoRow == [none |-> 0]

\* Reading and writing tables: a table is a function from ids to rows.
Updated(row, change) ==
  [f \in DOMAIN row |-> IF f \in DOMAIN change THEN change[f] ELSE row[f]]

Put(table, id, row) ==
  [i \in DOMAIN table \cup {id} |-> IF i = id THEN row ELSE table[i]]

Without(table, ids) == [i \in DOMAIN table \ ids |-> table[i]]

\* The next step of a request, or its answer.
Goto(r, at) == pc' = [pc EXCEPT ![r] = at]

\* A step that reads nothing worth keeping.
Proceed(r, at) ==
  /\ Goto(r, at)
  /\ UNCHANGED <<token, arg, body, seen, shown, disturbed>>

\* A handler takes its input and makes its first read.
Take(r, id, sent, read, at) ==
  /\ Goto(r, at)
  /\ arg'  = [arg  EXCEPT ![r] = id]
  /\ body' = [body EXCEPT ![r] = sent]
  /\ seen' = [seen EXCEPT ![r] = read]
  /\ UNCHANGED <<token, shown, disturbed>>

\* A request that has called the database and has not been answered.
InFlight(q) == pc[q] \notin {"idle"} \cup Routes \cup Answers

\* A write is committed and answered; all that is under way is disturbed.
Commit(r) ==
  /\ Goto(r, "OK")
  /\ disturbed' = disturbed \cup {q \in Requests \ {r} : InFlight(q)}
  /\ UNCHANGED <<token, arg, body, seen, shown>>

InitRequests ==
  /\ traffic \in Mixes
  /\ pc    = [r \in Requests |-> "idle"]
  /\ token = [r \in Requests |-> NoPrincipal]
  /\ arg   = [r \in Requests |-> 0]
  /\ body  = [r \in Requests |-> NoRow]
  /\ seen  = [r \in Requests |-> NoRow]
  /\ shown = [r \in Requests |-> {}]
  /\ disturbed = {}

-----------------------------------------------------------------------------
\* The authentication guard decides by the token alone (no row is read): a
\* signed principal is believed as long as its token lives.  A token that
\* cannot be verified is refused like a missing one.
Authenticate(r, route) ==
  \/ /\ Goto(r, "TOKEN_MISSING")
     /\ UNCHANGED <<token, arg, body, seen, shown, disturbed>>
  \/ \E t \in tokens :
       /\ token' = [token EXCEPT ![r] = t]
       /\ Goto(r, IF MayCall(t.role, route) THEN route ELSE "FORBIDDEN")
       /\ UNCHANGED <<arg, body, seen, shown, disturbed>>

\* A request arrives and passes the guards.
Arrive(r) ==
  /\ pc[r] = "idle"
  /\ \E route \in Routes \cap DOMAIN traffic :
       /\ traffic[route] > 0
       /\ traffic' = [traffic EXCEPT ![route] = @ - 1]
       /\ IF route \in PublicRoutes THEN Proceed(r, route)
                                    ELSE Authenticate(r, route)
=============================================================================
